-------------------------- MODULE SnapshotLifecycle --------------------------
(***************************************************************************)
(* Snapshots of the state database from request to checkpoint: the gate,   *)
(* the checkpoint check, the clone and the commit in the VC services, the  *)
(* snapshot hasher, the deletion of clones, and what holding a checkpoint  *)
(* does in the coordinator and the sidecar.                                *)
(*                                                                         *)
(* A transaction is its position in the blocks.  Kinds: snapshot; digest   *)
(* and abort, checkpoint transactions that name a snapshot; update.  The   *)
(* content of a database is its table tx_status, which tells what the      *)
(* hashed tables hold, and its hash is the sequence of rows folded into    *)
(* it.  A VC works on one batch at a time: its stages are concurrent only  *)
(* for copies of a transaction, which two VCs hold as well.                *)
(***************************************************************************)
EXTENDS Integers, FiniteSets, Sequences, SequencesExt, FiniteSetsExt, Functions

CONSTANTS
    Workloads,      \* set of [txs, failures]: a sequence of [kind, of, value] (the snapshot a
                    \* checkpoint names, its digest) and a bound on stream failures,
                    \* restarts, lost acknowledgements and failed hashes
    VC, Hasher,
    MaxBatch,       \* transactions the VC merges into one batch
    HashBatchSize   \* rows the hasher reads at once

VARIABLES
    txs,            \* the transactions of the blocks, from Workloads
    stored,         \* table tx_status
    record,         \* table ns__snapshot: [status, clone, hash] of a snapshot
    latest,         \* the latest snapshot pointer, or 0
    clone,          \* the snapshot databases: their content, or NoClone
    queue, job,     \* per VC: transactions received, and the batch at work
    pending,        \* per VC: transactions the coordinator tracks
    unsent,         \* transactions not sent to a VC, or to be sent again
    answered, held, \* transactions the coordinator released in this session: by a
                    \* status, and by the feedback of a checkpoint
    reported,       \* transactions whose status the sidecar processed
    waived,         \* checkpoints whose slot the sidecar released by feedback
    wasHeld,        \* checkpoints the VCs ever gave feedback for
    sidecar,        \* "run", "hold" until the session is restarted, or "halt"
    hasher,         \* per hasher: [pc, snap, status, digest]
    deleter,        \* the clone deletion tool: [pc, snap, status]
    merged,         \* snapshots that were validated beside another new write
    failures        \* failures still to come

db == <<stored, record, latest, clone>>
vcs == <<queue, job, merged>>
session == <<answered, held, reported, waived>>
stream == <<txs, pending, unsent, session, wasHeld, sidecar>>
vars == <<db, vcs, stream, hasher, deleter, failures>>

Tx == DOMAIN txs
Snap == {t \in Tx : txs[t].kind = "snapshot"}
Checkpoint == {t \in Tx : txs[t].kind \in {"digest", "abort"}}
None == "none"
Closed == {"CHECKPOINTED", "ABORTED"}
Hashable == {"PENDING", "IN_PROGRESS", "FAILED"}

ASSUME WorkloadsAssumption ==
    \A w \in Workloads : w.failures \in Nat /\ \A t \in DOMAIN w.txs :
        w.txs[t].kind \in {"digest", "abort"} => w.txs[w.txs[t].of].kind = "snapshot"

NoClone == {<<0, None>>}        \* no transaction has number 0
NoHash == << <<0, None>> >>
NoRecord == [status |-> None, clone |-> FALSE, hash |-> NoHash]
Free == [stage |-> "free"]
Idle == [pc |-> "idle", snap |-> 0, status |-> None, digest |-> NoHash]
NotDeleting == [pc |-> "idle", snap |-> 0, status |-> None]

Init ==
    /\ \E w \in Workloads : txs = w.txs /\ failures = w.failures
    /\ stored = [t \in Tx |-> None]
    /\ record = [s \in Tx |-> NoRecord] /\ latest = 0
    /\ clone = [s \in Tx |-> NoClone]
    /\ queue = [v \in VC |-> <<>>] /\ job = [v \in VC |-> Free]
    /\ pending = [v \in VC |-> {}] /\ unsent = Tx /\ answered = {}
    /\ held = {} /\ reported = {} /\ waived = {}
    /\ wasHeld = {} /\ sidecar = "run"
    /\ hasher = [h \in Hasher |-> Idle] /\ deleter = NotDeleting
    /\ merged = {}

Fail == failures > 0 /\ failures' = failures - 1

-----------------------------------------------------------------------------
(* The snapshot records.                                                   *)

\* Update: what the locked row becomes when its status is expected.
Updated(r, status, hash) == [r EXCEPT !.status = status, !.hash = hash]

Expects(s, expected) == record[s].status \in expected

\* What Read and ReadLatest see of a record, outside a database transaction.
readRecord(s) == record[s]

\* The snapshots with a record.
List == {s \in Snap : readRecord(s).status # None}

-----------------------------------------------------------------------------
(* The sidecar and the coordinator.                                        *)

\* The sidecar drains before and after a snapshot: the slots of the earlier
\* transactions are released.
Drained(t) == \A u \in 1..(t - 1) : {t, u} \cap Snap # {} => u \in reported \cup waived

\* In the dependency graph checkpoint transactions of one snapshot share a key.
Ready(t) ==
    /\ Drained(t)
    /\ \A u \in 1..(t - 1) : {t, u} \subseteq Checkpoint /\ txs[t].of = txs[u].of => u \in answered \cup held

Send(v, t) ==
    /\ t \in unsent /\ Ready(t)
    /\ unsent' = unsent \ {t}
    /\ pending' = [pending EXCEPT ![v] = @ \cup {t}]
    /\ queue' = [queue EXCEPT ![v] = Append(@, t)]
    /\ UNCHANGED <<txs, db, job, merged, session, wasHeld, sidecar, hasher, deleter, failures>>

\* The transactions before the next block number the sidecar saved in the state
\* database, which it does now and then for blocks with all statuses.
Kept_Waived == {1..n : n \in {m \in 0..Len(txs) : 1..m \subseteq reported \cup waived}}

Kept == {1..n : n \in {m \in 0..Len(txs) : 1..m \subseteq reported}}

\* The hold is over: the sidecar ends its session, waits for the coordinator
\* to be idle, and submits the blocks again from the saved number on.
Resubmit ==
    /\ sidecar = "hold" /\ \A v \in VC : pending[v] = {}
    /\ \E kept \in Kept : answered' = kept /\ reported' = kept /\ unsent' = Tx \ kept
    /\ held' = {} /\ waived' = {} /\ sidecar' = "run"
    /\ UNCHANGED <<txs, db, vcs, pending, wasHeld, hasher, deleter, failures>>

Requeue(v) ==
    /\ unsent' = unsent \cup pending[v]
    /\ pending' = [pending EXCEPT ![v] = {}]
    /\ UNCHANGED <<txs, session, wasHeld, sidecar>>

\* A stream ends.  Requests in transit are lost, and so may be the statuses of the batch
\* that is being answered; the VC keeps what it received.
StreamFails(v) ==
    /\ pending[v] # {} /\ Fail /\ Requeue(v)
    /\ \E n \in 0..Len(queue[v]) : queue' = [queue EXCEPT ![v] = SubSeq(@, 1, n)]
    /\ \/ UNCHANGED job
       \/ job[v].stage = "committed" /\ job' = [job EXCEPT ![v] = Free]
    /\ UNCHANGED <<db, merged, hasher, deleter>>

Lost(v) ==
    /\ queue' = [queue EXCEPT ![v] = <<>>] /\ job' = [job EXCEPT ![v] = Free]
    /\ UNCHANGED merged

VCRestarts(v) ==
    /\ Fail /\ Requeue(v) /\ Lost(v)
    /\ UNCHANGED <<db, hasher, deleter>>

-----------------------------------------------------------------------------
(* The VC pipeline.                                                        *)

KeepFirst(b) == FoldLeft(LAMBDA kept, t : IF t \in ToSet(kept) THEN kept ELSE Append(kept, t), <<>>, b)

\* A second checkpoint in a batch is an error that ends the VC service.
Prepare(v) ==
    /\ job[v] = Free
    /\ \E n \in 1..Min({Len(queue[v]), MaxBatch}) :
        LET batch == KeepFirst(SubSeq(queue[v], 1, n))
            cps == ToSet(batch) \cap Checkpoint
        IN  IF Cardinality(cps) > 1
            THEN Lost(v) /\ Requeue(v)
            ELSE /\ job' = [job EXCEPT ![v] =
                      [stage |-> "prepared", txs |-> ToSet(batch), invalid |-> <<>>, known |-> {},
                       checkpoint |-> IF cps = {} THEN 0 ELSE Max(cps),
                       feedback |-> None, seen |-> None, pendingRecord |-> FALSE]]
                 /\ queue' = [queue EXCEPT ![v] = SubSeq(@, n + 1, Len(@))]
                 /\ UNCHANGED <<stream, merged>>
    /\ UNCHANGED <<db, hasher, deleter, failures>>

\* updateInvalidTxs
Invalidate(j, T, status) ==
    [j EXCEPT !.invalid = [t \in T |-> status] @@ @,
              !.checkpoint = IF @ \in T THEN 0 ELSE @]

Valid(j) == j.txs \ (DOMAIN j.invalid \cup (IF j.feedback = None THEN {} ELSE Checkpoint))

NewWrites(j) == {t \in Valid(j) : txs[t].kind # "update"}

\* The gate and the checkpoint check ask tx_status first.
LookUp(v) ==
    /\ job[v].stage = "prepared"
    /\ job' = [job EXCEPT ![v].stage = "known",
                          ![v].known = {t \in job[v].txs : stored[t] # None}]
    /\ UNCHANGED <<db, queue, merged, stream, hasher, deleter, failures>>

\* ReadLatest, as determineSnapshotStatus uses it
Admission_Completed == latest # 0 /\ readRecord(latest).status \notin Closed \cup {"COMPLETED"}

Admission == latest # 0 /\ readRecord(latest).status \notin Closed

GateStatus == IF readRecord(latest).status = "COMPLETED"
              THEN "REJECTED_SNAPSHOT_NO_CHECKPOINT" ELSE "REJECTED_SNAPSHOT_IN_PROGRESS"

\* rejectSnapshotIfPriorNotCheckpointed
Gated(j) ==
    LET s == NewWrites(j)
    IN  IF Cardinality(s) = 1 /\ s \subseteq Snap \ j.known /\ Admission
        THEN Invalidate(j, s, GateStatus) ELSE j

\* verifyCheckpoint without the check for a closed snapshot.
Verdict_IgnoresClosed(c) ==
    LET r == readRecord(txs[c].of)
    IN  IF latest # txs[c].of THEN "reject"
        ELSE IF txs[c].kind = "abort" \/ r.hash = txs[c].value THEN "commit"
        ELSE IF r.hash = NoHash THEN "HOLD" ELSE "halt"

\* verifyCheckpoint
Verdict(c) ==
    LET r == readRecord(txs[c].of)
    IN  IF latest # txs[c].of \/ r.status \in Closed THEN "reject"
        ELSE IF txs[c].kind = "abort" \/ r.hash = txs[c].value THEN "commit"
        ELSE IF r.hash = NoHash THEN "HOLD" ELSE "halt"

\* The snapshot createSnapshotIfPresent acts on, if any.
StandaloneSnapshot(j) == IF Cardinality(NewWrites(j)) = 1 THEN NewWrites(j) \cap Snap ELSE {}

\* A held or halted checkpoint leaves the batch without a status.
WithFeedback(j, signal) == [j EXCEPT !.checkpoint = 0, !.feedback = signal]

\* The next stage of a batch, with or without a snapshot to create.
Validated(j) == [j EXCEPT !.stage = IF StandaloneSnapshot(j) = {} THEN "commit" ELSE "validated"]

\* rejectCheckpointIfNotVerified
Verified(j) ==
    LET c == j.checkpoint
    IN  IF c = 0 \/ c \in j.known THEN Validated(j)
        ELSE CASE Verdict(c) = "reject" -> Validated(Invalidate(j, {c}, "REJECTED_CHECKPOINT_NO_SUCH_SNAPSHOT"))
               [] Verdict(c) = "HOLD" -> Validated(WithFeedback(j, "HOLD"))
               [] Verdict(c) = "halt" -> [j EXCEPT !.stage = "halting", !.seen = readRecord(latest).status]
               [] Verdict(c) = "commit" -> Validated(j)

Validate(v) ==
    /\ job[v].stage = "known"
    /\ job' = [job EXCEPT ![v] = Verified(Gated(@))]
    /\ merged' = IF Cardinality(NewWrites(job[v])) > 1 THEN merged \cup (NewWrites(job[v]) \cap Snap) ELSE merged
    /\ UNCHANGED <<db, queue, stream, hasher, deleter, failures>>

\* haltOnCheckpointDivergence: the reason is saved only while the status is the
\* one the verdict rests on, and the checkpoint is checked again otherwise.
Halt(v) ==
    LET j == job[v]
        s == txs[j.checkpoint].of
    IN  /\ j.stage = "halting"
        /\ IF Expects(s, {j.seen})
           THEN /\ record' = [record EXCEPT ![s].status = j.seen]
                /\ job' = [job EXCEPT ![v] = Validated(WithFeedback(j, "HALT"))]
           ELSE job' = [job EXCEPT ![v] = Verified(j)] /\ UNCHANGED record
        /\ UNCHANGED <<stored, latest, clone, queue, merged, stream, hasher, deleter, failures>>

\* createSnapshotDatabaseAndRewriteRecord: first tx_status, then the database.
CheckCreate(v) ==
    /\ job[v].stage = "validated"
    /\ job' = [job EXCEPT ![v].stage =
                 IF \A s \in StandaloneSnapshot(job[v]) : stored[s] = None THEN "create" ELSE "commit"]
    /\ UNCHANGED <<db, queue, merged, stream, hasher, deleter, failures>>

\* The rows of tx_status, those of rejected transactions too.
Rows(T) == {<<t, stored[t]>> : t \in {u \in T : stored[u] # None}}
Content == Rows(Tx)

\* createSnapshotDatabase: a database of that name is reused. An error in it, before or
\* after the database is there, ends the VC service: VCRestarts before or after Create.
CloneAfter_Replaced(s) == Content

CloneAfter(s) == IF clone[s] = NoClone THEN Content ELSE clone[s]

Create(v) ==
    /\ job[v].stage = "create"
    /\ clone' = [s \in Tx |-> IF s \in StandaloneSnapshot(job[v]) THEN CloneAfter(s) ELSE clone[s]]
    /\ job' = [job EXCEPT ![v].stage = "commit", ![v].pendingRecord = TRUE]
    /\ UNCHANGED <<stored, record, latest, queue, merged, stream, hasher, deleter, failures>>

StatusOf(j, t) == IF t \in DOMAIN j.invalid THEN j.invalid[t] ELSE "COMMITTED"
Statuses(j) == {t \in j.txs : t \in Valid(j) \cup DOMAIN j.invalid}
ToInsert(j) == {t \in Statuses(j) : StatusOf(j, t) # "REJECTED_DUPLICATE_TX_ID"}
Duplicates(j) == {t \in ToInsert(j) : stored[t] # None}

\* insertStates: the key of a checkpoint is the block of its snapshot.
KeyTaken(j) == {c \in Valid(j) \cap Checkpoint : \E u \in Checkpoint : txs[u].of = txs[c].of /\ stored[u] = "COMMITTED"}

CommitRejected(v) ==
    LET j == job[v]
    IN  /\ j.stage = "commit"
        /\ \/ Duplicates(j) # {} /\ job' = [job EXCEPT ![v] = Invalidate(j, Duplicates(j), "REJECTED_DUPLICATE_TX_ID")]
           \/ /\ Duplicates(j) = {} /\ KeyTaken(j) # {}
              /\ job' = [job EXCEPT ![v] = Invalidate(j, KeyTaken(j), "ABORTED_MVCC_CONFLICT")]
        /\ UNCHANGED <<db, queue, merged, stream, hasher, deleter, failures>>

Committable(j) == j.stage = "commit" /\ Duplicates(j) = {} /\ KeyTaken(j) = {}

\* setLatestSnapshotKeyIfPresent
LatestAfter(j) == IF Valid(j) \cap Snap = {} THEN latest ELSE Min(Valid(j) \cap Snap)

InsertedRecord(j) ==
    [NoRecord EXCEPT !.status = IF j.pendingRecord THEN "PENDING" ELSE "STATUS_UNSPECIFIED",
                     !.clone = j.pendingRecord]

TerminalStatus(c) == IF txs[c].kind = "abort" THEN "ABORTED" ELSE "CHECKPOINTED"

\* MarkSnapshotTerminalInTx refuses: the record is closed with another status,
\* or belongs to another block.
TerminalError(j) ==
    /\ j.checkpoint # 0
    /\ \/ LatestAfter(j) = 0
       \/ LET r == record[LatestAfter(j)]
          IN  /\ r.status # TerminalStatus(j.checkpoint)
              /\ r.status \in Closed \/ LatestAfter(j) # txs[j.checkpoint].of

RecordAfter(j, s) ==
    IF s \in Valid(j) \cap Snap THEN InsertedRecord(j)
    ELSE IF j.checkpoint # 0 /\ s = LatestAfter(j)
    THEN [record[s] EXCEPT !.status = TerminalStatus(j.checkpoint)]
    ELSE record[s]

\* One database transaction: statuses, record, pointer and closing of the
\* latest record.  Its acknowledgement may be lost, and an error of
\* MarkSnapshotTerminalInTx ends the VC service.
Commit(v) ==
    LET j == job[v]
    IN  /\ Committable(j)
        /\ IF TerminalError(j)
           THEN Lost(v) /\ Requeue(v) /\ UNCHANGED <<db, failures>>
           ELSE /\ stored' = [t \in Tx |-> IF t \in ToInsert(j) THEN StatusOf(j, t) ELSE stored[t]]
                /\ record' = [s \in Tx |-> RecordAfter(j, s)]
                /\ latest' = LatestAfter(j)
                /\ \/ job' = [job EXCEPT ![v].stage = "committed"] /\ UNCHANGED failures
                   \/ UNCHANGED job /\ Fail
                /\ UNCHANGED <<clone, queue, merged, stream>>
        /\ UNCHANGED <<hasher, deleter>>

\* A duplicate gets its stored status.  The coordinator takes the statuses it
\* still tracks on this stream; the feedback releases the node of a checkpoint
\* it tracks and goes to the sidecar in any case.  There it releases a slot and
\* pauses or stops the processing of statuses, those of its own batch included.
Answer(v) ==
    LET j == job[v]
        fed == {t \in j.txs : j.feedback # None /\ t \notin Statuses(j)}
        statuses == Statuses(j) \cap pending[v]
    IN  /\ j.stage = "committed"
        /\ answered' = answered \cup statuses
        /\ held' = held \cup (fed \cap pending[v])
        /\ wasHeld' = wasHeld \cup fed
        /\ pending' = [pending EXCEPT ![v] = @ \ j.txs]
        /\ IF sidecar = "run"
           THEN /\ reported' = IF j.feedback = None THEN reported \cup statuses ELSE reported
                /\ waived' = waived \cup fed
                /\ sidecar' = CASE j.feedback = None -> "run" [] j.feedback = "HOLD" -> "hold" [] j.feedback = "HALT" -> "halt"
           ELSE UNCHANGED <<reported, waived, sidecar>>
        /\ job' = [job EXCEPT ![v] = Free]
        /\ UNCHANGED <<txs, db, queue, merged, unsent, hasher, deleter, failures>>

-----------------------------------------------------------------------------
(* The snapshot hasher.                                                    *)

MoveHasher(h, pc) == hasher' = [hasher EXCEPT ![h].pc = pc]
Rest(h) == hasher' = [hasher EXCEPT ![h] = Idle]
NotHasher == <<stored, latest, vcs, stream, deleter>>

\* readRecordNeedingHash
NeedsHash_Pending(r) == r.status = "PENDING"

NeedsHash(r) == r.status \in Hashable /\ r.clone

Poll(h) ==
    /\ hasher[h].pc = "idle" /\ latest # 0 /\ NeedsHash(readRecord(latest))
    /\ hasher' = [hasher EXCEPT ![h] = [Idle EXCEPT !.pc = "open", !.snap = latest, !.status = readRecord(latest).status]]
    /\ UNCHANGED <<NotHasher, record, clone, failures>>

\* The pool on the clone can be opened: the database is there.
openClonePool(s) == clone[s] # NoClone

\* A missing clone ends the attempt before the record is touched, and the
\* service if the snapshot is still open.
OpenClone(h) ==
    LET s == hasher[h].snap
    IN  /\ hasher[h].pc = "open"
        /\ IF ~openClonePool(s) /\ readRecord(s).status \in Closed THEN Rest(h)
           ELSE MoveHasher(h, IF openClonePool(s) THEN "mark" ELSE "stopped")
        /\ UNCHANGED <<NotHasher, record, clone, failures>>

\* An update whose status was not expected ends the attempt.
UpdateByHasher(h, expected, status, hash, next) ==
    LET s == hasher[h].snap
    IN  IF Expects(s, expected)
        THEN record' = [record EXCEPT ![s] = Updated(@, status, hash)] /\ hasher' = [hasher EXCEPT ![h] = next]
        ELSE Rest(h) /\ UNCHANGED record

MarkInProgress(h) ==
    /\ hasher[h].pc = "mark"
    /\ IF hasher[h].status = "IN_PROGRESS" THEN MoveHasher(h, "hash") /\ UNCHANGED record
       ELSE UpdateByHasher(h, Hashable, "IN_PROGRESS", record[hasher[h].snap].hash, [hasher[h] EXCEPT !.pc = "hash"])
    /\ UNCHANGED <<NotHasher, clone, failures>>

InOrder(rows) == SetToSortSeq(rows, LAMBDA r, q : r[1] < q[1])

\* One page: the first rows after the last key of the page before.
page(rows, lastKey) ==
    LET after == InOrder({r \in rows : r[1] > lastKey})
    IN  SubSeq(after, 1, Min({Len(after), HashBatchSize}))

\* hashTable stops with a page that is not full; a full page may be the last.
hashTable(rows) ==
    LET from[lastKey \in 0..Len(txs)] ==
            LET p == page(rows, lastKey)
            IN  IF Len(p) < HashBatchSize THEN p ELSE p \o from[Last(p)[1]]
    IN  from[0]

Hash(h) ==
    /\ hasher[h].pc = "hash"
    /\ \/ /\ clone[hasher[h].snap] # NoClone
          /\ hasher' = [hasher EXCEPT ![h].pc = "publish", ![h].digest = hashTable(clone[hasher[h].snap])]
          /\ UNCHANGED failures
       \/ clone[hasher[h].snap] # NoClone /\ Fail /\ MoveHasher(h, "fail")
       \/ clone[hasher[h].snap] = NoClone /\ MoveHasher(h, "fail") /\ UNCHANGED failures
    /\ UNCHANGED <<NotHasher, record, clone>>

Publish(h) ==
    /\ hasher[h].pc = "publish"
    /\ UpdateByHasher(h, {"IN_PROGRESS"}, "COMPLETED", hasher[h].digest, Idle)
    /\ UNCHANGED <<NotHasher, clone, failures>>

FailHash(h) ==
    /\ hasher[h].pc = "fail"
    /\ UpdateByHasher(h, {"IN_PROGRESS"}, "FAILED", record[hasher[h].snap].hash, Idle)
    /\ UNCHANGED <<NotHasher, clone, failures>>

WatchForAbort(h) ==
    /\ hasher[h].pc \in {"mark", "hash", "publish", "fail"} /\ record[hasher[h].snap].status = "ABORTED"
    /\ Rest(h)
    /\ UNCHANGED <<NotHasher, record, clone, failures>>

HasherRestarts(h) ==
    /\ hasher[h].pc # "idle" /\ Fail /\ Rest(h)
    /\ UNCHANGED <<NotHasher, record, clone>>

-----------------------------------------------------------------------------
(* The deletion of clones, by hand.                                        *)

Deletable == Closed

\* AdminExec of DROP DATABASE IF EXISTS
DropDatabase(s) == clone' = [clone EXCEPT ![s] = NoClone]

\* The status is read before the database is dropped; a deletable one is final.
deleteSnapshotClone(s) ==
    /\ deleter.pc = "idle" /\ readRecord(s).clone /\ readRecord(s).status \in Deletable
    /\ DropDatabase(s)
    /\ deleter' = [pc |-> "clear", snap |-> s, status |-> readRecord(s).status]
    /\ UNCHANGED <<stored, record, latest, vcs, stream, hasher, failures>>

\* By the id of the snapshot, or by the name of the database, which is cleared
\* from the record by an earlier deletion.
DeleteSnapshotClone(s) == readRecord(s).status # None /\ deleteSnapshotClone(s)

DeleteSnapshotCloneByName(s) ==
    \E named \in List : named = s /\ readRecord(named).clone /\ deleteSnapshotClone(named)

ClearName ==
    /\ deleter.pc = "clear"
    /\ record' = [record EXCEPT ![deleter.snap].clone = IF Expects(deleter.snap, {deleter.status}) THEN FALSE ELSE @]
    /\ deleter' = NotDeleting
    /\ UNCHANGED <<stored, latest, clone, vcs, stream, hasher, failures>>

DeleterStops ==
    /\ deleter.pc # "idle" /\ Fail /\ deleter' = NotDeleting
    /\ UNCHANGED <<db, vcs, stream, hasher>>

-----------------------------------------------------------------------------

Work(v) ==
    \/ Prepare(v) \/ LookUp(v) \/ Validate(v) \/ Halt(v) \/ CheckCreate(v) \/ Create(v)
    \/ CommitRejected(v) \/ Commit(v) \/ Answer(v)

hashSnapshot(h) == MarkInProgress(h) \/ Hash(h) \/ Publish(h) \/ FailHash(h)

HashStep(h) == Poll(h) \/ OpenClone(h) \/ hashSnapshot(h) \/ WatchForAbort(h)

Next ==
    \/ \E v \in VC : Work(v) \/ StreamFails(v) \/ VCRestarts(v) \/ \E t \in Tx : Send(v, t)
    \/ Resubmit
    \/ \E h \in Hasher : HashStep(h) \/ HasherRestarts(h)
    \/ \E s \in Snap : DeleteSnapshotClone(s) \/ DeleteSnapshotCloneByName(s)
    \/ ClearName \/ DeleterStops

Spec == Init /\ [][Next]_vars

\* Services keep running; after a halt nothing more need be sent.
Fairness ==
    /\ WF_vars(\/ \E v \in VC : Work(v)
               \/ sidecar # "halt" /\ \E v \in VC, t \in Tx : Send(v, t)
               \/ Resubmit)
    /\ \A h \in Hasher : WF_vars(HashStep(h))

FairSpec == Spec /\ Fairness

-----------------------------------------------------------------------------
(* Properties.                                                             *)

Open(s) == record[s].status \notin Closed \cup {None}

\* The records tell the lifecycles apart exactly.  A snapshot transaction is
\* committed exactly when its record is there (createSnapshotIfPresent), and a
\* record is closed exactly by the checkpoint transaction committed for it: both
\* are in one database transaction, and a rejected checkpoint does not close a
\* record on a commit retry (updateInvalidTxs).  At most one record is open, the
\* latest (rejectSnapshotIfPriorNotCheckpointed), and it names the database
\* created for it, which stays until the snapshot is closed; this part is for
\* histories in which no VC merged a snapshot with another new write, for such a
\* batch passes the gate and creates no database.
RecordExact ==
    \A s \in Snap :
        /\ stored[s] = "COMMITTED" <=> record[s].status # None
        /\ \A end \in Closed :
              record[s].status = end <=>
                  \E c \in Checkpoint : txs[c].of = s /\ stored[c] = "COMMITTED" /\ TerminalStatus(c) = end
        /\ Open(s) /\ merged = {} => s = latest /\ record[s].clone /\ clone[s] # NoClone

\* What the hasher publishes is the hash of the state the blocks before the
\* snapshot leave, rejected transactions included, each row once and in key
\* order (hashTable), also when the clone was made by an attempt that did not
\* commit or by another VC, and a hasher started again finished the work.  A
\* snapshot merged with another new write is excepted: a held checkpoint may be
\* before it and have no status yet.
DigestOfCut ==
    \A s \in Snap : record[s].hash # NoHash =>
        s \in merged \/ record[s].hash = InOrder(Rows(1..(s - 1)))

\* A hash is missing only for a while: again and again no open snapshot waits
\* for its hash (readRecordNeedingHash), although hashers stop half-way and
\* hashing fails.  After a merged batch this is so for the latest snapshot, the
\* only one the hasher looks at.
HashedEventually ==
    []<>(\A s \in Tx : record[s].status \notin Hashable \/ (merged # {} /\ s # latest))

\* Every transaction gets its outcome, a held checkpoint too (the sidecar submits
\* it again), unless a checkpoint halts the sidecar or a snapshot was merged with
\* another new write: it may have no database to hash, and then the digest that
\* names it is held again and again.
DecidedEventually == []<>(sidecar = "halt" \/ merged # {} \/ \A t \in Tx : stored[t] # None)

\* The outcomes the blocks give to a transaction.  Which of the two statuses a
\* snapshot is rejected with depends on the hasher of the node (GateStatus).
Serial[n \in Nat] ==
    IF n = 0 THEN [latest |-> 0, open |-> FALSE, outcome |-> <<>>]
    ELSE LET p == Serial[n - 1]
             t == txs[n]
             closes == n \in Checkpoint /\ p.open /\ p.latest = t.of
             opens == n \in Snap /\ ~p.open
         IN  [latest |-> IF opens THEN n ELSE p.latest,
              open |-> IF closes THEN FALSE ELSE p.open \/ opens,
              outcome |-> Append(p.outcome,
                 IF n \in Snap /\ p.open THEN {"REJECTED_SNAPSHOT_NO_CHECKPOINT", "REJECTED_SNAPSHOT_IN_PROGRESS"}
                 ELSE IF n \in Checkpoint /\ ~closes THEN {"REJECTED_CHECKPOINT_NO_SUCH_SNAPSHOT"}
                 ELSE {"COMMITTED"})]

\* docs/validator-committer.md, aborting a snapshot: competing checkpoint
\* transactions are processed in order, so that every node decides them alike;
\* here for transactions with neither a held or halted checkpoint nor a merged
\* snapshot before them, the two cases in which the code decides otherwise.
OutcomesFromOrder ==
    LET outcome == Serial[Len(txs)].outcome
    IN  \A t \in Tx : stored[t] \in outcome[t] \cup {None} \/ \E u \in wasHeld \cup merged : u <= t
=============================================================================
