------------------------- MODULE ValidatorCommitter -------------------------
(***************************************************************************)
(* The validator-committer (VC) services and the state database they       *)
(* share: what was received and not yet prepared, the batches between the  *)
(* prepare, validate and commit workers, the statuses not yet sent, and    *)
(* the tables tx_status and ns_<namespace>.                                *)
(*                                                                         *)
(* A transaction is its position in the blocks, which is what the code     *)
(* calls its height.  The coordinator is reduced to what the VCs rely on:  *)
(* it sends a transaction once every earlier one in conflict with it is    *)
(* answered, and sends it again when a stream ends or when the coordinator *)
(* restarts.  VCs keep what they received when a stream ends.              *)
(***************************************************************************)
EXTENDS Integers, FiniteSets, Sequences, FiniteSetsExt, Functions

CONSTANTS
    VC,             \* the VC services
    Worker,         \* batches one VC may have between preparing and answering
    NumTx,          \* transactions in the blocks
    Workloads       \* set of [txs, failures]: a sequence of [id, readsOnly, readWrites,
                    \* blindWrites, prelim], and a bound on stream failures, VC
                    \* crashes, coordinator restarts and lost acknowledgements

VARIABLES
    txs,            \* the transactions of the blocks, from Workloads
    txStatus,       \* table tx_status: per id, the stored height and status
    state,          \* the namespace tables: per key, its version and its writer
    queue,          \* per VC: transactions received, not yet in a prepared batch
    job,            \* per VC and worker: the batch it holds
    out,            \* per VC: status batches to send (txsStatus)
    pending,        \* per VC: transactions the coordinator tracks (txBeingValidated)
    unsent,         \* transactions the coordinator has not sent, or must send again
    answered,       \* per transaction: the status the coordinator received
    failures        \* failures still to come

vars == <<txStatus, state, queue, job, out, pending, unsent, answered, failures>>
db == <<txStatus, state>>

Nil == -1           \* the version of an absent key; newCmpRead encodes it so
None == "none"      \* no preliminary status, no answer

Tx == 1..NumTx
Id(t) == txs[t].id
WriteKeys(t) == {r[1] : r \in txs[t].readWrites} \cup txs[t].blindWrites
AllReads(t) == txs[t].readsOnly \cup txs[t].readWrites
Keys(t) == {r[1] : r \in AllReads(t)} \cup txs[t].blindWrites
Key == UNION {Keys(t) : t \in Tx}
TxId == {Id(t) : t \in Tx}

\* The sidecar's check of the keys of a namespace: none is named twice.
checkKeys(t) ==
    /\ \A r, q \in t.readsOnly \cup t.readWrites : r[1] = q[1] => r = q
    /\ t.readsOnly \cap t.readWrites = {}
    /\ \A r \in t.readsOnly \cup t.readWrites : r[1] \notin t.blindWrites

\* The reads the preparer adds, of namespace versions, may repeat one of those keys.
WellFormed(t) ==
    \E added \in SUBSET {r \in t.readsOnly : r[2] # Nil} :
        checkKeys([t EXCEPT !.readsOnly = @ \ added])

\* What the sidecar's form check rejects, or a transaction that writes nothing,
\* does not reach a VC.  A read has the version it found or none, and a transaction
\* rejected before the VCs is neither committed nor a duplicate for them.
ASSUME WorkloadsAssumption ==
    /\ NumTx \in Nat
    /\ \A w \in Workloads :
        /\ w.failures \in Nat
        /\ Len(w.txs) = NumTx /\ DOMAIN w.txs = 1..NumTx
        /\ \A t \in Range(w.txs) :
            /\ WellFormed(t) /\ (t.readWrites # {} \/ t.blindWrites # {})
            /\ \A r \in t.readsOnly \cup t.readWrites : r = <<r[1], r[2]>> /\ r[2] \in Nat \cup {Nil}
            /\ t.prelim \notin {"COMMITTED", "REJECTED_DUPLICATE_TX_ID"}

\* g, with the values of f where f has one.
Over(f, g) == [x \in DOMAIN f \cup DOMAIN g |-> IF x \in DOMAIN f THEN f[x] ELSE g[x]]

Free == [stage |-> "free"]
Absent == [version |-> Nil, writer |-> 0]
NotStored == [height |-> 0, status |-> None]

Init ==
    /\ \E w \in Workloads : txs = w.txs /\ failures = w.failures
    /\ txStatus = [i \in TxId |-> NotStored]
    /\ state = [k \in Key |-> Absent]
    /\ queue = [v \in VC |-> <<>>]
    /\ job = [v \in VC |-> [w \in Worker |-> Free]]
    /\ out = [v \in VC |-> <<>>]
    /\ pending = [v \in VC |-> {}]
    /\ unsent = Tx
    /\ answered = [t \in Tx |-> None]

Fail == failures > 0 /\ failures' = failures - 1

-----------------------------------------------------------------------------
(* The coordinator's side of a VC stream.                                  *)

\* An edge of the dependency graph, or a reuse of an id the relay refuses
\* while the first is in flight.
Conflict(s, t) ==
    \/ Id(s) = Id(t)
    \/ WriteKeys(s) \cap Keys(t) # {}
    \/ Keys(s) \cap WriteKeys(t) # {}

Ready(t) == \A s \in 1..(t - 1) : Conflict(s, t) => answered[s] # None

\* sendTransactionsToVCService, with receiveTransactions at the other end.
Send(v, t) ==
    /\ t \in unsent /\ Ready(t)
    /\ unsent' = unsent \ {t}
    /\ pending' = [pending EXCEPT ![v] = @ \cup {t}]
    /\ queue' = [queue EXCEPT ![v] = Append(@, t)]
    /\ UNCHANGED <<db, job, out, answered, failures>>

\* sendTransactionStatus, with receiveStatusAndForwardToOutput at the other
\* end: a status is taken only for a transaction tracked on this stream.
Deliver(v) ==
    /\ out[v] # <<>>
    /\ LET tracked == {a \in Head(out[v]) : a.height \in pending[v]}
       IN  /\ pending' = [pending EXCEPT ![v] = @ \ {a.height : a \in tracked}]
           /\ answered' = [t \in Tx |->
                IF \E a \in tracked : a.height = t
                THEN (CHOOSE a \in tracked : a.height = t).status
                ELSE answered[t]]
    /\ out' = [out EXCEPT ![v] = Tail(@)]
    /\ UNCHANGED <<db, queue, job, unsent, failures>>

\* recoverPendingTransactions: what was tracked on the stream is sent again.
Requeue_Lost(v) ==
    /\ UNCHANGED unsent
    /\ pending' = [pending EXCEPT ![v] = {}]

Requeue(v) ==
    /\ unsent' = unsent \cup pending[v]
    /\ pending' = [pending EXCEPT ![v] = {}]

\* The stream ends.  Batches in transit are lost, and so may be the status
\* batches that were sent; the VC goes on with what it received.
StreamFails(v) ==
    /\ Fail
    /\ Requeue(v)
    /\ \E n \in 0..Len(queue[v]) : queue' = [queue EXCEPT ![v] = SubSeq(@, 1, n)]
    /\ \E n \in 0..Len(out[v]) : out' = [out EXCEPT ![v] = SubSeq(@, n + 1, Len(@))]
    /\ UNCHANGED <<db, job, answered>>

\* A VC restarts; what it held in memory is gone.
Crash(v) ==
    /\ Requeue(v)
    /\ queue' = [queue EXCEPT ![v] = <<>>]
    /\ job' = [job EXCEPT ![v] = [w \in Worker |-> Free]]
    /\ out' = [out EXCEPT ![v] = <<>>]
    /\ UNCHANGED <<db, answered>>

VCRestarts(v) == Fail /\ Crash(v)

\* The coordinator restarts and the sidecar submits the blocks again; the
\* VCs still hold what they received before.
CoordinatorRestarts ==
    /\ Fail
    /\ unsent' = Tx
    /\ pending' = [v \in VC |-> {}]
    /\ answered' = [t \in Tx |-> None]
    /\ UNCHANGED <<db, queue, job, out>>

-----------------------------------------------------------------------------
(* Preparing a batch.                                                      *)

\* The preparer skips a transaction whose id is already in the batch.  A batch
\* maps the places of the transactions it kept, in their order.
KeepFirst(b) ==
    Restrict(b, {i \in DOMAIN b : \A p \in 1..(i - 1) : Id(b[p]) # Id(b[i])})

Prelim(t) == txs[t].prelim # None

\* batchReceivedTransactionsAndForwardForProcessing merges what was received
\* up to a size or a timeout; prepare then takes the merged batch.
Prepare(v, w) ==
    /\ job[v][w] = Free
    /\ \E n \in 1..Len(queue[v]) :
        LET batch == KeepFirst(SubSeq(queue[v], 1, n))
        IN  /\ job' = [job EXCEPT ![v][w] =
                 [stage   |-> "prepared",
                  txs     |-> batch,
                  invalid |-> [t \in {s \in Range(batch) : Prelim(s)} |-> txs[t].prelim],
                  blind   |-> <<>>]]
            /\ queue' = [queue EXCEPT ![v] = SubSeq(@, n + 1, Len(@))]
    /\ UNCHANGED <<db, out, pending, unsent, answered, failures>>

-----------------------------------------------------------------------------
(* Validating a batch.                                                     *)

Prepared(b) == {t \in Range(b) : ~Prelim(t)}
Readers(b, r) == {t \in Prepared(b) : r \in AllReads(t)}          \* readToTxIDs
BatchReads(b) == UNION {AllReads(t) : t \in Prepared(b)}

\* A read enters nsToReads when its first reader in the batch adds it; a
\* read-write of an absent key is left to the insert at commit, and then no
\* later reader of that key as absent adds it either.
FirstReader(b, r) ==
    b[Min({i \in DOMAIN b : ~Prelim(b[i]) /\ r \in AllReads(b[i])})]

ToValidate(b) ==
    {r \in BatchReads(b) : r[2] # Nil \/ r \in txs[FirstReader(b, r)].readsOnly}

\* validate_reads_ns_<namespace>
Stale_Absent(r) == r[2] # Nil /\ state[r[1]].version # r[2]

Stale(r) == state[r[1]].version # r[2]

\* validateNamespaceReads
ReadConflicts(reads) == {r \in reads : Stale(r)}

Invalidate(j, ts, s) ==
    [j EXCEPT !.invalid = Over([t \in ts |-> s], @)]

Validate(v, w) ==
    LET j == job[v][w]
        hit == UNION {Readers(j.txs, r) : r \in ReadConflicts(ToValidate(j.txs))}
    IN  /\ j.stage = "prepared"
        /\ job' = [job EXCEPT ![v][w] =
             [Invalidate(j, hit, "ABORTED_MVCC_CONFLICT") EXCEPT !.stage = "validated"]]
        /\ UNCHANGED <<db, queue, out, pending, unsent, answered, failures>>

-----------------------------------------------------------------------------
(* Committing a batch.                                                     *)

Valid(j) == Prepared(j.txs) \ DOMAIN j.invalid

\* queryVersionsIfPresent
Versions(keys) == [k \in keys |-> state[k].version]

\* populateVersionsAndCategorizeBlindWrites: the versions the blind writes
\* of the batch are decided against, read once.
Categorize(v, w) ==
    LET j == job[v][w]
    IN  /\ j.stage = "validated"
        /\ job' = [job EXCEPT ![v][w] =
             [j EXCEPT !.stage = "commit",
                       !.blind = Versions(UNION {txs[t].blindWrites : t \in Valid(j)})]]
        /\ UNCHANGED <<db, queue, out, pending, unsent, answered, failures>>

\* The keys a valid transaction inserts, and the versions it gives to the
\* keys it updates.
Inserts(j, t) ==
    {r[1] : r \in {q \in txs[t].readWrites : q[2] = Nil}}
        \cup {k \in txs[t].blindWrites : j.blind[k] = Nil}
Updates(j, t) ==
    {<<r[1], r[2] + 1>> : r \in {q \in txs[t].readWrites : q[2] # Nil}}
        \cup {<<k, j.blind[k] + 1>> : k \in {k \in txs[t].blindWrites : j.blind[k] # Nil}}
BatchInserts(j) == UNION {Inserts(j, t) : t \in Valid(j)}

StatusOf(j, t) == IF t \in DOMAIN j.invalid THEN j.invalid[t] ELSE "COMMITTED"
ToInsert(j) == {t \in Range(j.txs) : StatusOf(j, t) # "REJECTED_DUPLICATE_TX_ID"}

\* insertStates: an insert finds the key present.
Existing(j) == {k \in BatchInserts(j) : state[k] # Absent}

\* insertTxStatus: a stored id violates the primary key, whatever its height.
\* The ids are inserted before the writes.
StoredIds_Ignored(j) == {}

StoredIds(j) == {t \in ToInsert(j) : txStatus[Id(t)] # NotStored}

insertTxStatus(j) == IF ToInsert(j) = {} THEN {} ELSE StoredIds(j)

\* writeStatesByGroup: the first group that fails decides.
Duplicates_AfterWrites(j) == IF Existing(j) # {} THEN {} ELSE insertTxStatus(j)

Duplicates(j) == insertTxStatus(j)

\* The rows the SQL functions of a namespace write.  Transactions of a batch that
\* are neither stored nor rejected are free of conflicts, so at most one of them
\* writes a key.
insert_ns(j) ==
    [k \in BatchInserts(j) |->
        [version |-> 0, writer |-> CHOOSE t \in Valid(j) : k \in Inserts(j, t)]]
update_ns(j) ==
    [k \in Key |->
        IF \E t \in Valid(j) : \E u \in Updates(j, t) : u[1] = k /\ state[k] # Absent
        THEN LET t == CHOOSE t \in Valid(j) : \E u \in Updates(j, t) : u[1] = k
             IN  [version |-> (CHOOSE u \in Updates(j, t) : u[1] = k)[2], writer |-> t]
        ELSE state[k]]

CommitTables(j) ==
    /\ txStatus' = [i \in TxId |->
         IF \E t \in ToInsert(j) : Id(t) = i
         THEN LET t == CHOOSE u \in ToInsert(j) : Id(u) = i
              IN  [height |-> t, status |-> StatusOf(j, t)]
         ELSE txStatus[i]]
    /\ state' = Over(insert_ns(j), update_ns(j))

\* One iteration of commitTransactions: one database transaction, rolled back
\* when it meets a stored id or an existing key.
CommitRejected(v, w) ==
    LET j == job[v][w]
        hit == UNION {Readers(j.txs, <<k, Nil>>) : k \in Existing(j)}
    IN  /\ j.stage = "commit"
        /\ \/ /\ Duplicates(j) # {}
              /\ job' = [job EXCEPT ![v][w] = Invalidate(j, Duplicates(j), "REJECTED_DUPLICATE_TX_ID")]
           \/ /\ Duplicates(j) = {} /\ Existing(j) # {}
              /\ \A k \in Existing(j) : Readers(j.txs, <<k, Nil>>) # {}
              /\ job' = [job EXCEPT ![v][w] = Invalidate(j, hit, "ABORTED_MVCC_CONFLICT")]
        /\ UNCHANGED <<db, queue, out, pending, unsent, answered, failures>>

\* A key that exists and that no transaction of the batch read: the error
\* ends the VC service.
UnreadConflict(j) ==
    /\ j.stage = "commit" /\ Duplicates(j) = {}
    /\ \E k \in Existing(j) : Readers(j.txs, <<k, Nil>>) = {}

\* The database transaction commits; the VC may not learn of it and then
\* tries it again.
Commit(v, w) ==
    LET j == job[v][w]
    IN  /\ j.stage = "commit" /\ Duplicates(j) = {} /\ Existing(j) = {}
        /\ CommitTables(j)
        /\ \/ job' = [job EXCEPT ![v][w].stage = "committed"] /\ UNCHANGED failures
           \/ UNCHANGED job /\ Fail
        /\ UNCHANGED <<queue, out, pending, unsent, answered>>

readStatusWithHeight(t) == txStatus[Id(t)]

\* setCorrectStatusForDuplicateTxID: a duplicate stored at the same height is
\* a transaction sent again, and is answered with the stored status.
SameHeight_Any(t) == TRUE

SameHeight(t) == readStatusWithHeight(t).height = t

Corrected(j, t) ==
    IF StatusOf(j, t) = "REJECTED_DUPLICATE_TX_ID" /\ SameHeight(t)
    THEN readStatusWithHeight(t).status ELSE StatusOf(j, t)

Answer(v, w) ==
    LET j == job[v][w]
    IN  /\ j.stage = "committed"
        /\ out' = [out EXCEPT ![v] =
             Append(@, {[height |-> t, status |-> Corrected(j, t)] : t \in Range(j.txs)})]
        /\ job' = [job EXCEPT ![v][w] = Free]
        /\ UNCHANGED <<db, queue, pending, unsent, answered, failures>>

-----------------------------------------------------------------------------

\* The loop that removes invalid transactions until the batch is committed.
commitTransactions(v, w) == Categorize(v, w) \/ CommitRejected(v, w) \/ Commit(v, w)

\* A batch passes a worker of the preparer, the validator and the committer.
Work(v, w) == Prepare(v, w) \/ Validate(v, w) \/ commitTransactions(v, w) \/ Answer(v, w)

Next ==
    /\ \/ \E v \in VC :
            \/ \E t \in Tx : Send(v, t)
            \/ Deliver(v)
            \/ \E w \in Worker : Work(v, w)
            \/ StreamFails(v)
            \/ VCRestarts(v)
       \/ CoordinatorRestarts
    /\ UNCHANGED txs

\* The workers, the two ends of a stream and the VC manager keep running.
Fairness ==
    /\ \A v \in VC : WF_vars(Deliver(v)) /\ \A w \in Worker : WF_vars(Work(v, w))
    /\ \A t \in Tx : WF_vars(\E v \in VC : Send(v, t))

Spec == Init /\ [][Next]_<<vars, txs>>
FairSpec == Spec /\ Fairness

-----------------------------------------------------------------------------
(* The reference: the blocks executed one transaction at a time.           *)

\* What the first n transactions leave, and the status each is given.
Serial[n \in Nat] ==
    IF n = 0
    THEN [state |-> [k \in Key |-> Absent], status |-> <<>>]
    ELSE LET before == Serial[n - 1]
             t == txs[n]
             s == IF \E i \in 1..(n - 1) : Id(i) = t.id THEN "REJECTED_DUPLICATE_TX_ID"
                  ELSE IF t.prelim # None THEN t.prelim
                  ELSE IF \E r \in AllReads(n) : before.state[r[1]].version # r[2]
                  THEN "ABORTED_MVCC_CONFLICT" ELSE "COMMITTED"
         IN  [status |-> Append(before.status, s),
              state  |-> [k \in Key |->
                 IF s = "COMMITTED" /\ k \in WriteKeys(n)
                 THEN [version |-> before.state[k].version + 1, writer |-> n]
                 ELSE before.state[k]]]

Expected == Serial[NumTx].status

-----------------------------------------------------------------------------
(* Properties.                                                             *)

\* Every stored status is the one serial execution of the blocks gives to the
\* stored height: failures, merged batches and transactions sent twice never
\* change an outcome (validate, commitTransactions).
StoredSerial ==
    \A i \in TxId : txStatus[i] # NotStored =>
        /\ txStatus[i].status = Expected[txStatus[i].height]
        /\ txStatus[i].status # "REJECTED_DUPLICATE_TX_ID"

\* Every key has the version and the value of the last stored committed
\* transaction that writes it, as serial execution leaves them: no write is
\* lost, applied twice or applied late (db.commit in one transaction).
StateSerial ==
    \A k \in Key :
        LET writers == {t \in Tx : /\ k \in WriteKeys(t)
                                   /\ txStatus[Id(t)] = [height |-> t, status |-> "COMMITTED"]}
        IN  state[k] = IF writers = {} THEN Absent ELSE Serial[Max(writers)].state[k]

\* A status is given out only when the database holds the one it rests on, so
\* a restart cannot forget it, and a transaction is called a duplicate only of
\* an earlier one: also when it was committed by another VC, before a restart,
\* or by an attempt whose acknowledgement was lost
\* (setCorrectStatusForDuplicateTxID).
AnswersDurable ==
    \A t \in Tx : answered[t] # None =>
        \/ txStatus[Id(t)] = [height |-> t, status |-> answered[t]]
        \/ /\ answered[t] = "REJECTED_DUPLICATE_TX_ID"
           /\ txStatus[Id(t)].height \in 1..(t - 1)

\* invalidateTxsOnReadConflicts never meets a conflicting key that no
\* transaction of the batch read, an error that ends the VC: a blind insert is
\* not in readToTxIDs, and only the ids going first keeps it from colliding.
NoUnreadConflict == \A v \in VC, w \in Worker : ~UnreadConflict(job[v][w])

\* A transaction a VC was sent and no longer holds, in favour of another with
\* its id (preparer.go:156).
Skipped(v, t) ==
    /\ t \in pending[v] /\ \E s \in Tx \ {t} : Id(s) = Id(t)
    /\ t \notin Range(queue[v]) /\ \A a \in UNION Range(out[v]) : a.height # t
    /\ \A w \in Worker : job[v][w] # Free => t \notin Range(job[v][w].txs)

\* Once failures stop, every transaction is answered, unless a stale copy of
\* another transaction with its id is in its batch (prepare).
AllAnswered ==
    <>[]((\A t \in Tx : answered[t] # None) \/ \E v \in VC, t \in Tx : Skipped(v, t))
=============================================================================
