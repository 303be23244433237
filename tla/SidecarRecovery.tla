--------------------------- MODULE SidecarRecovery ---------------------------
(***************************************************************************)
(* The sessions of the sidecar with the coordinator, and the block store    *)
(* (service/sidecar/sidecar.go and block_store.go).  A session recovers the *)
(* blocks the ledger misses, then relays blocks until it fails; the         *)
(* committed blocks go through a queue that outlives the session to the     *)
(* ledger, whose last appends may be lost in a crash.  A client reads the   *)
(* ledger through the Deliver API.                                          *)
(*                                                                         *)
(* The pipeline behind the coordinator is one atomic commit of each         *)
(* transaction; module Relay has the detail of a session without failures.  *)
(* The blocks are delivered in order; module Delivery has the detail.       *)
(***************************************************************************)
EXTENDS Integers, Sequences

CONSTANTS
  Chains,        \* the block at place n + 1 of a chain is a sequence of transactions [id, kind]
  SyncInterval,  \* config.Ledger.SyncInterval
  QueueSize,     \* capacity of the committedBlock queue
  Seeks,         \* the requests [start, stop] a client may send to Deliver
  Queries,       \* the numbers and the ids a client may ask a block for
  MaxSeeks,      \* bound on requests
  MaxFaults      \* bound on crashes and lost streams

\* What mapBlock makes of a transaction: sent as it is; rejected with a status that the
\* database stores; the snapshot transaction; rejected with a status it does not store.
Kinds == {"plain", "rejected", "snapshot", "malformed"}

Oldest == -1
Newest == -2

ASSUME RecoveryAssumption ==
  /\ \A c \in Chains :
       /\ Len(c) \in Nat /\ DOMAIN c = 1..Len(c)
       /\ \A n \in DOMAIN c : Len(c[n]) \in Nat /\ DOMAIN c[n] = 1..Len(c[n])
       /\ \A n \in DOMAIN c : \A i \in DOMAIN c[n] : c[n][i].kind \in Kinds
  /\ \A seek \in Seeks : {seek.start, seek.stop} \subseteq Nat \cup {Oldest, Newest}
  /\ Queries.numbers \subseteq Nat
  /\ SyncInterval \in Nat /\ QueueSize \in Nat \ {0}
  /\ MaxSeeks \in Nat /\ MaxFaults \in Nat

VARIABLES
  chain,     \* one of Chains
  db,        \* stored transactions: id -> [ref, status]
  lastSet,   \* the last committed block number in the database, or NoBlock
  sent,      \* references of the transactions in the coordinator
  stray,     \* those of a stopped coordinator that its VCs may still commit
  pc,        \* of the session: "wait", "height", "fetch", "start", "relay", "drain"
  next,      \* the next block number by the coordinator, as read by recover
  recovered, \* number of the next missing block to append
  fetched,   \* number of the next block to map
  inFlight,  \* statuses of the blocks in flight, by number
  commitNum, \* nextBlockNumberToCommit
  held,      \* a committed block between its removal from inFlight and the queue
  queue,     \* committedBlock
  storeNext, \* nextToBeCommittedBlockNumber
  appending, \* the block that the store appends
  ledger,    \* the appended blocks
  synced,    \* length of the part of the ledger that a crash keeps
  stopped,   \* the block store ended with an error
  emitted,   \* the statuses each block was first committed with
  stream,    \* the Deliver stream of the client: next and last number to send
  seen,      \* what the client received, by number
  seeks, faults

coordinator == <<db, lastSet, sent, stray>>
session == <<pc, next, recovered>>
relay == <<fetched, inFlight, commitNum, held>>
store == <<storeNext, appending, ledger, synced, stopped>>
client == <<stream, seen, seeks>>
vars == <<chain, coordinator, session, relay, queue, store, emitted, client, faults>>

None == [num |-> -1, status |-> <<>>]
NoBlock == -1
NotValidated == "not validated"
Txs(n) == chain[n + 1]
Last == Len(chain) - 1
Idle == [next |-> 0, stop |-> -1]
empty == [x \in {} |-> None]

Init ==
  /\ chain \in Chains
  /\ db = empty /\ lastSet = NoBlock /\ sent = {} /\ stray = {}
  /\ pc = "wait" /\ next = 0 /\ recovered = 0
  /\ fetched = 0 /\ inFlight = empty /\ commitNum = 0 /\ held = None
  /\ queue = <<>>
  /\ storeNext = 0 /\ appending = None /\ ledger = <<>> /\ synced = 0 /\ stopped = FALSE
  /\ emitted = empty
  /\ stream = Idle /\ seen = empty /\ seeks = 0
  /\ faults = 0

-----------------------------------------------------------------------------
(* Mapping of a block and its statuses *)

\* The id of a malformed transaction is not recorded; any other id is taken once.
taken(n, i, dedup) ==
  \/ Txs(n)[i].id \in dedup
  \/ \E j \in 1..i - 1 : Txs(n)[j].id = Txs(n)[i].id /\ Txs(n)[j].kind # "malformed"

\* The status that mapBlock gives by itself; the others are still to be validated.
mapped(n, dedup) ==
  [i \in DOMAIN Txs(n) |->
     IF Txs(n)[i].kind = "malformed" THEN "malformed"
     ELSE IF taken(n, i, dedup) THEN "duplicate"
     ELSE NotValidated]

\* Ids of the blocks in flight that are not committed yet.
dedupIDs == UNION {{Txs(n)[i].id : i \in {j \in DOMAIN Txs(n) : Txs(n)[j].kind # "malformed"}}
                   : n \in commitNum..fetched - 1}

\* The rows of tx_status of the ids asked for; an empty question is an error.
GetTransactionsStatus(ids) == [id \in ids \cap DOMAIN db |-> db[id]]
askable(ids) == ids # {}

fillStatuses_AnyHeight(n, i, rows) == rows[Txs(n)[i].id].status
\* The stored status counts only if it is of the same block and position.
fillStatuses(n, i, rows) ==
  IF rows[Txs(n)[i].id].ref = <<n, i>> THEN rows[Txs(n)[i].id].status ELSE "duplicate"

\* appendMissingBlock asks for the transactions in block.Txs only: those that mapBlock
\* keeps in block.Rejected or in snapshotTx stay as they were mapped.
asked(n) == {i \in DOMAIN Txs(n) : mapped(n, {})[i] = NotValidated /\ Txs(n)[i].kind = "plain"}
askedIDs(n) == {Txs(n)[i].id : i \in asked(n)}

\* The block cannot be recovered: a status is missing, or there is none to ask for.
refused(n) == ~askable(askedIDs(n)) \/ ~(askedIDs(n) \subseteq DOMAIN GetTransactionsStatus(askedIDs(n)))

missingBlock(n) ==
  LET rows == GetTransactionsStatus(askedIDs(n))
  IN [num |-> n,
      status |-> [i \in DOMAIN Txs(n) |->
                    IF i \in asked(n) THEN fillStatuses(n, i, rows) ELSE mapped(n, {})[i]]]

-----------------------------------------------------------------------------
(* recover *)

\* NoPendingTransactionProcessing
coordinatorIdle == sent = {}

\* The block after the one whose number is in the database, 0 when none is.
getNextBlockNumberToCommit == IF lastSet = NoBlock THEN 0 ELSE lastSet + 1

\* recover waits for an idle coordinator and asks for its next block number.
WaitIdle ==
  /\ pc = "wait" /\ coordinatorIdle
  /\ next' = getNextBlockNumberToCommit /\ pc' = "height"
  /\ UNCHANGED <<coordinator, recovered, relay, queue, store, emitted, client, faults>>

\* GetBlockHeight
Height == Len(ledger)

storeCovers_More(n) == Height > n
\* The ledger is not behind the database; it may be ahead, since the number is set from
\* time to time only.
storeCovers(n) == Height >= n

firstMissing_Next == Height + 1
firstMissing == Height

\* The height of the ledger is compared with the number; a block that the store has taken
\* from its queue but not appended yet is not counted.
CheckHeight ==
  /\ pc = "height"
  /\ IF storeCovers(next) THEN pc' = "start" /\ UNCHANGED recovered
     ELSE pc' = "fetch" /\ recovered' = firstMissing
  /\ UNCHANGED <<coordinator, next, relay, queue, store, emitted, client, faults>>

\* A missing block is fetched, gets its statuses and goes to the queue of the store.
AppendMissing ==
  /\ pc = "fetch" /\ recovered < next
  /\ ~refused(recovered)
  /\ Len(queue) < QueueSize
  /\ queue' = Append(queue, missingBlock(recovered))
  /\ recovered' = recovered + 1
  /\ UNCHANGED <<coordinator, pc, next, relay, store, emitted, client, faults>>

\* A block that cannot be recovered ends the attempt.
RecoveryFails ==
  /\ pc = "fetch" /\ recovered < next /\ refused(recovered)
  /\ pc' = "drain"
  /\ UNCHANGED <<coordinator, next, recovered, relay, queue, store, emitted, client, faults>>

\* The cancelled delivery reports an error even when all blocks are recovered, so the
\* attempt ends here; the next one finds the height.
Recovered ==
  /\ pc = "fetch" /\ recovered = next
  /\ pc' = "drain"
  /\ UNCHANGED <<coordinator, next, recovered, relay, queue, store, emitted, client, faults>>

\* recoverCommittedBlocks, between two attempts.
Drain ==
  /\ pc = "drain" /\ queue = <<>>
  /\ pc' = "wait"
  /\ UNCHANGED <<coordinator, next, recovered, relay, queue, store, emitted, client, faults>>

\* The queues of the relay and its blocks in flight belong to one session.
reset(n) == fetched' = n /\ commitNum' = n /\ inFlight' = empty /\ held' = None

\* Delivery and relay start at the next block; getPrevBlockAndItsConfig reads the one
\* before it from the ledger.
StartRelay ==
  /\ pc = "start"
  /\ pc' = "relay"
  /\ reset(next)
  /\ UNCHANGED <<coordinator, next, recovered, queue, store, emitted, client, faults>>

-----------------------------------------------------------------------------
(* The relay and the coordinator *)

\* Maps the next block and sends what is to be validated.
MapBlock ==
  /\ pc = "relay" /\ fetched <= Last
  /\ LET status == mapped(fetched, dedupIDs) IN
       /\ inFlight' = [n \in DOMAIN inFlight \cup {fetched} |->
                         IF n = fetched THEN status ELSE inFlight[n]]
       /\ sent' = sent \cup {<<fetched, i>> : i \in {j \in DOMAIN status : status[j] = NotValidated}}
  /\ fetched' = fetched + 1
  /\ UNCHANGED <<db, lastSet, stray, session, commitNum, held, queue, store, emitted, client, faults>>

\* The committer stores the outcome of a transaction, once per id, and the coordinator
\* reports it if the session still runs.
Commit(ref) ==
  /\ sent' = sent \ {ref} /\ stray' = IF ref \in sent THEN stray ELSE stray \ {ref}
  /\ LET n == ref[1]
         i == ref[2]
         id == Txs(n)[i].id
         outcome == [ref |-> ref, status |-> IF Txs(n)[i].kind = "rejected" THEN "rejected" ELSE "committed"]
         now == [x \in DOMAIN db \cup {id} |-> IF x \in DOMAIN db THEN db[x] ELSE outcome]
     IN /\ db' = now
        /\ inFlight' = IF ref \in sent /\ n \in DOMAIN inFlight
                       THEN [inFlight EXCEPT ![n][i] = IF now[id].ref = ref THEN now[id].status ELSE "duplicate"]
                       ELSE inFlight
  /\ UNCHANGED <<lastSet, session, fetched, commitNum, held, queue, store, emitted, client, faults>>

\* processCommittedBlocksInOrder takes the next block out of inFlight when all its statuses
\* are final, before it writes it to the queue.
TakeCommitted ==
  /\ pc = "relay" /\ held = None
  /\ commitNum \in DOMAIN inFlight
  /\ \A i \in DOMAIN inFlight[commitNum] : inFlight[commitNum][i] # NotValidated
  /\ held' = [num |-> commitNum, status |-> inFlight[commitNum]]
  /\ inFlight' = [n \in DOMAIN inFlight \ {commitNum} |-> inFlight[n]]
  /\ commitNum' = commitNum + 1
  /\ emitted' = [n \in DOMAIN emitted \cup {commitNum} |->
                   IF n \in DOMAIN emitted THEN emitted[n] ELSE inFlight[commitNum]]
  /\ UNCHANGED <<coordinator, session, fetched, queue, store, client, faults>>

WriteCommitted ==
  /\ pc = "relay" /\ held # None /\ Len(queue) < QueueSize
  /\ queue' = Append(queue, held) /\ held' = None
  /\ UNCHANGED <<coordinator, session, fetched, inFlight, commitNum, store, emitted, client, faults>>

setLastCommittedBlockNumber(n) == lastSet' = n

\* At any time of the session.
SetLast ==
  /\ pc = "relay" /\ commitNum # getNextBlockNumberToCommit
  /\ setLastCommittedBlockNumber(commitNum - 1)
  /\ UNCHANGED <<db, sent, stray, session, relay, queue, store, emitted, client, faults>>

-----------------------------------------------------------------------------
(* The block store *)

\* Only the next block is appended; a block that the store has is skipped.
accepts(b) == b.num = storeNext

\* The counter is advanced before the append.
TakeBlock ==
  /\ ~stopped /\ appending = None /\ queue # <<>>
  /\ queue' = Tail(queue)
  /\ LET b == Head(queue) IN
       IF b.num < storeNext THEN UNCHANGED <<storeNext, appending, stopped>>
       ELSE IF accepts(b) THEN storeNext' = storeNext + 1 /\ appending' = b /\ UNCHANGED stopped
       ELSE stopped' = TRUE /\ UNCHANGED <<storeNext, appending>>
  /\ UNCHANGED <<coordinator, session, relay, ledger, synced, emitted, client, faults>>

\* Append with or without fsync; an fsync covers all earlier blocks.
isSynced(b) ==
  \/ SyncInterval <= 1
  \/ (b.num + 1) % SyncInterval = 0
  \/ Len(b.status) = 1

AppendBlock ==
  /\ appending # None /\ ~stopped
  /\ ledger' = Append(ledger, appending)
  /\ synced' = IF isSynced(appending) THEN Len(ledger) + 1 ELSE synced
  /\ appending' = None
  /\ UNCHANGED <<coordinator, session, relay, queue, storeNext, stopped, emitted, client, faults>>

-----------------------------------------------------------------------------
(* Deliver *)

\* The number a position stands for when the request comes.
startOf(p) == IF p = Oldest THEN 0 ELSE IF p = Newest THEN Len(ledger) - 1 ELSE p

\* getCursor: a stream to the newest block takes the height of that moment, unless it
\* starts there.
getCursor(seek) ==
  [next |-> startOf(seek.start),
   stop |-> IF seek.stop = Oldest \/ seek.stop = seek.start THEN startOf(seek.start)
            ELSE startOf(seek.stop)]

\* A request is served when the ledger is not empty; its start is at most the height.
Deliver(seek) ==
  /\ stream = Idle /\ seeks < MaxSeeks /\ seeks' = seeks + 1
  /\ ledger # <<>> /\ startOf(seek.start) <= Len(ledger)
  /\ getCursor(seek).stop >= getCursor(seek).next
  /\ stream' = getCursor(seek)
  /\ UNCHANGED <<coordinator, session, relay, queue, store, emitted, seen, faults>>

\* The next block is sent as soon as the ledger has it.
SendBlock ==
  /\ stream # Idle /\ stream.next < Len(ledger)
  /\ seen' = [n \in DOMAIN seen \cup {stream.next} |->
                IF n = stream.next THEN ledger[n + 1] ELSE seen[n]]
  /\ stream' = IF stream.next = stream.stop THEN Idle ELSE [stream EXCEPT !.next = @ + 1]
  /\ UNCHANGED <<coordinator, session, relay, queue, store, emitted, seeks, faults>>

-----------------------------------------------------------------------------
(* The point queries *)

Found(n) ==
  /\ seeks < MaxSeeks /\ seeks' = seeks + 1
  /\ seen' = [k \in DOMAIN seen \cup {n} |-> IF k = n THEN ledger[n + 1] ELSE seen[k]]
  /\ UNCHANGED <<coordinator, session, relay, queue, store, emitted, stream, faults>>

GetBlockByNumber(n) == n < Len(ledger) /\ Found(n)

\* The first stored block with the id.
GetBlockByTxID(id) ==
  LET with == {n \in 0..Len(ledger) - 1 : \E i \in DOMAIN Txs(n) : Txs(n)[i].id = id}
  IN \E n \in with : (\A m \in with : n <= m) /\ Found(n)

-----------------------------------------------------------------------------
(* Failures *)

\* The stream with the coordinator ends, in recovery or in the relay; a block held for the
\* queue is dropped, since its write fails on the ended context.
SessionFails ==
  /\ faults < MaxFaults /\ faults' = faults + 1
  /\ pc \in {"fetch", "relay"} /\ pc' = "drain"
  /\ held' = None /\ inFlight' = empty
  /\ UNCHANGED <<coordinator, next, recovered, fetched, commitNum, queue, store, emitted, client>>

\* The coordinator stops and forgets what it was processing; the session ends with it.
CoordinatorCrash ==
  /\ faults < MaxFaults /\ faults' = faults + 1
  /\ sent' = {} /\ stray' = stray \cup sent
  /\ pc' = "drain"
  /\ held' = None /\ inFlight' = empty
  /\ UNCHANGED <<db, lastSet, next, recovered, fetched, commitNum, queue, store, emitted, client>>

\* The counter of a new store is the height of its ledger.
newBlockStore(kept) == kept

\* The sidecar restarts with the synced part of the ledger, or more of it.
SidecarCrash ==
  /\ faults < MaxFaults /\ faults' = faults + 1
  /\ \E kept \in synced..Len(ledger) :
       /\ ledger' = SubSeq(ledger, 1, kept)
       /\ storeNext' = newBlockStore(kept)
       /\ synced' = kept
  /\ appending' = None /\ stopped' = FALSE
  /\ queue' = <<>> /\ stream' = Idle
  /\ pc' = "wait" /\ held' = None /\ inFlight' = empty
  /\ UNCHANGED <<coordinator, next, recovered, fetched, commitNum, emitted, seen, seeks>>

Internal ==
  \/ WaitIdle \/ CheckHeight \/ AppendMissing \/ RecoveryFails \/ Recovered \/ Drain \/ StartRelay
  \/ MapBlock \/ TakeCommitted \/ WriteCommitted \/ SetLast
  \/ \E ref \in sent : Commit(ref)
  \/ TakeBlock \/ AppendBlock
  \/ SendBlock

Next ==
  /\ \/ Internal
     \/ \E ref \in stray : Commit(ref)
     \/ \E seek \in Seeks : Deliver(seek)
     \/ \E n \in Queries.numbers : GetBlockByNumber(n)
     \/ \E id \in Queries.ids : GetBlockByTxID(id)
     \/ SessionFails \/ CoordinatorCrash \/ SidecarCrash
  /\ UNCHANGED chain

Spec == Init /\ [][Next]_vars

\* Every goroutine keeps running, and the coordinator finishes what it was sent.
FairSpec == Spec /\ WF_vars(Internal /\ UNCHANGED chain)

-----------------------------------------------------------------------------
(* Properties *)

\* A status that recovery can reproduce, see asked.
Recoverable(n, i) == Txs(n)[i].kind \in {"plain", "malformed"}

agrees(b) == b.num \in DOMAIN emitted => \A i \in DOMAIN b.status :
  Recoverable(b.num, i) => b.status[i] = emitted[b.num][i]

\* The ledger holds the blocks in order with the statuses they were first committed with,
\* and so does every block a client was sent, although blocks are lost in crashes,
\* recovered from the database or relayed again.
LedgerStable ==
  /\ \A k \in DOMAIN ledger : ledger[k].num = k - 1 /\ agrees(ledger[k])
  /\ \A n \in DOMAIN seen : agrees(seen[n])

\* The block store never meets a block that is ahead of it, which would stop the sidecar:
\* the queue holds a run of blocks that starts no later than the next block of the store.
StoreNotAhead ==
  /\ ~stopped
  /\ \A k \in DOMAIN queue : queue[k].num <= storeNext + k - 1

\* The database counts a block that the ledger misses and that recovery refuses
\* (validator_committer_service.go: "query is empty").
Unrecoverable == \E n \in Height..getNextBlockNumberToCommit - 1 : ~askable(askedIDs(n))

\* Every block reaches the ledger: each recovery ends and the relay starts again at a block
\* it needs, whatever was lost between the database, the queue and the disk, except that a
\* lost block with no status to ask for keeps the sidecar in recovery.
AllStored ==
  <>[](Unrecoverable \/ (Len(ledger) = Len(chain) /\ getNextBlockNumberToCommit = Len(chain)))
=============================================================================
