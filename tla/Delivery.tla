------------------------------ MODULE Delivery ------------------------------
(***************************************************************************)
(* Fault-tolerant delivery of the ordered blocks (utils/deliverorderer over *)
(* utils/deliver), as the sidecar's startDelivery uses it.  One source      *)
(* streams full blocks, the other parties stream headers; both kinds meet   *)
(* in one queue, and one processor verifies each against the state of its   *)
(* stream.  A config block, a data block that fails verification, a data    *)
(* source that falls behind the headers for too long, or a worker that gives*)
(* up, restarts the workers.  The queue and the two stream states survive a *)
(* restart.                                                                 *)
(*                                                                         *)
(* Data: a block is its number and what the checks compare; a hash is the   *)
(* number of the block it hashes and a signature is the config it was made  *)
(* under.  Time is whether the deadline of the current target has passed.   *)
(***************************************************************************)
EXTENDS Integers, Sequences, FiniteSets, FiniteSetsExt

CONSTANTS
  Party,         \* the ordering parties
  Faulty,        \* those that may withhold blocks or send damaged ones
  LastNum,       \* blocks 0..LastNum exist
  ConfigBlocks,  \* the numbers of the config blocks
  Parties,       \* the parties each config block lists
  KnownConfigs,  \* config blocks the configuration file may carry
  Starts,        \* block numbers the caller may start from
  Levels,        \* fault tolerance levels, a subset of {"BFT", "CFT"}
  Damages,       \* what a faulty party may break in a block
  QueueSize,     \* capacity of jointOutputBlock
  MaxFaults      \* bound on damaged blocks, workers giving up and sessions ended

Joint == "joint"          \* source ID 0: a connection balanced over all parties
NoSource == "none"        \* math.MaxUint32
Wrong == -2               \* a hash, an index or a signature that is not the true one
NoConfig == -1            \* no config block material loaded
Honest == (Party \ Faulty) \cup {Joint}

ASSUME DeliveryAssumption ==
  /\ LastNum \in Nat /\ 0 \in ConfigBlocks /\ ConfigBlocks \subseteq 0..LastNum
  /\ Parties \in [ConfigBlocks -> SUBSET Party]
  /\ KnownConfigs \subseteq ConfigBlocks /\ Starts \subseteq 0..LastNum
  /\ QueueSize \in Nat \ {0} /\ MaxFaults \in Nat

VARIABLES
  level,             \* params.FaultToleranceLevel
  dataStream,        \* blockVerificationStateMachine of the full blocks
  headerOnlyStream,  \* ... of the headers
  latestConfig,      \* newest config block seen; its parties are dialled
  curDataBlockSourceID,
  target,            \* targetNextBlockNum
  due,               \* targetArrivalTime has passed
  queue,             \* jointOutputBlock
  worker,            \* NextBlockNum of every running delivery worker
  session,           \* "open", or "failed": the context of the workers is done
  proc,              \* processBlocks: "read", "write" or "done"
  hold,              \* the block to write and whether an error follows it
  out,               \* numbers of the blocks written to OutputBlock
  lost,              \* verified blocks whose write was dropped
  faults

streams == <<dataStream, headerOnlyStream, latestConfig>>
watch == <<target, due>>
vars == <<level, streams, curDataBlockSourceID, watch, queue, worker, session, proc, hold, out, lost, faults>>

-----------------------------------------------------------------------------
(* Blocks *)

\* The config block in force for block n: the last one before it.
ConfigFor(n) == LET before == {c \in ConfigBlocks : c < n} IN
  IF before = {} THEN NoConfig ELSE Max(before)

\* The block that a queued message carries.
blockOf(m) ==
  [num |-> m.num,
   form |-> m.damage # "form",
   prev |-> IF m.damage = "prev" THEN Wrong ELSE m.num - 1,
   data |-> m.data,
   dataHash |-> m.damage # "data",
   lastConfig |-> IF m.damage = "index" THEN Wrong
                  ELSE IF m.num \in ConfigBlocks THEN m.num ELSE ConfigFor(m.num),
   signed |-> IF m.damage = "signature" THEN Wrong ELSE ConfigFor(m.num)]

\* A full stream carries data, a header stream only that of config blocks; a damaged
\* block keeps its number, since toQueueWithoutReconnect drops any other.
message(p, n, damage) ==
  [src |-> p, num |-> n, damage |-> damage, data |-> p = curDataBlockSourceID \/ n \in ConfigBlocks]

-----------------------------------------------------------------------------
(* Verification of a block against the state of its stream *)

\* configBlockNumber is zero until a config block is loaded.
configBlockNumber(config) == Max({config, 0})

verifyBlockForm(isData, b) == b.form /\ (isData => b.data)

verifyHashes(s, b) == (s.next > 0 => b.prev = s.next - 1) /\ (b.data => b.dataHash)

verifyBlockPolicy(s, b) == s.config # NoConfig =>
  /\ b.num >= s.config
  /\ s.config # b.lastConfig => b.num \in ConfigBlocks /\ b.data /\ b.lastConfig = b.num
  /\ b.num > 0 => b.signed = s.config

updateIfConfigBlock_DataOnly(config, isData, b) ==
  IF isData /\ b.data /\ b.num \in ConfigBlocks THEN b.num ELSE config
\* A config block is recognised by its data, whichever stream carries it.
updateIfConfigBlock(config, isData, b) ==
  IF b.data /\ b.num \in ConfigBlocks THEN b.num ELSE config

accepts(s, isData, b) ==
  /\ verifyBlockForm(isData, b)
  /\ b.num = s.next
  /\ verifyHashes(s, b)
  /\ verifyBlockPolicy(s, b)

verificationStepAndUpdateState(s, isData, b, src) ==
  [next |-> b.num + 1, updater |-> src, config |-> updateIfConfigBlock(s.config, isData, b)]

\* The state after block n - 1, and its config, were loaded from the ledger.
newBlockProcessingState(n) == [next |-> n, updater |-> NoSource, config |-> ConfigFor(n)]

-----------------------------------------------------------------------------
(* Choice of the data source and start of the workers *)

monitorBlockWithholding == level = "BFT"

\* The last source of a header when the headers are ahead under the latest config,
\* unless that header was the config block itself; otherwise any party.
pickDataBlockStreamID(parties, data, header, latest) ==
  IF /\ header.next > data.next
     /\ configBlockNumber(latest) = configBlockNumber(header.config)
     /\ header.next - 1 > configBlockNumber(header.config)
     /\ header.updater \in parties
  THEN {header.updater} ELSE parties

\* initStreams, given the states the workers start from.
initStreams(data, header, latest) ==
  LET parties == Parties[latest] IN
  IF monitorBlockWithholding /\ Cardinality(parties) >= 2
  THEN \E p \in pickDataBlockStreamID(parties, data, header, latest) :
         /\ curDataBlockSourceID' = p
         /\ worker' = [q \in parties |-> IF q = p THEN data.next ELSE header.next]
  ELSE /\ curDataBlockSourceID' = Joint
       /\ worker' = [q \in {Joint} |-> data.next]

\* newFTDelivery and the first initStreams, for a caller whose ledger has n blocks.
newFTDelivery(n, known) ==
  LET state == newBlockProcessingState(n)
      latest == Max({known, state.config}) IN
  /\ dataStream' = state /\ headerOnlyStream' = state
  /\ latestConfig' = latest
  /\ target' = 0 /\ due' = FALSE
  /\ queue' = <<>>
  /\ session' = "open" /\ proc' = "read" /\ hold' = [num |-> Wrong, err |-> FALSE]
  /\ initStreams(state, state, latest)

Init ==
  /\ level \in Levels
  /\ \E n \in Starts, known \in KnownConfigs :
       LET state == newBlockProcessingState(n) IN
       /\ dataStream = state /\ headerOnlyStream = state
       /\ latestConfig = Max({known, state.config})
       /\ out = [i \in 1..n |-> i - 1]
  /\ curDataBlockSourceID = Joint /\ worker = [q \in {} |-> 0]
  /\ target = 0 /\ due = FALSE /\ queue = <<>>
  /\ session = "failed" /\ proc = "done" /\ hold = [num |-> Wrong, err |-> FALSE]
  /\ lost = {} /\ faults = 0

-----------------------------------------------------------------------------
(* Workers: deliver.ToQueue for one source, reconnecting where it stopped *)

Receive(p) ==
  /\ p \in DOMAIN worker /\ worker[p] <= LastNum
  /\ Len(queue) < QueueSize
  /\ \/ /\ queue' = Append(queue, message(p, worker[p], "no"))
        /\ UNCHANGED faults
     \/ /\ p \in Faulty /\ worker[p] > 0 /\ faults < MaxFaults
        /\ faults' = faults + 1
        /\ \E d \in Damages : queue' = Append(queue, message(p, worker[p], d))
  /\ worker' = [worker EXCEPT ![p] = @ + 1]
  /\ UNCHANGED <<level, streams, curDataBlockSourceID, watch, session, proc, hold, out, lost>>

\* The retries of the data worker, or of all header workers, run out of time, and the
\* context of the group is cancelled.
GiveUp ==
  /\ session = "open" /\ faults < MaxFaults
  /\ session' = "failed" /\ faults' = faults + 1
  /\ UNCHANGED <<level, streams, curDataBlockSourceID, watch, queue, worker, proc, hold, out, lost>>

\* targetArrivalTime passes.
Expire ==
  /\ target > 0 /\ ~due /\ due' = TRUE
  /\ UNCHANGED <<level, streams, curDataBlockSourceID, target, queue, worker, session, proc, hold, out, lost, faults>>

-----------------------------------------------------------------------------
(* processBlocks *)

checkBlockWithholding_Extends(data, header) ==
  IF ~monitorBlockWithholding THEN [target |-> target, due |-> due, suspect |-> FALSE]
  ELSE IF data >= header THEN [target |-> 0, due |-> FALSE, suspect |-> FALSE]
  ELSE IF data >= target \/ due THEN [target |-> header, due |-> FALSE, suspect |-> FALSE]
  ELSE [target |-> target, due |-> due, suspect |-> FALSE]
\* checkBlockWithholding: the new target, whether its deadline passed, and suspicion.
checkBlockWithholding(data, header) ==
  IF ~monitorBlockWithholding THEN [target |-> target, due |-> due, suspect |-> FALSE]
  ELSE IF data >= header THEN [target |-> 0, due |-> FALSE, suspect |-> FALSE]
  ELSE IF data >= target THEN [target |-> header, due |-> FALSE, suspect |-> FALSE]
  ELSE IF ~due THEN [target |-> target, due |-> due, suspect |-> FALSE]
  ELSE [target |-> 0, due |-> FALSE, suspect |-> TRUE]

\* processBlocks returns an error, which cancels the workers.
fails == proc' = "done" /\ session' = "failed"

\* Its loop goes on while the context lives.
loops == proc' = (IF session = "failed" THEN "done" ELSE "read") /\ UNCHANGED session

onAccept_ErrorFirst(isData, m, restart) ==
  IF restart THEN fails /\ UNCHANGED hold
  ELSE IF isData THEN proc' = "write" /\ hold' = [num |-> m.num, err |-> FALSE] /\ UNCHANGED session
  ELSE loops /\ UNCHANGED hold
\* A verified data block is written before the error that restarts the streams is returned.
onAccept(isData, m, restart) ==
  IF isData THEN proc' = "write" /\ hold' = [num |-> m.num, err |-> restart] /\ UNCHANGED session
  ELSE IF restart THEN fails /\ UNCHANGED hold
  ELSE loops /\ UNCHANGED hold

\* getProcessingState
isDataBlock(m) == m.data /\ m.src = curDataBlockSourceID

\* checkNextStreamAction, with the stream state that the accepted block left.
checkNextStreamAction(isData, s, m) ==
  LET data == IF isData THEN s ELSE dataStream
      header == IF isData THEN headerOnlyStream ELSE s
      check == checkBlockWithholding(data.next, header.next)
      newer == configBlockNumber(latestConfig) < configBlockNumber(s.config)
  IN /\ dataStream' = data /\ headerOnlyStream' = header
     /\ IF newer
        THEN latestConfig' = s.config /\ UNCHANGED watch
        ELSE target' = check.target /\ due' = check.due /\ UNCHANGED latestConfig
     /\ onAccept(isData, m, newer \/ check.suspect)

processNextBlock ==
  /\ proc = "read" /\ queue # <<>>
  /\ queue' = Tail(queue)
  /\ LET m == Head(queue)
         b == blockOf(m)
         isData == isDataBlock(m)
         s == IF isData THEN dataStream ELSE headerOnlyStream
     IN IF accepts(s, isData, b)
        THEN checkNextStreamAction(isData, verificationStepAndUpdateState(s, isData, b, m.src), m)
        ELSE /\ IF isData THEN fails ELSE loops
             /\ UNCHANGED <<streams, watch, hold>>
  /\ UNCHANGED <<level, curDataBlockSourceID, worker, out, lost, faults>>

\* readNextBlock returns nothing at the deadline, and the source is suspected.
Timeout ==
  /\ proc = "read" /\ monitorBlockWithholding
  /\ dataStream.next < target /\ due
  /\ LET check == checkBlockWithholding(dataStream.next, headerOnlyStream.next) IN
       /\ target' = check.target /\ due' = check.due
       /\ IF check.suspect THEN fails ELSE loops
  /\ UNCHANGED <<level, streams, curDataBlockSourceID, queue, worker, hold, out, lost, faults>>

\* The write of a data block: it is dropped when the context is done, and the result of
\* the write is ignored.
Write ==
  /\ proc = "write"
  /\ \/ out' = Append(out, hold.num) /\ UNCHANGED lost
     \/ session = "failed" /\ lost' = lost \cup {hold.num} /\ UNCHANGED out
  /\ IF hold.err THEN fails ELSE loops
  /\ hold' = [num |-> Wrong, err |-> FALSE]
  /\ UNCHANGED <<level, streams, curDataBlockSourceID, watch, queue, worker, faults>>

\* readNextBlock returns nothing when the context ends.
Stop ==
  /\ proc = "read" /\ session = "failed" /\ proc' = "done"
  /\ UNCHANGED <<level, streams, curDataBlockSourceID, watch, queue, worker, session, hold, out, lost, faults>>

\* The next attempt of Sustain: new workers, the same queue and stream states.
Restart ==
  /\ proc = "done" /\ session = "failed"
  /\ initStreams(dataStream, headerOnlyStream, latestConfig)
  /\ session' = "open" /\ proc' = "read"
  /\ UNCHANGED <<level, streams, watch, queue, hold, out, lost, faults>>

-----------------------------------------------------------------------------
(* The caller: startDelivery of the sidecar *)

\* Length of the run of blocks from block 0 that were written.
Height == Max({n \in 0..Len(out) : \A i \in 1..n : out[i] = i - 1})

\* The session of the caller ends with all that was not in sequence, and it starts a new
\* delivery at the height of its ledger, keeping only the latest config block.
Resume ==
  /\ faults < MaxFaults /\ faults' = faults + 1
  /\ newFTDelivery(Height, latestConfig)
  /\ out' = SubSeq(out, 1, Height) /\ lost' = {}
  /\ UNCHANGED level

Next ==
  \/ \E p \in Party \cup {Joint} : Receive(p)
  \/ GiveUp \/ Expire
  \/ processNextBlock \/ Timeout \/ Write \/ Stop \/ Restart
  \/ Resume

Spec == Init /\ [][Next]_vars

\* Honest sources send what they have, the goroutine of processBlocks and the retry loop
\* run, and time passes.  Nothing is assumed of a faulty party.
Fairness ==
  /\ \A p \in Honest : WF_vars(Receive(p))
  /\ WF_vars(Expire)
  /\ WF_vars(processNextBlock \/ Write \/ Stop \/ Restart)
  /\ WF_vars(Timeout)

FairSpec == Spec /\ Fairness

-----------------------------------------------------------------------------
(* Properties *)

\* The blocks written to the caller are the true chain, in order, with no block skipped
\* and none twice, over every restart and change of source; only a block whose write was
\* dropped with a cancelled context is missing (processBlocks ignores that result).
OutputRun ==
  LET pending == IF proc = "write" THEN {hold.num} ELSE {} IN
  /\ \A i, j \in 1..Len(out) : i < j => out[i] < out[j]
  /\ (0..dataStream.next - 1) = {out[i] : i \in 1..Len(out)} \cup lost \cup pending

\* Each stream verifies its next block under the last config block before it, though the
\* streams reach a config block at different times and by different sources, and the
\* parties dialled are those of a config block no stream is ahead of.
ConfigExact ==
  /\ dataStream.config = ConfigFor(dataStream.next)
  /\ headerOnlyStream.config = ConfigFor(headerOnlyStream.next)
  /\ configBlockNumber(latestConfig) >= Max({dataStream.config, headerOnlyStream.config})

\* The processor waits and nothing wakes it up: no deadline runs, and all headers came.
Unwatched ==
  /\ proc = "read" /\ session = "open" /\ queue = <<>>
  /\ target = 0 /\ headerOnlyStream.next > LastNum

\* The data stream fails on a block that an earlier worker of the source left in the queue.
Leftover ==
  /\ processNextBlock
  /\ isDataBlock(Head(queue)) /\ Head(queue).num # dataStream.next

\* Every block is delivered although a party withholds blocks or sends damaged ones, with
\* two exceptions.  A deadline is set only when a block is processed, so nothing replaces
\* a withholding source chosen after the last header (checkBlockWithholding).  And a block
\* left in the queue by a header worker of the party that is now the data source restarts
\* the streams (processNextBlock), which may leave another such block.
Delivered ==
  \/ <>(dataStream.next > LastNum \/ (curDataBlockSourceID \in Faulty /\ Unwatched))
  \/ []<><<Leftover>>_vars

=============================================================================
