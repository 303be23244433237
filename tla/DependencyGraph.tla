--------------------------- MODULE DependencyGraph ---------------------------
(***************************************************************************)
(* The coordinator's dependency graph (service/coordinator/dependencygraph)*)
(* with its goroutines: the local constructors, and the three loops of the *)
(* global manager (construct, process validated, output freed).            *)
(*                                                                         *)
(* A transaction is its position in the submission order; batch ids start  *)
(* at 1 as in the code.  Channels with one writer that matter for order    *)
(* are sequences; channels read or written by one goroutine per remote     *)
(* service are sets of batches, because nothing orders those goroutines.   *)
(***************************************************************************)
EXTENDS Integers, FiniteSets, Sequences

CONSTANTS
    Key, NumTx, Workloads,  \* see ConflictOrder
    NumBatch,               \* number of batches submitted
    BatchOf,                \* BatchOf[t]: the batch that carries t
    Rejected,               \* nodes made by NewRejectedTransactionNode
    Worker,                 \* the local dependency constructors
    WaitingTxsLimit,        \* slots of the global manager
    QueueCap                \* buffer size of the channels

Tx == 1..NumTx
Batches == 1..NumBatch
Node == Tx \cup Rejected
RWKeys == [readsOnly : [Key -> 0..2], writesOnly : SUBSET Key, readsAndWrites : SUBSET Key]

BatchTxs(b) == {t \in Tx : BatchOf[t] = b}

ASSUME ConstantsAssumption ==
    /\ NumTx \in Nat /\ NumBatch \in Nat
    /\ WaitingTxsLimit \in Nat \ {0} /\ QueueCap \in Nat \ {0}
ASSUME WorkloadAssumption == Workloads \subseteq [Tx -> RWKeys]
ASSUME BatchAssumption ==
    /\ BatchOf \in [Tx -> Batches]
    /\ \A t, u \in Tx : t < u => BatchOf[t] <= BatchOf[u]
ASSUME RejectedAssumption == IsFiniteSet(Rejected) /\ Rejected \cap Tx = {}

VARIABLES
    rw,             \* rw[t]: readWriteKeys of t
    submitted,      \* last batch written to incomingTransactions
    fetched,        \* last batch read from it: the channel holds fetched+1..submitted
    worker,         \* worker[w]: the batch w holds, 0 when it reads the channel
    lastOutputtedID,
    gdgIn,          \* outgoingTransactionsNode, local to global
    dependsOn,      \* dependsOn[t]: dependsOnTxs of t's node
    dependents,     \* dependents[t]: dependentTxs of t's node
    detector,       \* the global dependencyDetector
    available,      \* waitingTxsSlots
    gpc, gBatch, gFree,     \* constructDependencyGraph: place, batch, depFreeTxs
    vpc, vNodes, vFreed,    \* processValidatedTransactions: place, txsNode left, fullyFreedDependents
    freed, nonEmpty,        \* dependencyFreedTransactions
    opc, oBatch,            \* outputFreedExistingTransactions: place, txsNode
    outq,           \* outgoingDepFreeTransactionsNode
    inFlight,       \* nodes with the verifiers and the VCs
    validatedq,     \* validatedTransactionsNode
    rejectedLeft,   \* rejected nodes not yet received
    merged,         \* history: transactions merged into the graph
    done            \* history: transactions removed from the graph

input == <<rw, submitted, fetched>>
local == <<worker, lastOutputtedID, gdgIn>>
graph == <<dependsOn, dependents, detector>>
construct == <<gpc, gBatch, gFree>>
validated == <<vpc, vNodes, vFreed>>
output == <<freed, nonEmpty, opc, oBatch>>
env == <<inFlight, rejectedLeft>>
vars == <<input, local, graph, available, construct, validated, output, outq, env,
          validatedq, merged, done>>

-----------------------------------------------------------------------------
(* dependencyDetector *)

EmptyDetector ==
    [readOnly  |-> [k \in Key |-> {}],
     writeOnly |-> [k \in Key |-> {}],
     readWrite |-> [k \in Key |-> {}]]

\* addWaitingTx for every transaction of S on an empty detector.
DetectorOf(S) ==
    [readOnly  |-> [k \in Key |-> {t \in S : rw[t].readsOnly[k] > 0}],
     writeOnly |-> [k \in Key |-> {t \in S : k \in rw[t].writesOnly}],
     readWrite |-> [k \in Key |-> {t \in S : k \in rw[t].readsAndWrites}]]

\* Mutant: a write does not wait for earlier readers of the key.
getDependenciesOf_NoWriteRead(d, t) ==
    UNION {d.writeOnly[k] \cup d.readWrite[k] :
              k \in {k \in Key : rw[t].readsOnly[k] > 0} \cup rw[t].writesOnly \cup rw[t].readsAndWrites}

getDependenciesOf(d, t) ==
    (UNION {d.writeOnly[k] \cup d.readWrite[k] : k \in {k \in Key : rw[t].readsOnly[k] > 0}})
    \cup
    (UNION {d.readOnly[k] \cup d.writeOnly[k] \cup d.readWrite[k] :
              k \in rw[t].writesOnly \cup rw[t].readsAndWrites})

mergeWaitingTx(d, e) ==
    [readOnly  |-> [k \in Key |-> d.readOnly[k] \cup e.readOnly[k]],
     writeOnly |-> [k \in Key |-> d.writeOnly[k] \cup e.writeOnly[k]],
     readWrite |-> [k \in Key |-> d.readWrite[k] \cup e.readWrite[k]]]

removeOnce(S, t) == IF Cardinality(S) = 1 THEN {} ELSE S \ {t}

\* ... and for a key that occurs m times in the list.  A third occurrence
\* would change nothing: the second leaves no singleton.
remove(S, t, m) ==
    IF m = 0 THEN S
    ELSE IF m = 1 THEN removeOnce(S, t)
    ELSE removeOnce(removeOnce(S, t), t)

removeWaitingTx(d, t) ==
    [readOnly  |-> [k \in Key |-> remove(d.readOnly[k], t, rw[t].readsOnly[k])],
     writeOnly |-> [k \in Key |-> remove(d.writeOnly[k], t, IF k \in rw[t].writesOnly THEN 1 ELSE 0)],
     readWrite |-> [k \in Key |-> remove(d.readWrite[k], t, IF k \in rw[t].readsAndWrites THEN 1 ELSE 0)]]

-----------------------------------------------------------------------------
Init ==
    /\ rw \in Workloads
    /\ submitted = 0 /\ fetched = 0
    /\ worker = [w \in Worker |-> 0]
    /\ lastOutputtedID = 0
    /\ gdgIn = <<>>
    /\ dependsOn = [t \in Tx |-> {}]
    /\ dependents = [t \in Tx |-> {}]
    /\ detector = EmptyDetector
    /\ available = WaitingTxsLimit
    /\ gpc = "read" /\ gBatch = 0 /\ gFree = {}
    /\ vpc = "read" /\ vNodes = {} /\ vFreed = {}
    /\ freed = {} /\ nonEmpty = FALSE
    /\ opc = "cas" /\ oBatch = {}
    /\ outq = {}
    /\ inFlight = {}
    /\ validatedq = {}
    /\ rejectedLeft = Rejected
    /\ merged = {}
    /\ done = {}

Submit ==
    /\ submitted < NumBatch
    /\ submitted - fetched < QueueCap
    /\ submitted' = submitted + 1
    /\ UNCHANGED <<rw, fetched, local, graph, available, construct, validated, output, outq,
                   env, validatedq, merged, done>>

(* receiveAndProcessBlock sends a rejected node past the graph to the VCs. *)
SubmitRejected(r) ==
    /\ r \in rejectedLeft
    /\ rejectedLeft' = rejectedLeft \ {r}
    /\ inFlight' = inFlight \cup {r}
    /\ UNCHANGED <<input, local, graph, available, construct, validated, output, outq,
                   validatedq, merged, done>>

-----------------------------------------------------------------------------
(* localDependencyConstructor.construct *)

LocalDeps(t) == getDependenciesOf(DetectorOf({u \in BatchTxs(BatchOf[t]) : u < t}), t)

\* Read a batch and build the dependencies among its own transactions.
LocalConstruct(w) ==
    /\ worker[w] = 0
    /\ fetched < submitted
    /\ fetched' = fetched + 1
    /\ worker' = [worker EXCEPT ![w] = fetched']
    /\ LET B == BatchTxs(fetched')
       IN  /\ dependsOn' = [t \in Tx |-> IF t \in B THEN LocalDeps(t) ELSE dependsOn[t]]
           /\ dependents' = [u \in Tx |-> dependents[u] \cup {t \in B : u \in LocalDeps(t)}]
    /\ UNCHANGED <<rw, submitted, lastOutputtedID, gdgIn, detector, available, construct,
                   validated, output, outq, env, validatedq, merged, done>>

\* Mutant: the order enforcer is gone.
LocalOutput_AnyOrder(w) ==
    /\ worker[w] # 0
    /\ Len(gdgIn) < QueueCap
    /\ lastOutputtedID' = worker[w]
    /\ gdgIn' = Append(gdgIn, worker[w])
    /\ worker' = [worker EXCEPT ![w] = 0]
    /\ UNCHANGED <<input, graph, available, construct, validated, output, outq, env,
                   validatedq, merged, done>>

\* Output it once every earlier batch is out (the order enforcer's
\* compare-and-swap; the workers wait and are woken under its lock).
LocalOutput(w) ==
    /\ worker[w] # 0
    /\ lastOutputtedID = worker[w] - 1
    /\ Len(gdgIn) < QueueCap
    /\ lastOutputtedID' = worker[w]
    /\ gdgIn' = Append(gdgIn, worker[w])
    /\ worker' = [worker EXCEPT ![w] = 0]
    /\ UNCHANGED <<input, graph, available, construct, validated, output, outq, env,
                   validatedq, merged, done>>

-----------------------------------------------------------------------------
(* globalDependencyManager.constructDependencyGraph *)

GRead ==
    /\ gpc = "read"
    /\ gdgIn # <<>>
    /\ gBatch' = Head(gdgIn)
    /\ gdgIn' = Tail(gdgIn)
    /\ gpc' = "acquire"
    /\ UNCHANGED <<input, worker, lastOutputtedID, graph, available, gFree, validated, output,
                   outq, env, validatedq, merged, done>>

GAcquire ==
    /\ gpc = "acquire"
    /\ available >= 1
    /\ available' = available - Cardinality(BatchTxs(gBatch))
    /\ gpc' = "lock"
    /\ UNCHANGED <<input, local, graph, gBatch, gFree, validated, output, outq, env,
                   validatedq, merged, done>>

\* The section under mu.
GConstruct ==
    /\ gpc = "lock"
    /\ vpc # "locked"
    /\ LET B == BatchTxs(gBatch)
           deps(t) == getDependenciesOf(detector, t)
       IN  /\ dependsOn' = [t \in Tx |-> IF t \in B THEN dependsOn[t] \cup deps(t) ELSE dependsOn[t]]
           /\ dependents' = [u \in Tx |-> dependents[u] \cup {t \in B : u \in deps(t)}]
           /\ gFree' = {t \in B : deps(t) = {} /\ dependsOn[t] = {}}
           /\ detector' = mergeWaitingTx(detector, DetectorOf(B))
           /\ merged' = merged \cup B
    /\ gpc' = IF gFree' = {} THEN "read" ELSE "send"
    /\ UNCHANGED <<input, local, available, gBatch, validated, output, outq, env, validatedq, done>>

GSend ==
    /\ gpc = "send"
    /\ Cardinality(outq) < QueueCap
    /\ outq' = outq \cup {gFree}
    /\ gFree' = {}
    /\ gpc' = "read"
    /\ UNCHANGED <<input, local, graph, available, gBatch, validated, output, env, validatedq,
                   merged, done>>

-----------------------------------------------------------------------------
(* globalDependencyManager.processValidatedTransactions *)

VRead(S) ==
    /\ vpc = "read"
    /\ S \in validatedq
    /\ validatedq' = validatedq \ {S}
    /\ vNodes' = S
    /\ available' = available + Cardinality(S)
    /\ vpc' = "lock"
    /\ UNCHANGED <<input, local, graph, construct, vFreed, output, outq, env, merged, done>>

\* freeDependents: n leaves every dependent's list; the dependents left with
\* an empty one are free.
FreedBy(n) == {t \in dependents[n] : dependsOn[t] \ {n} = {}}

\* One iteration of the loops under mu; the last one unlocks.
VFree(n) ==
    /\ vpc \in {"lock", "locked"}
    /\ n \in vNodes
    /\ vNodes' = vNodes \ {n}
    /\ IF n \in Tx
       THEN /\ vFreed' = vFreed \cup FreedBy(n)
            /\ dependsOn' = [t \in Tx |-> IF t \in dependents[n] THEN dependsOn[t] \ {n} ELSE dependsOn[t]]
            /\ detector' = removeWaitingTx(detector, n)
            /\ done' = done \cup {n}
       ELSE UNCHANGED <<vFreed, dependsOn, detector, done>>
    /\ vpc' = IF vNodes' # {} THEN "locked" ELSE IF vFreed' # {} THEN "add" ELSE "read"
    /\ UNCHANGED <<input, local, dependents, available, construct, output, outq, env,
                   validatedq, merged>>

\* dependencyFreedTransactions.add: append, then set the flag, then signal.
VAdd ==
    /\ vpc = "add"
    /\ freed' = freed \cup vFreed
    /\ vFreed' = {}
    /\ vpc' = "store"
    /\ UNCHANGED <<input, local, graph, available, construct, vNodes, nonEmpty, opc, oBatch,
                   outq, env, validatedq, merged, done>>

VStore ==
    /\ vpc = "store"
    /\ nonEmpty' = TRUE
    /\ vpc' = "signal"
    /\ UNCHANGED <<input, local, graph, available, construct, vNodes, vFreed, freed, opc, oBatch,
                   outq, env, validatedq, merged, done>>

\* Signal wakes the output goroutine only if it is already on the list of
\* the condition variable.  The signalling side does not hold its lock.
VSignal ==
    /\ vpc = "signal"
    /\ opc' = IF opc = "waiting" THEN "cas" ELSE opc
    /\ vpc' = "read"
    /\ UNCHANGED <<input, local, graph, available, construct, vNodes, vFreed, freed, nonEmpty,
                   oBatch, outq, env, validatedq, merged, done>>

-----------------------------------------------------------------------------
(* globalDependencyManager.outputFreedExistingTransactions and waitAndRemove *)

OCas ==
    /\ opc = "cas"
    /\ opc' = IF nonEmpty THEN "take" ELSE "wait"
    /\ nonEmpty' = FALSE
    /\ UNCHANGED <<input, local, graph, available, construct, validated, freed, oBatch, outq,
                   env, validatedq, merged, done>>

\* cond.Wait puts the goroutine on the notification list.
OWait ==
    /\ opc = "wait"
    /\ opc' = "waiting"
    /\ UNCHANGED <<input, local, graph, available, construct, validated, freed, nonEmpty, oBatch,
                   outq, env, validatedq, merged, done>>

\* Mutant: the list is cleared before it is copied.
OTake_ClearsFirst ==
    /\ opc = "take"
    /\ freed' = {}
    /\ oBatch' = freed'
    /\ opc' = "cas"
    /\ UNCHANGED <<input, local, graph, available, construct, validated, nonEmpty, outq, env,
                   validatedq, merged, done>>

OTake ==
    /\ opc = "take"
    /\ oBatch' = freed
    /\ freed' = {}
    /\ opc' = IF freed = {} THEN "cas" ELSE "send"
    /\ UNCHANGED <<input, local, graph, available, construct, validated, nonEmpty, outq, env,
                   validatedq, merged, done>>

OSend ==
    /\ opc = "send"
    /\ Cardinality(outq) < QueueCap
    /\ outq' = outq \cup {oBatch}
    /\ oBatch' = {}
    /\ opc' = "cas"
    /\ UNCHANGED <<input, local, graph, available, construct, validated, freed, nonEmpty, env,
                   validatedq, merged, done>>

-----------------------------------------------------------------------------
(* The verifiers and the VCs: they take released batches and return nodes  *)
(* in batches and an order of their own.                                   *)

Dispatch(S) ==
    /\ S \in outq
    /\ outq' = outq \ {S}
    /\ inFlight' = inFlight \cup S
    /\ UNCHANGED <<input, local, graph, available, construct, validated, output, rejectedLeft,
                   validatedq, merged, done>>

Finalize(S) ==
    /\ S # {} /\ S \subseteq inFlight
    /\ Cardinality(validatedq) < QueueCap
    /\ inFlight' = inFlight \ S
    /\ validatedq' = validatedq \cup {S}
    /\ UNCHANGED <<input, local, graph, available, construct, validated, output, outq,
                   rejectedLeft, merged, done>>

Global == GRead \/ GAcquire \/ GConstruct \/ GSend
Validated == (\E S \in validatedq : VRead(S)) \/ (\E n \in vNodes : VFree(n)) \/ VAdd \/ VStore \/ VSignal
Output == OCas \/ OWait \/ OTake \/ OSend
Downstream == (\E S \in outq : Dispatch(S)) \/ (\E S \in SUBSET inFlight : Finalize(S))

Next ==
    \/ Submit
    \/ \E r \in rejectedLeft : SubmitRejected(r)
    \/ \E w \in Worker : LocalConstruct(w) \/ LocalOutput(w)
    \/ Global
    \/ Validated
    \/ Output
    \/ Downstream

Spec == Init /\ [][Next]_vars

(* Every goroutine of the graph keeps running, and the services behind it   *)
(* answer every transaction.                                               *)
Fairness ==
    /\ WF_vars(Submit)
    /\ \A w \in Worker : WF_vars(LocalConstruct(w)) /\ WF_vars(LocalOutput(w))
    /\ WF_vars(Global) /\ WF_vars(Validated) /\ WF_vars(Output) /\ WF_vars(Downstream)

FairSpec == Spec /\ Fairness

-----------------------------------------------------------------------------
(* Properties *)

Batched == 0..NumBatch

TypeOK ==
    /\ rw \in [Tx -> RWKeys]
    /\ submitted \in Batched /\ fetched \in Batched /\ lastOutputtedID \in Batched
    /\ worker \in [Worker -> Batched]
    /\ gdgIn \in Seq(Batches)
    /\ dependsOn \in [Tx -> SUBSET Tx] /\ dependents \in [Tx -> SUBSET Tx]
    /\ detector \in [readOnly  : [Key -> SUBSET Tx],
                     writeOnly : [Key -> SUBSET Tx],
                     readWrite : [Key -> SUBSET Tx]]
    /\ available \in Int
    /\ gpc \in {"read", "acquire", "lock", "send"} /\ gBatch \in Batched /\ gFree \in SUBSET Tx
    /\ vpc \in {"read", "lock", "locked", "add", "store", "signal"}
    /\ vNodes \in SUBSET Node /\ vFreed \in SUBSET Tx
    /\ freed \in SUBSET Tx /\ nonEmpty \in BOOLEAN
    /\ opc \in {"cas", "wait", "waiting", "take", "send"} /\ oBatch \in SUBSET Tx
    /\ outq \in SUBSET SUBSET Tx
    /\ inFlight \in SUBSET Node
    /\ validatedq \in SUBSET SUBSET Node
    /\ rejectedLeft \in SUBSET Rejected
    /\ merged \in SUBSET Tx /\ done \in SUBSET Tx

\* The transactions handed to the verifiers, and those whose result is back.
Released == Tx \cap ((UNION outq) \cup inFlight \cup (UNION validatedq) \cup vNodes \cup done)
Finalized == Tx \cap ((UNION validatedq) \cup vNodes \cup done)

\* The graph implements ConflictOrder: every transaction is released once, and
\* never before an earlier transaction it conflicts with is finalized, however
\* the constructors, the three loops and the services interleave.
Order == INSTANCE ConflictOrder WITH released <- Released, finalized <- Finalized
ImplementsConflictOrder == Order!Spec

\* The transactions in the graph.
Waiting == merged \ done

\* The edges are those of the transactions in the graph, no more and no less:
\* addDependenciesAndUpdateDependents and freeDependents leave a transaction
\* waiting exactly for the earlier conflicting ones still in the graph.
EdgesExact ==
    \A t \in Waiting : dependsOn[t] = {u \in Waiting : u < t /\ Order!Conflict(u, t)}

\* The detector holds the keys of exactly those transactions: remove neither
\* leaves an entry behind (the graph would grow for ever and later
\* transactions would wait for nothing) nor takes another one's entry away.
DetectorExact == detector = DetectorOf(Waiting)

\* The output goroutine sleeps on its condition variable although
\* transactions are in its list: the signal came after its failed
\* compare-and-swap and before it was on the notification list.
WakeupLost == opc = "waiting" /\ freed # {} /\ vpc \notin {"store", "signal"}

\* Every submitted transaction leaves the graph, unless a wake-up is lost and
\* no later validation signals again.
DrainedUnlessWakeupLost ==
    \A t \in Tx : []<>(BatchOf[t] > submitted \/ t \in done \/ WakeupLost)
=============================================================================
