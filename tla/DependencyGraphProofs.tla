------------------------ MODULE DependencyGraphProofs ------------------------
(***************************************************************************)
(* Proofs about DependencyGraph, for any number of transactions, batches,  *)
(* workers, rejected nodes and slots, and for any read-write sets in which *)
(* no transaction lists a key twice among its reads; and that it           *)
(* implements ConflictOrder.                                               *)
(***************************************************************************)
EXTENDS DependencyGraph, FiniteSetTheorems, TLAPS

\* No transaction has the same key twice in readsOnly.
UniqueReads == \A t \in Tx, k \in Key : rw[t].readsOnly[k] \in {0, 1}

Detectors == [readOnly  : [Key -> SUBSET Tx],
              writeOnly : [Key -> SUBSET Tx],
              readWrite : [Key -> SUBSET Tx]]

-----------------------------------------------------------------------------
(* The detector *)

\* getDependenciesOf on a detector that holds the keys of S returns the members
\* of S that conflict with t.
LEMMA DependenciesAreConflicts ==
    ASSUME rw \in [Tx -> RWKeys], NEW S \in SUBSET Tx, NEW t \in Tx
    PROVE  getDependenciesOf(DetectorOf(S), t) = {u \in S : Order!Conflict(u, t)}
<1> DEFINE d == DetectorOf(S)
           R == {k \in Key : rw[t].readsOnly[k] > 0}
           W == rw[t].writesOnly \cup rw[t].readsAndWrites
<1>1. \A k \in Key : /\ d.readOnly[k]  = {u \in S : rw[u].readsOnly[k] > 0}
                     /\ d.writeOnly[k] = {u \in S : k \in rw[u].writesOnly}
                     /\ d.readWrite[k] = {u \in S : k \in rw[u].readsAndWrites}
  BY Zenon DEF DetectorOf
<1>2. \A u \in Tx : /\ rw[u].writesOnly \subseteq Key
                    /\ rw[u].readsAndWrites \subseteq Key
  BY Zenon DEF RWKeys
<1>3. R \subseteq Key /\ W \subseteq Key
  BY <1>2, Zenon
<1>4. getDependenciesOf(d, t) = (UNION {d.writeOnly[k] \cup d.readWrite[k] : k \in R})
                       \cup (UNION {d.readOnly[k] \cup d.writeOnly[k] \cup d.readWrite[k] : k \in W})
  BY Zenon DEF getDependenciesOf
<1> HIDE DEF d, R, W
<1>5. \A u : u \in getDependenciesOf(d, t) <=>
              \/ \E k \in R : u \in d.writeOnly[k] \cup d.readWrite[k]
              \/ \E k \in W : u \in d.readOnly[k] \cup d.writeOnly[k] \cup d.readWrite[k]
  BY <1>4, Zenon
<1>6. \A u \in S : Order!Conflict(u, t) <=>
              \/ \E k \in R : k \in rw[u].writesOnly \/ k \in rw[u].readsAndWrites
              \/ \E k \in W : \/ k \in rw[u].writesOnly \/ k \in rw[u].readsAndWrites
                              \/ rw[u].readsOnly[k] > 0
  BY <1>2, <1>3, Zenon DEF R, W, Order!Conflict, Order!Reads, Order!Writes
<1>7. \A u : u \in getDependenciesOf(d, t) => u \in S
  BY <1>1, <1>3, <1>5
<1>8. \A u \in S : u \in getDependenciesOf(d, t) <=> Order!Conflict(u, t)
  BY <1>1, <1>3, <1>5, <1>6
<1> QED BY <1>7, <1>8, Zenon DEF d

\* Merging the detectors of two sets of transactions gives that of their union.
LEMMA MergeOfDetectors ==
    ASSUME NEW S \in SUBSET Tx, NEW T \in SUBSET Tx
    PROVE  mergeWaitingTx(DetectorOf(S), DetectorOf(T)) = DetectorOf(S \cup T)
  BY ZenonT(30) DEF mergeWaitingTx, DetectorOf

\* Removing a key of t from the set of its transactions takes t out and
\* nothing else.
LEMMA RemoveOnceTakesOne ==
    ASSUME NEW S \in SUBSET Tx, NEW t \in S
    PROVE  removeOnce(S, t) = S \ {t}
<1>1. IsFiniteSet(Tx)
  BY FS_Interval, ConstantsAssumption, SMT DEF Tx
<1>2. IsFiniteSet(S)
  BY <1>1, FS_Subset, Zenon
<1>3. Cardinality(S) = 1 => S \ {t} = {}
  BY <1>2, FS_Singleton
<1> QED BY <1>3, Zenon DEF removeOnce

\* Removing a transaction from the detector of S gives that of the others.
LEMMA RemoveFromDetector ==
    ASSUME rw \in [Tx -> RWKeys], UniqueReads, NEW S \in SUBSET Tx, NEW t \in S
    PROVE  removeWaitingTx(DetectorOf(S), t) = DetectorOf(S \ {t})
<1> DEFINE d == DetectorOf(S)
           RO(k) == {u \in S : rw[u].readsOnly[k] > 0}
           WO(k) == {u \in S : k \in rw[u].writesOnly}
           RW(k) == {u \in S : k \in rw[u].readsAndWrites}
<1>1. \A k \in Key : d.readOnly[k] = RO(k) /\ d.writeOnly[k] = WO(k) /\ d.readWrite[k] = RW(k)
  BY Zenon DEF DetectorOf
<1>2. ASSUME NEW k \in Key
      PROVE  /\ remove(RO(k), t, rw[t].readsOnly[k]) = RO(k) \ {t}
             /\ remove(WO(k), t, IF k \in rw[t].writesOnly THEN 1 ELSE 0) = WO(k) \ {t}
             /\ remove(RW(k), t, IF k \in rw[t].readsAndWrites THEN 1 ELSE 0) = RW(k) \ {t}
  <2>1. \A X \in SUBSET Tx : t \in X => removeOnce(X, t) = X \ {t}
    BY RemoveOnceTakesOne, Zenon
  <2>2. RO(k) \in SUBSET Tx /\ WO(k) \in SUBSET Tx /\ RW(k) \in SUBSET Tx
    BY Zenon
  <2>3. rw[t].readsOnly[k] \in {0, 1}
    BY Zenon DEF UniqueReads
  <2>4. CASE rw[t].readsOnly[k] = 0
    BY <2>1, <2>2, <2>4 DEF remove
  <2>5. CASE rw[t].readsOnly[k] = 1
    BY <2>1, <2>2, <2>5 DEF remove
  <2> QED BY <2>3, <2>4, <2>5, Zenon
<1> DEFINE less == [readOnly  |-> [k \in Key |-> RO(k) \ {t}],
                    writeOnly |-> [k \in Key |-> WO(k) \ {t}],
                    readWrite |-> [k \in Key |-> RW(k) \ {t}]]
<1>3. DetectorOf(S \ {t}) = less
  <2>1. \A k \in Key : /\ {u \in S \ {t} : rw[u].readsOnly[k] > 0} = RO(k) \ {t}
                       /\ {u \in S \ {t} : k \in rw[u].writesOnly} = WO(k) \ {t}
                       /\ {u \in S \ {t} : k \in rw[u].readsAndWrites} = RW(k) \ {t}
    BY Zenon
  <2> QED BY ZenonT(30), <2>1 DEF DetectorOf
<1>4. removeWaitingTx(d, t) = less
  <2> HIDE DEF d, RO, WO, RW
  <2> QED BY ZenonT(30), <1>1, <1>2 DEF removeWaitingTx
<1> QED BY <1>3, <1>4, Zenon

-----------------------------------------------------------------------------
(* The inductive invariant *)

\* 1 while the constructor holds a batch it has not merged.
Held == IF gpc \in {"acquire", "lock"} THEN 1 ELSE 0

\* The batches merged into the graph are 1..MergedUpTo.
MergedUpTo == lastOutputtedID - Len(gdgIn) - Held

\* The batches travel in order: out of the workers, through the channel to
\* the constructor and into the graph.
Pipeline ==
    /\ lastOutputtedID <= fetched /\ fetched <= submitted
    /\ MergedUpTo >= 0
    /\ \A i \in 1..Len(gdgIn) : gdgIn[i] = MergedUpTo + Held + i
    /\ gpc \in {"acquire", "lock"} => gBatch = MergedUpTo + 1
    /\ \A w \in Worker : worker[w] # 0 => lastOutputtedID < worker[w] /\ worker[w] <= fetched
    /\ \A v, w \in Worker : v # w /\ worker[v] # 0 => worker[v] # worker[w]
    /\ merged = {t \in Tx : BatchOf[t] <= MergedUpTo}

\* The conflicts of t inside its own batch, known before the batch is merged.
OwnConflicts(t) == {u \in BatchTxs(BatchOf[t]) : u < t /\ Order!Conflict(u, t)}

\* Edges and detector describe exactly the transactions in the graph.
Graph ==
    /\ UniqueReads
    /\ done \subseteq merged
    /\ DetectorExact
    /\ EdgesExact
    /\ \A t \in done : dependsOn[t] = {}
    /\ \A t \in Tx \ merged : dependsOn[t] = IF BatchOf[t] <= fetched THEN OwnConflicts(t) ELSE {}
    /\ \A u \in Tx \ done : dependents[u] = {t \in Tx : u \in dependsOn[t]}

Queued(t) == \E S \in outq : t \in S
Returned(t) == \E S \in validatedq : t \in S

\* A transaction that waits for nothing is in one place only on its way from
\* the graph to the services and back.
Homes ==
    /\ \A t \in Tx : (\/ t \in gFree \/ t \in vFreed \/ t \in freed \/ t \in oBatch
                      \/ Queued(t) \/ t \in inFlight \/ Returned(t) \/ t \in vNodes)
                     => t \in merged /\ t \notin done /\ dependsOn[t] = {}
    /\ \A t \in Tx :
          /\ t \in gFree => t \notin vFreed /\ t \notin freed /\ t \notin oBatch
          /\ t \in vFreed => t \notin freed /\ t \notin oBatch
          /\ t \in freed => t \notin oBatch
          /\ t \in gFree \/ t \in vFreed \/ t \in freed \/ t \in oBatch
             => ~Queued(t) /\ t \notin inFlight /\ ~Returned(t) /\ t \notin vNodes
          /\ Queued(t) => t \notin inFlight /\ ~Returned(t) /\ t \notin vNodes
          /\ t \in inFlight => ~Returned(t) /\ t \notin vNodes
          /\ Returned(t) => t \notin vNodes
    /\ \A S, T \in outq : S # T => S \cap T = {}
    /\ \A S, T \in validatedq : S # T => S \cap T \cap Tx = {}
    /\ vpc \notin {"lock", "locked"} => vNodes = {}
    /\ gpc # "send" => gFree = {}

IInv == TypeOK /\ Pipeline /\ Graph /\ Homes

-----------------------------------------------------------------------------
(* Type correctness *)

\* A detector maps each key to sets of transactions, and merging or removing
\* keeps it one.
LEMMA DetectorTypes ==
    ASSUME rw \in [Tx -> RWKeys], NEW d \in Detectors
    PROVE  /\ \A t \in Tx : getDependenciesOf(d, t) \subseteq Tx
           /\ \A t \in Tx : removeWaitingTx(d, t) \in Detectors
           /\ \A S \in SUBSET Tx : mergeWaitingTx(d, DetectorOf(S)) \in Detectors
<1>1. ASSUME NEW t \in Tx PROVE getDependenciesOf(d, t) \subseteq Tx
  <2>1. rw[t].writesOnly \subseteq Key /\ rw[t].readsAndWrites \subseteq Key
    BY Zenon DEF RWKeys
  <2> QED BY <2>1 DEF getDependenciesOf, Detectors
<1>2. ASSUME NEW t \in Tx PROVE removeWaitingTx(d, t) \in Detectors
  <2>1. \A S \in SUBSET Tx : \A n : remove(S, t, n) \in SUBSET Tx
    BY Zenon DEF remove, removeOnce
  <2> QED BY <2>1, Zenon DEF removeWaitingTx, Detectors
<1>3. ASSUME NEW S \in SUBSET Tx PROVE mergeWaitingTx(d, DetectorOf(S)) \in Detectors
  BY Zenon DEF mergeWaitingTx, DetectorOf, Detectors
<1> QED BY <1>1, <1>2, <1>3, Zenon

\* Every set of transactions in the graph's queues is finite, so its size is a
\* number the slots can be counted with.
LEMMA FiniteNodes ==
    ASSUME NEW S \in SUBSET Node
    PROVE  IsFiniteSet(S) /\ Cardinality(S) \in Nat
<1>1. IsFiniteSet(Tx)
  BY FS_Interval, ConstantsAssumption, SMT DEF Tx
<1>2. IsFiniteSet(Node)
  BY ZenonT(30), <1>1, FS_Union, RejectedAssumption DEF Node
<1>3. IsFiniteSet(S)
  BY <1>2, FS_Subset, Zenon
<1> QED BY <1>3, FS_CardinalityType, Zenon

\* Every step keeps every variable in its type.
LEMMA TypeStep == TypeOK /\ [Next]_vars => TypeOK'
<1> SUFFICES ASSUME TypeOK, [Next]_vars PROVE TypeOK'
  BY Zenon
<1> USE ConstantsAssumption, BatchAssumption
<1> USE DEF vars, input, local, graph, construct, validated, output, env
<1>0. detector \in Detectors /\ rw \in [Tx -> RWKeys]
  BY Zenon DEF TypeOK, Detectors
<1>1. CASE Submit
  BY <1>1 DEF TypeOK, Submit, Batched
<1>2. ASSUME NEW r \in rejectedLeft, SubmitRejected(r) PROVE TypeOK'
  BY <1>2 DEF TypeOK, SubmitRejected, Node
<1>3. ASSUME NEW w \in Worker, LocalConstruct(w) PROVE TypeOK'
  <2>1. \A t \in Tx : LocalDeps(t) \subseteq Tx
    <3> TAKE t \in Tx
    <3> DEFINE S == {u \in BatchTxs(BatchOf[t]) : u < t}
    <3>1. S \in SUBSET Tx
      BY Zenon DEF BatchTxs
    <3>2. getDependenciesOf(DetectorOf(S), t) = {u \in S : Order!Conflict(u, t)}
      BY <1>0, <3>1, DependenciesAreConflicts, Zenon
    <3> QED BY <3>1, <3>2, Zenon DEF LocalDeps
  <2>2. fetched' \in Batched /\ worker' \in [Worker -> Batched]
    BY <1>3 DEF LocalConstruct, TypeOK, Batched
  <2>3. dependsOn' \in [Tx -> SUBSET Tx] /\ dependents' \in [Tx -> SUBSET Tx]
    BY <1>3, <2>1, Zenon DEF LocalConstruct, TypeOK, BatchTxs
  <2> QED BY <1>3, <2>2, <2>3, ZenonT(40) DEF TypeOK, LocalConstruct
<1>4. ASSUME NEW w \in Worker, LocalOutput(w) PROVE TypeOK'
  <2>1. worker[w] \in Batches /\ worker[w] \in Batched
    BY <1>4 DEF LocalOutput, TypeOK, Batches, Batched
  <2>2. gdgIn' \in Seq(Batches) /\ worker' \in [Worker -> Batched]
    BY <1>4, <2>1 DEF LocalOutput, TypeOK, Batched
  <2> QED BY <1>4, <2>1, <2>2, ZenonT(40) DEF TypeOK, LocalOutput
<1>5. CASE GRead
  <2>1. Head(gdgIn) \in Batched /\ Tail(gdgIn) \in Seq(Batches)
    BY <1>5 DEF GRead, TypeOK, Batches, Batched
  <2> QED BY <1>5, <2>1, Zenon DEF TypeOK, GRead
<1>6. CASE GAcquire
  <2>1. Cardinality(BatchTxs(gBatch)) \in Nat
    BY FiniteNodes, Zenon DEF BatchTxs, Node
  <2> QED BY <1>6, <2>1 DEF TypeOK, GAcquire
<1>7. CASE GConstruct
  <2>1. BatchTxs(gBatch) \in SUBSET Tx
    BY Zenon DEF BatchTxs
  <2>2. \A t \in Tx : getDependenciesOf(detector, t) \subseteq Tx
    BY <1>0, DetectorTypes, Zenon
  <2>3. detector' \in Detectors
    BY <1>0, <1>7, <2>1, DetectorTypes, Zenon DEF GConstruct
  <2>4. dependsOn' \in [Tx -> SUBSET Tx] /\ dependents' \in [Tx -> SUBSET Tx]
    BY <1>7, <2>1, <2>2, Zenon DEF GConstruct, TypeOK
  <2> QED BY <1>7, <2>1, <2>3, <2>4, Zenon DEF TypeOK, GConstruct, Detectors
<1>8. CASE GSend
  BY <1>8 DEF TypeOK, GSend
<1>9. ASSUME NEW S \in validatedq, VRead(S) PROVE TypeOK'
  <2>1. S \in SUBSET Node /\ Cardinality(S) \in Nat
    BY FiniteNodes, Zenon DEF TypeOK
  <2> QED BY <1>9, <2>1 DEF TypeOK, VRead
<1>10. ASSUME NEW n \in vNodes, VFree(n) PROVE TypeOK'
  <2>1. CASE n \in Tx
    <3>1. detector' \in Detectors
      BY <1>0, <1>10, <2>1, DetectorTypes, ZenonT(30) DEF VFree
    <3>2. dependsOn' \in [Tx -> SUBSET Tx] /\ FreedBy(n) \subseteq Tx
      BY <1>10, <2>1 DEF VFree, TypeOK, FreedBy
    <3> QED BY <1>10, <2>1, <3>1, <3>2 DEF TypeOK, VFree, Detectors
  <2>2. CASE n \notin Tx
    BY <1>10, <2>2 DEF TypeOK, VFree
  <2> QED BY <2>1, <2>2, Zenon
<1>11. CASE VAdd \/ VStore \/ VSignal
  BY ZenonT(30), <1>11 DEF TypeOK, VAdd, VStore, VSignal
<1>12. CASE Output
  BY ZenonT(30), <1>12 DEF TypeOK, Output, OCas, OWait, OTake, OSend
<1>13. ASSUME NEW S \in outq, Dispatch(S) PROVE TypeOK'
  BY <1>13, Zenon DEF TypeOK, Dispatch, Node
<1>14. ASSUME NEW S \in SUBSET inFlight, Finalize(S) PROVE TypeOK'
  BY <1>14 DEF TypeOK, Finalize
<1>15. CASE UNCHANGED vars
  BY <1>15, ZenonT(40) DEF TypeOK
<1> QED BY <1>1, <1>2, <1>3, <1>4, <1>5, <1>6, <1>7, <1>8, <1>9, <1>10, <1>11, <1>12, <1>13,
           <1>14, <1>15, ZenonT(40) DEF Next, Global, Validated, Downstream

-----------------------------------------------------------------------------
(* Preservation of the order of the batches *)

\* The batches stay in order, whichever worker finishes first.
LEMMA PipelineStep == TypeOK /\ Pipeline /\ [Next]_vars => Pipeline'
<1> SUFFICES ASSUME TypeOK, Pipeline, [Next]_vars PROVE Pipeline'
  BY Zenon
<1> USE ConstantsAssumption, BatchAssumption
<1> USE DEF vars, input, local, graph, construct, validated, output, env
<1>0. /\ lastOutputtedID \in Nat /\ fetched \in Nat /\ submitted \in Nat
      /\ gdgIn \in Seq(Nat) /\ Len(gdgIn) \in Nat
      /\ worker \in [Worker -> Nat] /\ gBatch \in Nat
  BY DEF TypeOK, Batched, Batches
<1>1. CASE Submit
  BY <1>0, <1>1 DEF Pipeline, Submit, MergedUpTo, Held
<1>2. ASSUME NEW w \in Worker, LocalConstruct(w) PROVE Pipeline'
  <2>1. fetched' = fetched + 1 /\ fetched' <= submitted
    BY <1>0, <1>2 DEF LocalConstruct
  <2>2. worker' = [worker EXCEPT ![w] = fetched + 1]
    BY <1>2, <2>1, Zenon DEF LocalConstruct
  <2>3. UNCHANGED <<submitted, lastOutputtedID, gdgIn, gpc, gBatch, merged>>
    BY <1>2, Zenon DEF LocalConstruct
  <2>4. MergedUpTo' = MergedUpTo /\ Held' = Held
    BY <2>3 DEF MergedUpTo, Held
  <2>5. \A v \in Worker : worker'[v] = IF v = w THEN fetched + 1 ELSE worker[v]
    BY <1>0, <2>2
  <2>6. lastOutputtedID <= fetched /\ \A v \in Worker : worker[v] \in Nat /\ worker[v] <= fetched
    BY <1>0 DEF Pipeline
  <2>7. \A v \in Worker : worker'[v] # 0 => lastOutputtedID < worker'[v] /\ worker'[v] <= fetched'
    BY <1>0, <2>1, <2>5, <2>6 DEF Pipeline
  <2>8. \A v, u \in Worker : v # u /\ worker'[v] # 0 => worker'[v] # worker'[u]
    BY <1>0, <2>5, <2>6 DEF Pipeline
  <2> QED BY <1>0, <2>1, <2>3, <2>4, <2>7, <2>8 DEF Pipeline
<1>3. ASSUME NEW w \in Worker, LocalOutput(w) PROVE Pipeline'
  <2>1. worker[w] # 0 /\ worker[w] = lastOutputtedID + 1 /\ lastOutputtedID' = lastOutputtedID + 1
    BY <1>0, <1>3 DEF LocalOutput
  <2>2. worker' = [worker EXCEPT ![w] = 0] /\ gdgIn' = Append(gdgIn, lastOutputtedID + 1)
    BY <1>3, <2>1, Zenon DEF LocalOutput
  <2>3. UNCHANGED <<submitted, fetched, gpc, gBatch, merged>>
    BY <1>3, Zenon DEF LocalOutput
  <2>4. Len(gdgIn') = Len(gdgIn) + 1 /\ MergedUpTo' = MergedUpTo /\ Held' = Held
    BY <1>0, <2>1, <2>2, <2>3 DEF MergedUpTo, Held
  <2>5. \A i \in 1..Len(gdgIn') : gdgIn'[i] = MergedUpTo' + Held' + i
    <3>1. \A i \in 1..Len(gdgIn) : gdgIn'[i] = gdgIn[i]
      BY <1>0, <2>2
    <3>2. gdgIn'[Len(gdgIn) + 1] = lastOutputtedID + 1
      BY <1>0, <2>2
    <3>3. MergedUpTo + Held + Len(gdgIn) = lastOutputtedID
      BY <1>0 DEF MergedUpTo, Held
    <3>4. MergedUpTo \in Int /\ Held \in Int
      BY <1>0 DEF MergedUpTo, Held
    <3> QED BY <1>0, <2>4, <3>1, <3>2, <3>3, <3>4, SMTT(30) DEF Pipeline
  <2>6. /\ \A v \in Worker : worker'[v] # 0 => lastOutputtedID' < worker'[v] /\ worker'[v] <= fetched'
        /\ \A u, v \in Worker : u # v /\ worker'[u] # 0 => worker'[u] # worker'[v]
    BY <1>0, <2>1, <2>2, <2>3 DEF Pipeline
  <2> QED BY <1>0, <2>1, <2>3, <2>4, <2>5, <2>6, ZenonT(40) DEF Pipeline
<1>4. CASE GRead
  <2>1. /\ Len(gdgIn) > 0 /\ Len(Tail(gdgIn)) = Len(gdgIn) - 1
        /\ \A i \in 1..Len(Tail(gdgIn)) : Tail(gdgIn)[i] = gdgIn[i + 1]
        /\ Head(gdgIn) = gdgIn[1]
    BY <1>0, <1>4 DEF GRead
  <2>2. MergedUpTo' = MergedUpTo /\ Held = 0 /\ Held' = 1
    BY <1>0, <1>4, <2>1 DEF GRead, MergedUpTo, Held
  <2>3. gBatch' = MergedUpTo + 1
    BY <1>0, <1>4, <2>1, <2>2 DEF GRead, Pipeline, MergedUpTo
  <2>4. \A i \in 1..Len(gdgIn') : gdgIn'[i] = MergedUpTo' + Held' + i
    BY <1>0, <1>4, <2>1, <2>2 DEF GRead, Pipeline, MergedUpTo
  <2> QED BY <1>4, <2>2, <2>3, <2>4, Zenon DEF GRead, Pipeline
<1>5. CASE GAcquire
  BY <1>0, <1>5, Zenon DEF Pipeline, GAcquire, MergedUpTo, Held
<1>6. CASE GConstruct
  <2>1. Held = 1 /\ Held' = 0 /\ MergedUpTo' = MergedUpTo + 1 /\ gBatch = MergedUpTo + 1
    BY <1>0, <1>6 DEF GConstruct, Held, MergedUpTo, Pipeline
  <2>2. MergedUpTo \in Nat
    BY <1>0 DEF MergedUpTo, Pipeline, Held
  <2>3. merged' = {t \in Tx : BatchOf[t] <= MergedUpTo'}
    <3>1. merged' = merged \cup BatchTxs(gBatch)
      BY <1>6, Zenon DEF GConstruct
    <3>2. \A t \in Tx : BatchOf[t] \in Nat
      BY DEF Batches
    <3> QED BY <2>1, <2>2, <3>1, <3>2 DEF Pipeline, BatchTxs
  <2>4. gpc' \in {"read", "send"}
    BY <1>6, Zenon DEF GConstruct
  <2>5. UNCHANGED <<submitted, fetched, worker, lastOutputtedID, gdgIn, gBatch>>
    BY <1>6, Zenon DEF GConstruct
  <2> QED BY <1>0, <2>1, <2>2, <2>3, <2>4, <2>5 DEF Pipeline
<1>7. CASE GSend
  BY <1>0, <1>7, Zenon DEF Pipeline, GSend, MergedUpTo, Held
<1>8. CASE UNCHANGED <<input, local, gpc, gBatch, merged>>
  BY <1>0, <1>8, Zenon DEF Pipeline, MergedUpTo, Held
<1>9. CASE \/ \E r \in rejectedLeft : SubmitRejected(r)
           \/ Validated \/ Output \/ Downstream \/ UNCHANGED vars
  BY ZenonT(30), <1>8, <1>9 DEF SubmitRejected, Validated, VRead, VFree, VAdd, VStore, VSignal,
                    Output, OCas, OWait, OTake, OSend, Downstream, Dispatch, Finalize
<1> QED BY <1>1, <1>2, <1>3, <1>4, <1>5, <1>6, <1>7, <1>9, Zenon DEF Next, Global

-----------------------------------------------------------------------------
(* Preservation of the graph and of the places of its transactions *)

\* The read-write sets never change, and with them the conflicts.
LEMMA ConflictsFixed ==
    ASSUME rw' = rw
    PROVE  /\ \A u, t : Order!Conflict(u, t)' <=> Order!Conflict(u, t)
           /\ \A S : DetectorOf(S)' = DetectorOf(S)
           /\ \A t : OwnConflicts(t)' = OwnConflicts(t)
           /\ UniqueReads' <=> UniqueReads
  BY DEF Order!Conflict, Order!Reads, Order!Writes, DetectorOf, UniqueReads, OwnConflicts

\* The invariant of the graph survives a step that does not touch it.
LEMMA GraphFrame ==
    Graph /\ UNCHANGED <<rw, fetched, graph, merged, done>> => Graph'
<1> SUFFICES ASSUME Graph, UNCHANGED <<rw, fetched, graph, merged, done>> PROVE Graph'
  BY Zenon
<1>1. /\ \A u, t : Order!Conflict(u, t)' <=> Order!Conflict(u, t)
      /\ \A S : DetectorOf(S)' = DetectorOf(S)
      /\ \A t : OwnConflicts(t)' = OwnConflicts(t)
      /\ UniqueReads' <=> UniqueReads
  BY ConflictsFixed, Zenon
<1>2. DetectorExact'
  BY <1>1, Zenon DEF Graph, DetectorExact, Waiting, graph
<1>3. EdgesExact'
  BY <1>1, Zenon DEF Graph, EdgesExact, Waiting, graph
<1> QED BY <1>1, <1>2, <1>3, Zenon DEF Graph, graph

\* LocalDeps are the conflicts inside the batch.
LEMMA LocalDepsAreConflicts ==
    ASSUME TypeOK, NEW t \in Tx
    PROVE  LocalDeps(t) = OwnConflicts(t)
<1> DEFINE S == {u \in BatchTxs(BatchOf[t]) : u < t}
<1>1. S \in SUBSET Tx /\ rw \in [Tx -> RWKeys]
  BY Zenon DEF BatchTxs, TypeOK
<1>2. LocalDeps(t) = {u \in S : Order!Conflict(u, t)}
  BY <1>1, DependenciesAreConflicts, Zenon DEF LocalDeps
<1> QED BY <1>2, Zenon DEF OwnConflicts

\* Edges and detector stay exact when a batch is read, merged or when a
\* finalized transaction is taken out.
LEMMA GraphStep == IInv /\ [Next]_vars => Graph'
<1> SUFFICES ASSUME IInv, [Next]_vars PROVE Graph'
  BY Zenon
<1> USE ConstantsAssumption, BatchAssumption
<1> USE DEF vars, input, local, graph, construct, validated, output, env
<1>0. /\ TypeOK /\ Pipeline /\ Graph /\ Homes
      /\ rw \in [Tx -> RWKeys] /\ merged \in SUBSET Tx /\ done \in SUBSET Tx
      /\ dependsOn \in [Tx -> SUBSET Tx] /\ dependents \in [Tx -> SUBSET Tx]
      /\ Waiting \in SUBSET Tx
  BY Zenon DEF IInv, TypeOK, Waiting
<1>1. rw' = rw
  BY ZenonT(30) DEF Next, Submit, SubmitRejected, LocalConstruct, LocalOutput, Global, GRead, GAcquire,
         GConstruct, GSend, Validated, VRead, VFree, VAdd, VStore, VSignal, Output, OCas, OWait,
         OTake, OSend, Downstream, Dispatch, Finalize
<1>2. /\ \A u, t : Order!Conflict(u, t)' <=> Order!Conflict(u, t)
      /\ \A S : DetectorOf(S)' = DetectorOf(S)
      /\ \A t : OwnConflicts(t)' = OwnConflicts(t)
      /\ UniqueReads'
  BY <1>0, <1>1, ConflictsFixed, Zenon DEF Graph
<1>3. \A t \in Tx : OwnConflicts(t) \subseteq {u \in Tx : BatchOf[u] = BatchOf[t]}
  BY ZenonT(40) DEF OwnConflicts, BatchTxs
<1>4. MergedUpTo \in Nat /\ fetched \in Nat /\ \A t \in Tx : BatchOf[t] \in Nat /\ t \in Nat
  BY <1>0 DEF TypeOK, Pipeline, MergedUpTo, Held, Batched, Batches, Tx
<1>5. ASSUME NEW w \in Worker, LocalConstruct(w) PROVE Graph'
  <2> DEFINE B == BatchTxs(fetched + 1)
  <2>1. fetched' = fetched + 1 /\ UNCHANGED <<detector, merged, done>>
    BY <1>5, ZenonT(40) DEF LocalConstruct
  <2>2. \A t \in B : t \in Tx /\ BatchOf[t] = fetched + 1 /\ t \notin merged /\ dependsOn[t] = {}
    <3>1. \A t \in B : t \in Tx /\ BatchOf[t] = fetched + 1
      BY ZenonT(40) DEF BatchTxs
    <3>2. MergedUpTo <= fetched
      BY <1>0, <1>4 DEF Pipeline, MergedUpTo, Held, TypeOK, Batched
    <3> QED BY <1>0, <1>4, <3>1, <3>2 DEF Pipeline, Graph
  <2>3. dependsOn' = [t \in Tx |-> IF t \in B THEN OwnConflicts(t) ELSE dependsOn[t]]
    BY <1>0, <1>5, <2>1, LocalDepsAreConflicts, ZenonT(40) DEF LocalConstruct
  <2>4. dependents' = [u \in Tx |-> dependents[u] \cup {t \in B : u \in OwnConflicts(t)}]
    <3>1. \A t \in B : LocalDeps(t) = OwnConflicts(t)
      BY <1>0, <2>2, LocalDepsAreConflicts, Zenon
    <3> QED BY <1>5, <2>1, <3>1 DEF LocalConstruct
  <2>5. \A t \in merged : dependsOn'[t] = dependsOn[t]
    BY <1>0, <2>2, <2>3, ZenonT(40)
  <2>6. \A t \in Tx \ merged : dependsOn'[t] = IF BatchOf[t] <= fetched' THEN OwnConflicts(t) ELSE {}
    BY <1>0, <1>4, <2>1, <2>2, <2>3, SMTT(30) DEF Graph, BatchTxs
  <2>7. \A u \in Tx \ done : dependents'[u] = {t \in Tx : u \in dependsOn'[t]}
    BY <1>0, <2>2, <2>3, <2>4, Zenon DEF Graph
  <2>8. EdgesExact'
    BY <1>0, <1>2, <2>1, <2>5 DEF Graph, EdgesExact, Waiting
  <2>9. DetectorExact'
    BY <1>0, <1>2, <2>1, Zenon DEF Graph, DetectorExact, Waiting
  <2> QED BY <1>0, <1>2, <2>1, <2>5, <2>6, <2>7, <2>8, <2>9, ZenonT(40) DEF Graph
<1>6. CASE GConstruct
  <2> DEFINE B == BatchTxs(gBatch)
             M == MergedUpTo
             C(t) == {u \in Waiting : Order!Conflict(u, t)}
  <2>1. gBatch = M + 1 /\ B \in SUBSET Tx /\ UNCHANGED <<fetched, done>>
    BY <1>0, <1>6, ZenonT(40) DEF GConstruct, Pipeline, BatchTxs
  <2>2. /\ \A t \in B : t \in Tx /\ BatchOf[t] = M + 1 /\ t \notin merged
        /\ \A t \in merged : t \in Tx /\ BatchOf[t] <= M
    BY <1>0, <1>4, <2>1 DEF BatchTxs, Pipeline
  <2>3. \A t \in B, u \in merged : u < t /\ ~(t < u) /\ u # t
    BY <1>4, <2>2
  <2>4. \A t \in B : dependsOn[t] = OwnConflicts(t)
    <3>1. M + 1 <= fetched
      BY <1>0, <1>4, <1>6 DEF Pipeline, MergedUpTo, Held, TypeOK, Batched, GConstruct
    <3> QED BY <1>0, <2>2, <3>1 DEF Graph
  <2>5. \A t \in Tx : getDependenciesOf(detector, t) = C(t)
    BY <1>0, DependenciesAreConflicts, Zenon DEF Graph, DetectorExact
  <2>6. /\ dependsOn' = [t \in Tx |-> IF t \in B THEN OwnConflicts(t) \cup C(t) ELSE dependsOn[t]]
        /\ dependents' = [u \in Tx |-> dependents[u] \cup {t \in B : u \in C(t)}]
        /\ merged' = merged \cup B
    <3> HIDE DEF C
    <3> QED BY ZenonT(30), <1>6, <2>1, <2>4, <2>5 DEF GConstruct
  <2>7. DetectorExact'
    <3>1. detector' = mergeWaitingTx(DetectorOf(Waiting), DetectorOf(B))
      BY <1>0, <1>6, Zenon DEF GConstruct, Graph, DetectorExact
    <3>2. detector' = DetectorOf(Waiting \cup B)
      BY <1>0, <2>1, <3>1, MergeOfDetectors, Zenon
    <3>3. Waiting' = Waiting \cup B
      BY <1>0, <2>1, <2>2, <2>6, Zenon DEF Waiting, Graph
    <3> QED BY <1>2, <3>2, <3>3, Zenon DEF DetectorExact
  <2>8. EdgesExact'
    <3>1. Waiting' = Waiting \cup B
      BY <1>0, <2>1, <2>2, <2>6, Zenon DEF Waiting, Graph
    <3>2. ASSUME NEW t \in Waiting
          PROVE  dependsOn'[t] = {u \in Waiting \cup B : u < t /\ Order!Conflict(u, t)}
      <4>1. dependsOn'[t] = {u \in Waiting : u < t /\ Order!Conflict(u, t)}
        BY <1>0, <2>2, <2>6, <3>2, Zenon DEF Graph, EdgesExact, Waiting
      <4>2. \A u \in B : ~(u < t)
        BY <1>0, <2>3, Zenon DEF Waiting
      <4> QED BY <4>1, <4>2, Zenon
    <3>3. ASSUME NEW t \in B
          PROVE  dependsOn'[t] = {u \in Waiting \cup B : u < t /\ Order!Conflict(u, t)}
      <4>1. dependsOn'[t] = OwnConflicts(t) \cup C(t)
        BY <2>2, <2>6, Zenon
      <4>2. OwnConflicts(t) = {u \in B : u < t /\ Order!Conflict(u, t)}
        BY <2>1, <2>2, Zenon DEF OwnConflicts
      <4>3. \A u \in Waiting : u < t
        BY <2>3, ZenonT(40) DEF Waiting
      <4> QED BY <4>1, <4>2, <4>3, Zenon
    <3> QED BY <1>2, <3>1, <3>2, <3>3, ZenonT(40) DEF EdgesExact
  <2>9. \A u \in Tx \ done' : dependents'[u] = {t \in Tx : u \in dependsOn'[t]}
    BY <1>0, <2>1, <2>2, <2>4, <2>6 DEF Graph
  <2>10. /\ \A t \in done' : dependsOn'[t] = {}
         /\ \A t \in Tx \ merged' : dependsOn'[t] = IF BatchOf[t] <= fetched' THEN OwnConflicts(t)' ELSE {}
         /\ done' \subseteq merged'
    BY ZenonT(30), <1>0, <1>2, <2>1, <2>2, <2>6 DEF Graph
  <2> QED BY <1>2, <2>7, <2>8, <2>9, <2>10, Zenon DEF Graph
<1>7. ASSUME NEW n \in vNodes, VFree(n) PROVE Graph'
  <2>1. CASE n \notin Tx
    BY <1>0, <1>7, <2>1, GraphFrame, Zenon DEF VFree
  <2>2. CASE n \in Tx
    <3>1. n \in Waiting /\ dependsOn[n] = {} /\ n \notin done /\ n \in merged
      BY <1>0, <1>7, <2>2, Zenon DEF Homes, Waiting
    <3>2. dependents[n] = {t \in Tx : n \in dependsOn[t]}
      BY <1>0, <2>2, <3>1, ZenonT(40) DEF Graph
    <3>3. /\ dependsOn' = [t \in Tx |-> dependsOn[t] \ {n}]
          /\ done' = done \cup {n} /\ Waiting' = Waiting \ {n}
          /\ UNCHANGED <<fetched, merged, dependents>>
      BY <1>0, <1>7, <2>2, <3>2 DEF VFree, Waiting
    <3>4. DetectorExact'
      <4>1. detector' = removeWaitingTx(DetectorOf(Waiting), n)
        BY <1>0, <1>7, <2>2, Zenon DEF VFree, Graph, DetectorExact
      <4>2. detector' = DetectorOf(Waiting \ {n})
        BY <1>0, <3>1, <4>1, RemoveFromDetector, Zenon DEF Graph
      <4> QED BY <1>2, <3>3, <4>2, Zenon DEF DetectorExact
    <3>5. EdgesExact'
      BY <1>0, <1>2, <3>3, ZenonT(40) DEF Graph, EdgesExact
    <3>6. \A t \in Tx \ merged : n \notin dependsOn[t]
      BY <1>0, <1>3, <1>4, <3>1 DEF Graph, Pipeline
    <3>7. \A t \in Tx \ merged' : dependsOn'[t] = IF BatchOf[t] <= fetched' THEN OwnConflicts(t)' ELSE {}
      BY <1>0, <1>2, <3>3, <3>6 DEF Graph
    <3>8. \A u \in Tx \ done' : dependents'[u] = {t \in Tx : u \in dependsOn'[t]}
      BY <1>0, <3>3, Zenon DEF Graph
    <3>9. done' \subseteq merged' /\ \A t \in done' : dependsOn'[t] = {}
      BY <1>0, <3>1, <3>3, ZenonT(40) DEF Graph
    <3> QED BY <1>2, <3>4, <3>5, <3>7, <3>8, <3>9, ZenonT(40) DEF Graph
  <2> QED BY <2>1, <2>2, Zenon
<1>8. CASE UNCHANGED <<rw, fetched, graph, merged, done>>
  BY <1>0, <1>8, GraphFrame, Zenon
<1> QED BY ZenonT(30), <1>5, <1>6, <1>7, <1>8 DEF Next, Submit, SubmitRejected, LocalOutput, Global, GRead,
       GAcquire, GSend, Validated, VRead, VAdd, VStore, VSignal, Output, OCas, OWait, OTake, OSend,
       Downstream, Dispatch, Finalize

\* A transaction that waits for nothing moves from place to place and is never
\* in two of them.
LEMMA HomesStep == IInv /\ [Next]_vars => Homes'
<1> SUFFICES ASSUME IInv, [Next]_vars PROVE Homes'
  BY Zenon
<1> USE ConstantsAssumption, BatchAssumption
<1> USE DEF vars, input, local, graph, construct, validated, output, env
<1>0. /\ TypeOK /\ Pipeline /\ Graph /\ Homes
      /\ merged \in SUBSET Tx /\ done \in SUBSET Tx
      /\ dependsOn \in [Tx -> SUBSET Tx] /\ dependents \in [Tx -> SUBSET Tx]
      /\ vFreed \in SUBSET Tx /\ gFree \in SUBSET Tx
  BY Zenon DEF IInv, TypeOK
<1>1. CASE \/ Submit \/ GRead \/ GAcquire \/ VStore \/ VSignal \/ OCas \/ OWait \/ UNCHANGED vars
           \/ \E w \in Worker : LocalOutput(w)
  <2>1. /\ UNCHANGED <<gFree, vFreed, freed, oBatch, outq, inFlight, validatedq, vNodes, merged, done>>
        /\ UNCHANGED dependsOn
        /\ vpc' \notin {"lock", "locked"} => vpc \notin {"lock", "locked"}
        /\ gpc' # "send" => gpc # "send"
    <3>1. CASE Submit \/ GRead \/ GAcquire \/ UNCHANGED vars
      BY <3>1, Zenon DEF Submit, GRead, GAcquire
    <3>2. CASE VStore \/ VSignal \/ OCas \/ OWait
      BY <3>2, Zenon DEF VStore, VSignal, OCas, OWait
    <3>3. CASE \E w \in Worker : LocalOutput(w)
      BY <3>3, Zenon DEF LocalOutput
    <3> QED BY <1>1, <3>1, <3>2, <3>3, Zenon
  <2> QED BY <1>0, <2>1, ZenonT(40) DEF Homes, Queued, Returned
<1>2. ASSUME NEW r \in rejectedLeft, SubmitRejected(r) PROVE Homes'
  <2>1. r \notin Tx
    BY <1>0, RejectedAssumption, Zenon DEF TypeOK
  <2> QED BY <1>0, <1>2, <2>1, ZenonT(40) DEF Homes, Queued, Returned, SubmitRejected
<1>3. ASSUME NEW w \in Worker, LocalConstruct(w) PROVE Homes'
  <2>1. \A t \in merged : dependsOn'[t] = dependsOn[t]
    <3>1. MergedUpTo <= fetched /\ MergedUpTo \in Int /\ fetched \in Int
      BY <1>0 DEF Pipeline, MergedUpTo, Held, TypeOK, Batched
    <3>2. \A t \in Tx : BatchOf[t] \in Int
      BY DEF Batches
    <3>3. \A t \in merged : t \notin BatchTxs(fetched + 1)
      BY <1>0, <3>1, <3>2 DEF Pipeline, BatchTxs
    <3> QED BY <1>0, <1>3, <3>3, Zenon DEF LocalConstruct
  <2> QED BY <1>0, <1>3, <2>1, ZenonT(40) DEF Homes, Queued, Returned, LocalConstruct
<1>4. CASE GConstruct
  <2>1. \A t \in BatchTxs(gBatch) : t \in Tx /\ t \notin merged
    <3>1. MergedUpTo \in Int /\ \A t \in Tx : BatchOf[t] \in Int
      BY <1>0 DEF MergedUpTo, Held, TypeOK, Batched, Batches
    <3> QED BY <1>0, <1>4, <3>1 DEF GConstruct, Pipeline, BatchTxs
  <2>2. \A t \in merged : dependsOn'[t] = dependsOn[t]
    BY <1>0, <1>4, <2>1, Zenon DEF GConstruct
  <2>3. \A t \in gFree' : t \in Tx /\ t \notin merged /\ t \in merged' /\ t \notin done /\ dependsOn'[t] = {}
    BY <1>0, <1>4, <2>1, Zenon DEF GConstruct, Graph
  <2>4. /\ UNCHANGED <<vFreed, freed, oBatch, outq, inFlight, validatedq, vNodes, vpc, done>>
        /\ merged \subseteq merged'
        /\ gpc' # "send" => gFree' = {}
    BY ZenonT(30), <1>4 DEF GConstruct
  <2> QED BY <1>0, <2>2, <2>3, <2>4 DEF Homes, Queued, Returned
<1>5. CASE GSend
  BY <1>0, <1>5 DEF Homes, Queued, Returned, GSend
<1>6. ASSUME NEW S \in validatedq, VRead(S) PROVE Homes'
  BY <1>0, <1>6, ZenonT(40) DEF Homes, Queued, Returned, VRead
<1>7. ASSUME NEW n \in vNodes, VFree(n) PROVE Homes'
  <2>1. CASE n \notin Tx
    BY <1>0, <1>7, <2>1 DEF Homes, Queued, Returned, VFree
  <2>2. CASE n \in Tx
    <3>1. n \in merged /\ n \notin done
      BY <1>0, <2>2, Zenon DEF Homes
    <3>2. dependents[n] = {t \in Tx : n \in dependsOn[t]}
      BY <1>0, <2>2, <3>1, Zenon DEF Graph
    <3>3. \A t \in FreedBy(n) : t \in Tx /\ dependsOn[t] = {n} /\ dependsOn'[t] = {}
      BY <1>0, <1>7, <2>2, <3>2, ZenonT(40) DEF FreedBy, VFree
    <3>4. \A t \in FreedBy(n) : t \in merged /\ t \notin done /\ t # n
      <4>1. \A t \in FreedBy(n) : t \notin done /\ t # n
        BY <1>0, <2>2, <3>3 DEF Graph, Homes
      <4>2. ASSUME NEW t \in FreedBy(n), t \notin merged PROVE FALSE
        <5>1. n \in OwnConflicts(t)
          BY <1>0, <3>3, <4>2 DEF Graph
        <5>2. n \in Tx /\ BatchOf[n] = BatchOf[t]
          BY <5>1, ZenonT(40) DEF OwnConflicts, BatchTxs
        <5> QED BY <1>0, <3>1, <3>3, <4>2, <5>2, ZenonT(40) DEF Pipeline
      <4> QED BY <4>1, <4>2, Zenon
    <3>5. \A t \in Tx : dependsOn[t] = {} => dependsOn'[t] = {}
      BY <1>0, <1>7, <2>2 DEF VFree
    <3>6. /\ vFreed' = vFreed \cup FreedBy(n) /\ done' = done \cup {n} /\ vNodes' = vNodes \ {n}
          /\ UNCHANGED <<gFree, gpc, freed, oBatch, outq, inFlight, validatedq, merged>>
          /\ vpc' \notin {"lock", "locked"} => vNodes' = {}
      BY <1>7, <2>2, Zenon DEF VFree
    <3> QED BY <1>0, <3>1, <3>3, <3>4, <3>5, <3>6 DEF Homes, Queued, Returned
  <2> QED BY <2>1, <2>2, Zenon
<1>8. CASE VAdd
  BY <1>0, <1>8, Zenon DEF Homes, Queued, Returned, VAdd
<1>9. CASE OTake
  BY <1>0, <1>9, Zenon DEF Homes, Queued, Returned, OTake
<1>10. CASE OSend
  <2>1. /\ outq' = outq \cup {oBatch} /\ oBatch' = {}
        /\ UNCHANGED <<gFree, gpc, vFreed, vpc, freed, inFlight, validatedq, vNodes, merged, done, dependsOn>>
    BY <1>10, ZenonT(40) DEF OSend
  <2>2. \A S \in outq : S \cap oBatch = {}
    BY <1>0 DEF Homes, Queued, TypeOK
  <2>3. \A S, T \in outq' : S # T => S \cap T = {}
    BY <1>0, <2>1, <2>2 DEF Homes
  <2>4. \A t : Queued(t)' <=> Queued(t) \/ t \in oBatch
    BY <2>1, Zenon DEF Queued
  <2>5. \A t : Returned(t)' <=> Returned(t)
    BY <2>1, Zenon DEF Returned
  <2> QED BY <1>0, <2>1, <2>3, <2>4, <2>5, Zenon DEF Homes
<1>11. ASSUME NEW S \in outq, Dispatch(S) PROVE Homes'
  BY <1>0, <1>11, ZenonT(40) DEF Homes, Queued, Returned, Dispatch
<1>12. ASSUME NEW S \in SUBSET inFlight, Finalize(S) PROVE Homes'
  BY <1>0, <1>12 DEF Homes, Queued, Returned, Finalize
<1> QED BY <1>1, <1>2, <1>3, <1>4, <1>5, <1>6, <1>7, <1>8, <1>9, <1>10, <1>11, <1>12, ZenonT(40)
        DEF Next, Global, Validated, Output, Downstream

-----------------------------------------------------------------------------
(* The theorems *)

\* newGlobalDependencyManager starts with an empty graph, where the invariant
\* holds.
LEMMA InitIInv == Init /\ UniqueReads => IInv
<1> SUFFICES ASSUME Init, UniqueReads PROVE IInv
  BY Zenon
<1> USE ConstantsAssumption, BatchAssumption
<1>1. rw \in [Tx -> RWKeys]
  BY WorkloadAssumption, Zenon DEF Init
<1>2. TypeOK
  <2>1. <<>> \in Seq(Batches)
    OBVIOUS
  <2>2. detector \in Detectors
    BY Zenon DEF Init, EmptyDetector, Detectors
  <2>3. worker \in [Worker -> Batched] /\ 0 \in Batched
    BY DEF Init, Batched
  <2>4. dependsOn \in [Tx -> SUBSET Tx] /\ dependents \in [Tx -> SUBSET Tx] /\ available \in Int
    BY DEF Init
  <2> QED BY ZenonT(30), <1>1, <2>1, <2>2, <2>3, <2>4 DEF Init, TypeOK, Detectors
<1>3. merged = {} /\ Waiting = {} /\ MergedUpTo = 0 /\ Held = 0 /\ Len(gdgIn) = 0
  <2>1. gdgIn = <<>> /\ gpc = "read" /\ lastOutputtedID = 0 /\ merged = {}
    BY Zenon DEF Init
  <2>2. Len(gdgIn) = 0 /\ Held = 0
    BY <2>1, Zenon DEF Held
  <2>3. MergedUpTo = 0
    <3>1. lastOutputtedID = 0
      BY <2>1, Zenon
    <3> QED BY <2>2, <3>1 DEF MergedUpTo
  <2>4. Waiting = {}
    BY <2>1, Zenon DEF Waiting
  <2> QED BY <2>1, <2>2, <2>3, <2>4, Zenon
<1>4. Pipeline
  <2>1. {t \in Tx : BatchOf[t] <= 0} = {}
    BY DEF Batches
  <2>2. \A w \in Worker : worker[w] = 0
    BY Zenon DEF Init
  <2>3. lastOutputtedID = 0 /\ fetched = 0 /\ submitted = 0 /\ gpc = "read"
    BY Zenon DEF Init
  <2> QED BY <1>3, <2>1, <2>2, <2>3 DEF Pipeline
<1>5. detector = DetectorOf(Waiting)
  BY <1>3, Zenon DEF Init, EmptyDetector, DetectorOf
<1>6. Graph
  BY <1>3, <1>5 DEF Init, Graph, DetectorExact, EdgesExact, Batches
<1>7. Homes
  BY Zenon DEF Init, Homes, Queued, Returned
<1> QED BY <1>2, <1>4, <1>6, <1>7, Zenon DEF IInv

\* IInv holds in every reachable state: batches reach the graph in order
\* (Pipeline), edges and detector are exact (Graph) and no transaction is in
\* two places (Homes).
THEOREM Invariance == Spec /\ UniqueReads => []IInv
<1>1. Init /\ UniqueReads => IInv
  BY InitIInv, Zenon
<1>2. IInv /\ [Next]_vars => IInv'
  BY TypeStep, PipelineStep, GraphStep, HomesStep, Zenon DEF IInv
<1> QED BY <1>1, <1>2, PTL DEF Spec

\* Every variable of the graph keeps its type.
THEOREM TypeCorrect == Spec /\ UniqueReads => []TypeOK
  BY Invariance, PTL DEF IInv

\* In every reachable state a transaction in the graph waits exactly for the
\* earlier conflicting transactions still in the graph.
THEOREM EdgesAlwaysExact == Spec /\ UniqueReads => []EdgesExact
<1>1. IInv => EdgesExact
  BY ZenonT(30) DEF IInv, Graph
<1> QED BY <1>1, Invariance, PTL

\* In every reachable state the global detector holds the keys of exactly the
\* transactions in the graph.
THEOREM DetectorAlwaysExact == Spec /\ UniqueReads => []DetectorExact
<1>1. IInv => DetectorExact
  BY Zenon DEF IInv, Graph
<1> QED BY <1>1, Invariance, PTL

-----------------------------------------------------------------------------
(* DependencyGraph implements ConflictOrder: the mapping is Order, and every *)
(* step either releases, finalizes or stutters.                              *)

\* A transaction that waits for nothing conflicts only with earlier ones that
\* are finalized.
LEMMA FreeMeansFinalized ==
    ASSUME IInv, NEW t \in merged \ done, dependsOn[t] = {}, NEW u \in Tx, u < t, Order!Conflict(u, t)
    PROVE  u \in Finalized
<1> USE BatchAssumption
<1>1. merged = {v \in Tx : BatchOf[v] <= MergedUpTo} /\ t \in Tx
  BY Zenon DEF IInv, Pipeline
<1>2. BatchOf[u] <= BatchOf[t] /\ BatchOf[u] \in Int /\ BatchOf[t] \in Int
  BY <1>1 DEF Batches
<1>3. MergedUpTo \in Int
  BY DEF IInv, TypeOK, MergedUpTo, Held, Batched
<1>4. u \in merged
  BY <1>1, <1>2, <1>3
<1>5. u \notin Waiting
  BY Zenon DEF IInv, Graph, EdgesExact, Waiting
<1> QED BY <1>4, <1>5, Zenon DEF Waiting, Finalized

\* Every step of the graph releases transactions whose earlier conflicting
\* transactions are finalized, finalizes released ones, or does neither.
LEMMA OrderStep == IInv /\ [Next]_vars => [Order!Next]_(Order!vars)
<1> SUFFICES ASSUME IInv, [Next]_vars PROVE [Order!Next]_(Order!vars)
  BY Zenon
<1> USE DEF vars, input, local, graph, construct, validated, output, env
<1>0. TypeOK /\ Graph /\ Homes
  BY Zenon DEF IInv
<1>1. rw' = rw
  BY ZenonT(30) DEF Next, Submit, SubmitRejected, LocalConstruct, LocalOutput, Global, GRead, GAcquire,
         GConstruct, GSend, Validated, VRead, VFree, VAdd, VStore, VSignal, Output, OCas, OWait,
         OTake, OSend, Downstream, Dispatch, Finalize
<1>2. ASSUME NEW S \in SUBSET Tx, S \cap Released = {},
             \A t \in S : t \in merged \ done /\ dependsOn[t] = {},
             Released' = Released \cup S, Finalized' = Finalized
      PROVE  [Order!Next]_(Order!vars)
  <2>1. \A t \in S, u \in Tx : u < t /\ Order!Conflict(u, t) => u \in Finalized
    BY <1>2, FreeMeansFinalized, Zenon
  <2>2. CASE S = {}
    BY <1>1, <1>2, <2>2, Zenon DEF Order!vars
  <2>3. CASE S # {}
    BY <1>1, <1>2, <2>1, <2>3, Zenon DEF Order!Next, Order!Release, Order!Tx, Tx
  <2> QED BY <2>2, <2>3, Zenon
<1>3. ASSUME UNCHANGED <<outq, inFlight, validatedq, vNodes, done>>
      PROVE  [Order!Next]_(Order!vars)
  BY <1>1, <1>3, Zenon DEF Order!vars, Released, Finalized
<1>4. CASE GSend
  <2>1. \A t \in gFree : t \in Tx /\ t \notin Released /\ t \in merged \ done /\ dependsOn[t] = {}
    BY <1>0, Zenon DEF Homes, TypeOK, Released, Queued, Returned
  <2>2. Released' = Released \cup gFree /\ Finalized' = Finalized
    BY <1>4, <2>1, ZenonT(30) DEF GSend, Released, Finalized
  <2> QED BY <1>2, <2>1, <2>2, Zenon
<1>5. CASE OSend
  <2>1. \A t \in oBatch : t \in Tx /\ t \notin Released /\ t \in merged \ done /\ dependsOn[t] = {}
    BY <1>0, Zenon DEF Homes, TypeOK, Released, Queued, Returned
  <2>2. Released' = Released \cup oBatch /\ Finalized' = Finalized
    BY <1>5, <2>1, ZenonT(30) DEF OSend, Released, Finalized
  <2> QED BY <1>2, <2>1, <2>2, ZenonT(30)
<1>6. ASSUME Released' = Released, Finalized' = Finalized PROVE [Order!Next]_(Order!vars)
  BY <1>1, <1>6, Zenon DEF Order!vars
<1>7. ASSUME NEW r \in rejectedLeft, SubmitRejected(r) PROVE [Order!Next]_(Order!vars)
  <2>1. r \notin Tx
    BY <1>0, RejectedAssumption, Zenon DEF TypeOK
  <2> QED BY <1>6, <1>7, <2>1, ZenonT(40) DEF SubmitRejected, Released, Finalized
<1>8. ASSUME NEW S \in validatedq, VRead(S) PROVE [Order!Next]_(Order!vars)
  <2>1. vNodes = {}
    BY <1>0, <1>8, Zenon DEF Homes, VRead
  <2> QED BY <1>6, <1>8, <2>1 DEF VRead, Released, Finalized
<1>9. ASSUME NEW n \in vNodes, VFree(n) PROVE [Order!Next]_(Order!vars)
  <2>1. Tx \cap (vNodes' \cup done') = Tx \cap (vNodes \cup done)
    BY <1>9, ZenonT(40) DEF VFree
  <2> QED BY <1>6, <1>9, <2>1, ZenonT(30) DEF VFree, Released, Finalized
<1>10. ASSUME NEW S \in outq, Dispatch(S) PROVE [Order!Next]_(Order!vars)
  BY <1>6, <1>10 DEF Dispatch, Released, Finalized
<1>11. ASSUME NEW S \in SUBSET inFlight, Finalize(S) PROVE [Order!Next]_(Order!vars)
  <2>1. Released' = Released /\ Finalized' = Finalized \cup (S \cap Tx)
    BY <1>11 DEF Finalize, Released, Finalized
  <2>2. S \cap Tx \subseteq Released \ Finalized
    BY <1>0, <1>11, Zenon DEF Homes, Released, Finalized, Returned, Queued
  <2>3. CASE S \cap Tx = {}
    BY <1>6, <2>1, <2>3, Zenon
  <2>4. CASE S \cap Tx # {}
    BY ZenonT(30), <1>1, <2>1, <2>2, <2>4 DEF Order!Next, Order!Finalize, Order!Tx, Tx
  <2> QED BY <2>3, <2>4, ZenonT(40)
<1> QED BY ZenonT(30), <1>3, <1>4, <1>5, <1>7, <1>8, <1>9, <1>10, <1>11
        DEF Next, Submit, LocalConstruct, LocalOutput, Global, GRead, GAcquire, GConstruct,
            Validated, VAdd, VStore, VSignal, Output, OCas, OWait, OTake, Downstream

\* The graph implements ConflictOrder: every transaction is released once and
\* only after every earlier transaction it conflicts with is finalized.
THEOREM Refinement == Spec /\ UniqueReads => ImplementsConflictOrder
<1>1. Init => Order!Init
  BY Zenon DEF Init, Order!Init, Released, Finalized
<1>2. IInv /\ [Next]_vars => [Order!Next]_(Order!vars)
  BY OrderStep, Zenon
<1> QED BY <1>1, <1>2, Invariance, PTL DEF Spec, ImplementsConflictOrder, Order!Spec
==============================================================================
