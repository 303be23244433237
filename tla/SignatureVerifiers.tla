-------------------------- MODULE SignatureVerifiers --------------------------
(***************************************************************************)
(* The signature check of transactions: the manager of the verifiers in the *)
(* coordinator (service/coordinator/signature_verifier_manager.go), the     *)
(* policies it hands out (policy_manager.go), and the verifier service      *)
(* (service/verifier).  A policy that a transaction commits must reach the  *)
(* verifier of every transaction that depends on it, with streams that fail *)
(* and a coordinator that restarts.                                         *)
(*                                                                         *)
(* The dependency graph and the validator-committers are as this manager    *)
(* sees them: a transaction is released when the earlier ones it conflicts  *)
(* with are finished, and the first status stored for it is its answer.     *)
(***************************************************************************)
EXTENDS Integers, Sequences, FiniteSets, SequencesExt

CONSTANTS
  Deployments,     \* the sets of verifier services that may be configured
  Namespaces,      \* the application namespaces
  Chains,          \* the sequences of transactions that may be ordered
  QueueSize,       \* capacity of txBatchQueue and of outgoingValidatedTxs
  Parallelism,     \* workers of an executor
  BatchSizeCutoff, \* largest batch of statuses
  MaxFaults        \* bound on failed streams and restarts

\* A transaction has a block, a kind, what it sets (the configuration, or the policy of
\* namespace ns), and the verifiers that its endorsements satisfy.
Kinds == {"config", "meta", "data"}

ASSUME VerifiersAssumption ==
  /\ \A chain \in Chains, i \in 1..10 : i \in DOMAIN chain => chain[i].kind \in Kinds
  /\ QueueSize \in Nat \ {0} /\ Parallelism \in Nat \ {0} /\ BatchSizeCutoff \in Nat \ {0}
  /\ MaxFaults \in Nat

VARIABLES
  chain,    \* the ordered transactions
  first,    \* the first one the sidecar sent to this coordinator
  acked,    \* the length of the prefix that the sidecar knows to be finished
  loading,  \* of the coordinator's start: "policies", "config", "ready"
  read,     \* the policies read by getNamespacePolicies
  pm,       \* the policyManager
  released, \* nodes the dependency graph has passed on
  updated,  \* nodes answered by a VC, on their way to the dependency graph
  finished, \* nodes that left the dependency graph
  queue,    \* txBatchQueue
  sv,       \* the signatureVerifier of each endpoint
  invalid,  \* nodes with a PrelimInvalidTxStatus
  out,      \* outgoingValidatedTxs
  server,   \* the executor of the stream of each verifier
  vcs,      \* transactions in the VCs, with their preliminary status
  strays,   \* those of a stopped coordinator
  stored,   \* the statuses in the database
  faults

graph == <<released, updated, finished>>
manager == <<queue, sv, invalid, out>>
session == <<chain, first, acked, loading, read, pm>>
committers == <<vcs, strays, stored>>
vars == <<session, graph, manager, server, committers, faults>>

None == "none"
NoScheme == "NONE"
NoVerifier == [rule |-> None, ids |-> None]
Meta == "_meta"
Ids == DOMAIN chain
Verifiers == DOMAIN sv
Spaces == Namespaces \cup {Meta}

newPolicyManager == [latest |-> 0, policies |-> [n \in Namespaces |-> None],
                     versions |-> [n \in Namespaces |-> 0], config |-> None, configVersion |-> 0]

newSignatureVerifier == [stream |-> "down", being |-> {}, holding |-> {}, validated |-> {},
                         policyVersion |-> 0, firstBatch |-> TRUE]

newParallelExecutor == [wire |-> <<>>, bundle |-> None, verifiers |-> [n \in Spaces |-> NoVerifier],
                        input |-> {}, working |-> {}, outputs |-> {}, responses |-> <<>>]

Init ==
  /\ chain \in Chains
  /\ first = 1 /\ acked = 0 /\ loading = "policies" /\ read = [n \in Namespaces |-> None]
  /\ pm = newPolicyManager
  /\ released = {} /\ updated = {} /\ finished = {}
  /\ queue = <<>> /\ invalid = {} /\ out = <<>>
  /\ \E V \in Deployments : /\ sv = [v \in V |-> newSignatureVerifier]
                            /\ server = [v \in V |-> newParallelExecutor]
  /\ vcs = {} /\ strays = {} /\ stored = [i \in DOMAIN chain |-> None]
  /\ faults = 0

-----------------------------------------------------------------------------
(* The policy manager.                                                      *)

\* update: one new version for everything the update carries; rules has the policies by
\* namespace, or None.
update(config, rules) ==
  LET empty == config = None /\ \A n \in Namespaces : rules[n] = None
      version == pm.latest + 1
  IN IF empty THEN pm
     ELSE [latest |-> version,
           policies |-> [n \in Namespaces |-> IF rules[n] # None THEN rules[n] ELSE pm.policies[n]],
           versions |-> [n \in Namespaces |-> IF rules[n] # None THEN version ELSE pm.versions[n]],
           config |-> IF config # None THEN config ELSE pm.config,
           configVersion |-> IF config # None THEN version ELSE pm.configVersion]

\* The policies that a transaction sets.
rulesOf(i) == [n \in Namespaces |->
                 IF chain[i].kind = "meta" /\ chain[i].ns = n THEN chain[i].sets ELSE None]
configOf(i) == IF chain[i].kind = "config" THEN chain[i].sets ELSE None

updateFromTx(i) == update(configOf(i), rulesOf(i))

getUpdates(version) ==
  [config |-> IF version < pm.configVersion THEN pm.config ELSE None,
   rules |-> [n \in Namespaces |-> IF version < pm.versions[n] THEN pm.policies[n] ELSE None]]

noUpdate == [config |-> None, rules |-> [n \in Namespaces |-> None]]

\* The coordinator's start reads the policies of the last committed meta transactions, and
\* then the last committed configuration.
committed(kind, n) == {i \in Ids : stored[i] = "committed" /\ chain[i].kind = kind /\ chain[i].ns = n}
Newest(S) == IF S = {} THEN None ELSE chain[CHOOSE i \in S : \A j \in S : j <= i].sets

readNamespacePolicies == [n \in Namespaces |-> Newest(committed("meta", n))]
readConfigTX == Newest(committed("config", Meta))

getNamespacePolicies ==
  /\ loading = "policies"
  /\ read' = readNamespacePolicies
  /\ loading' = "config"
  /\ UNCHANGED <<chain, first, acked, pm, graph, manager, server, committers, faults>>

recoverPolicyManagerFromStateDB ==
  /\ loading = "config"
  /\ pm' = update(readConfigTX, read)
  /\ loading' = "ready"
  /\ UNCHANGED <<chain, first, acked, read, graph, manager, server, committers, faults>>

-----------------------------------------------------------------------------
(* The dependency graph.  A data transaction reads the version of its       *)
(* namespace, which a meta transaction writes; the sidecar sends a           *)
(* configuration alone.                                                     *)

Conflict(i, j) ==
  \/ "config" \in {chain[i].kind, chain[j].kind}
  \/ chain[i].ns = chain[j].ns /\ "meta" \in {chain[i].kind, chain[j].kind}

Free == {i \in Ids : /\ i >= first /\ i \notin released
                     /\ \A j \in first..(i - 1) : Conflict(j, i) => j \in finished}

ingestIncomingTxsToInternalQueue ==
  /\ loading = "ready" /\ Len(queue) < QueueSize
  /\ \E S \in SUBSET Free \ {{}} :
       /\ queue' = Append(queue, S)
       /\ released' = released \cup S
  /\ UNCHANGED <<session, updated, finished, sv, invalid, out, server, committers, faults>>

-----------------------------------------------------------------------------
(* The manager's end of a stream.                                           *)

StartStream(v) ==
  /\ sv[v].stream = "down"
  /\ sv' = [sv EXCEPT ![v].stream = "up", ![v].policyVersion = 0, ![v].firstBatch = TRUE]
  /\ server' = [server EXCEPT ![v] = newParallelExecutor]
  /\ UNCHANGED <<session, graph, queue, invalid, out, committers, faults>>

\* sendTransactionsToSVService takes a batch and tracks it before it sends it.
ReadBatch(v) ==
  /\ sv[v].stream = "up" /\ sv[v].holding = {} /\ queue # <<>>
  /\ sv' = [sv EXCEPT ![v].holding = Head(queue), ![v].being = @ \cup Head(queue)]
  /\ queue' = Tail(queue)
  /\ UNCHANGED <<session, graph, invalid, out, server, committers, faults>>

\* Which of the n parts of the first batch carries the update.
carriesUpdate_Last(k, n) == k = n
carriesUpdate(k, n) == k = 1

\* splitAndSendToVerifier: the first batch of a stream goes out by block, in any order.
splits(S, u) ==
  LET blocks == {chain[i].block : i \in S}
  IN {[k \in 1..Cardinality(blocks) |->
         [txs |-> {i \in S : chain[i].block = order[k]},
          update |-> IF carriesUpdate(k, Cardinality(blocks)) THEN u ELSE noUpdate]] :
      order \in SetToSeqs(blocks)}

SendBatch(v) ==
  LET S == sv[v].holding
      u == getUpdates(sv[v].policyVersion)
  IN /\ S # {}
     /\ sv' = [sv EXCEPT ![v].holding = {}, ![v].policyVersion = pm.latest, ![v].firstBatch = FALSE]
     /\ \E parts \in IF sv[v].firstBatch THEN splits(S, u) ELSE {<<[txs |-> S, update |-> u]>>} :
          server' = IF sv[v].stream = "up" THEN [server EXCEPT ![v].wire = @ \o parts] ELSE server
     /\ UNCHANGED <<session, graph, queue, invalid, out, committers, faults>>

\* fetchAndDeleteTxBeingValidated: the preliminary status of a node is never reset.
Receive(v) ==
  LET response == Head(server[v].responses)
      known == {r \in response : r.tx \in sv[v].being}
  IN /\ sv[v].stream = "up" /\ sv[v].validated = {} /\ server[v].responses # <<>>
     /\ sv' = [sv EXCEPT ![v].being = @ \ {r.tx : r \in known}, ![v].validated = {r.tx : r \in known}]
     /\ invalid' = invalid \cup {r.tx : r \in {k \in known : ~k.valid}}
     /\ server' = [server EXCEPT ![v].responses = Tail(@)]
     /\ UNCHANGED <<session, graph, queue, out, committers, faults>>

Forward(v) ==
  /\ sv[v].validated # {} /\ Len(out) < QueueSize
  /\ out' = Append(out, sv[v].validated)
  /\ sv' = [sv EXCEPT ![v].validated = {}]
  /\ UNCHANGED <<session, graph, queue, invalid, server, committers, faults>>

\* A write that the end of the stream cancels gives the nodes back.
returned_Dropped(v) == {}
returned(v) == sv[v].validated

ForwardCancelled(v) ==
  /\ sv[v].validated # {} /\ sv[v].stream = "ended"
  /\ sv' = [sv EXCEPT ![v].being = @ \cup returned(v), ![v].validated = {}]
  /\ UNCHANGED <<session, graph, queue, invalid, out, server, committers, faults>>

stillBeing_Kept(v) == sv[v].being
stillBeing(v) == {}

\* Both goroutines have returned; what is pending goes back to the queue as one batch.
recoverPendingTransactions(v) ==
  /\ sv[v].stream = "ended" /\ sv[v].holding = {} /\ sv[v].validated = {}
  /\ sv[v].being # {} => Len(queue) < QueueSize
  /\ queue' = IF sv[v].being = {} THEN queue ELSE Append(queue, sv[v].being)
  /\ sv' = [sv EXCEPT ![v].stream = "down", ![v].being = stillBeing(v)]
  /\ UNCHANGED <<session, graph, invalid, out, server, committers, faults>>

-----------------------------------------------------------------------------
(* The verifier service.                                                    *)

\* A system namespace has its policy and its identities from the configuration; any other
\* has its own policy over these identities.
ParseChannelPolicy(bundle) == [rule |-> bundle, ids |-> bundle]
NewNsVerifier(rule, bundle) == [rule |-> rule, ids |-> bundle]

\* The sidecar's form check rejects a policy that cannot be parsed.
CreateNamespaceVerifier(rule, bundle) == IF rule = None THEN NoVerifier ELSE NewNsVerifier(rule, bundle)

\* createVerifiers with the configuration that updateBundle leaves.
created(v, u) ==
  LET bundle == IF u.config # None THEN u.config ELSE server[v].bundle
  IN [n \in Spaces |->
        CASE n # Meta -> CreateNamespaceVerifier(u.rules[n], bundle)
          [] n = Meta -> IF u.config # None THEN ParseChannelPolicy(bundle) ELSE NoVerifier]

\* UpdateIdentities of a kept verifier, in place; without a scheme there is none to update.
identities(nv, config) == IF config = None \/ nv = NoVerifier THEN nv ELSE [nv EXCEPT !.ids = config]

kept(v, u) == {n \in Spaces : server[v].verifiers[n] # NoVerifier /\ created(v, u)[n] = NoVerifier}
panics(v, u) == \/ u.config # None /\ \E n \in kept(v, u) : server[v].verifiers[n].rule = NoScheme
                \/ u.config = None /\ u # noUpdate /\ server[v].bundle = None

updatePolicies(v, u) ==
  [n \in Spaces |->
     IF n \in kept(v, u) THEN identities(server[v].verifiers[n], u.config) ELSE created(v, u)[n]]

handleInputs(v) ==
  LET batch == Head(server[v].wire)
      u == batch.update
  IN /\ server[v].wire # <<>>
     /\ IF panics(v, u)
        THEN /\ sv' = [sv EXCEPT ![v].stream = "ended"]
             /\ server' = [server EXCEPT ![v] = newParallelExecutor]
        ELSE /\ server' = [server EXCEPT
                  ![v].wire = Tail(@),
                  ![v].bundle = IF u.config # None THEN u.config ELSE @,
                  ![v].verifiers = updatePolicies(v, u),
                  ![v].working = {IF w.space \in kept(v, u)
                                  THEN [w EXCEPT !.by = identities(@, u.config)] ELSE w : w \in @},
                  ![v].input = @ \cup batch.txs]
             /\ UNCHANGED sv
     /\ UNCHANGED <<session, graph, queue, invalid, out, committers, faults>>

\* A worker loads the map of verifiers, and verifies with it later.
space(i) == IF chain[i].kind = "data" THEN chain[i].ns ELSE Meta

LoadVerifiers(v) ==
  /\ Cardinality(server[v].working) < Parallelism
  /\ \E i \in server[v].input :
       server' = [server EXCEPT ![v].input = @ \ {i},
                                ![v].working = @ \cup {[tx |-> i, space |-> space(i),
                                                        by |-> server[v].verifiers[space(i)]]}]
  /\ UNCHANGED <<session, graph, manager, committers, faults>>

evaluateEndorsements(i, nv) == nv \in chain[i].signed

VerifyNs(i, nv) == nv.rule = NoScheme \/ evaluateEndorsements(i, nv)

verifyRequest(i, nv) == chain[i].kind = "config" \/ (nv # NoVerifier /\ VerifyNs(i, nv))

handleChannelInput(v) ==
  /\ \E w \in server[v].working :
       server' = [server EXCEPT ![v].working = @ \ {w},
                                ![v].outputs = @ \cup {[tx |-> w.tx, valid |-> verifyRequest(w.tx, w.by)]}]
  /\ UNCHANGED <<session, graph, manager, committers, faults>>

\* The batches of outputs go to the stream in the order they were cut.
handleOutputs(v, S) == Append(server[v].responses, S)

\* The timer may cut at any time, and workers hand in their outputs in any order.
handleCutoff(v) ==
  /\ \E S \in SUBSET server[v].outputs \ {{}} :
       /\ Cardinality(S) <= BatchSizeCutoff
       /\ server' = [server EXCEPT ![v].outputs = @ \ S, ![v].responses = handleOutputs(v, S)]
  /\ UNCHANGED <<session, graph, manager, committers, faults>>

-----------------------------------------------------------------------------
(* The validator-committers and the way back to the dependency graph.       *)

SendToVC ==
  /\ out # <<>>
  /\ vcs' = vcs \cup {[tx |-> i, valid |-> i \notin invalid] : i \in Head(out)}
  /\ out' = Tail(out)
  /\ UNCHANGED <<session, graph, queue, sv, invalid, server, strays, stored, faults>>

Commit ==
  /\ \E r \in vcs \cup strays :
       /\ stored[r.tx] = None
       /\ stored' = [stored EXCEPT ![r.tx] = IF r.valid THEN "committed" ELSE "aborted"]
  /\ UNCHANGED <<session, graph, manager, server, vcs, strays, faults>>

setsPolicies_Always(status) == TRUE
setsPolicies(status) == status = "committed"

getTxsAndUpdatePolicies ==
  /\ \E r \in vcs :
       /\ stored[r.tx] # None
       /\ vcs' = vcs \ {r}
       /\ pm' = IF setsPolicies(stored[r.tx]) THEN updateFromTx(r.tx) ELSE pm
       /\ updated' = updated \cup {r.tx}
  /\ UNCHANGED <<chain, first, acked, loading, read, released, finished, manager, server,
                 strays, stored, faults>>

FreeDependents ==
  /\ \E i \in updated :
       /\ updated' = updated \ {i}
       /\ finished' = finished \cup {i}
  /\ UNCHANGED <<session, released, manager, server, committers, faults>>

-----------------------------------------------------------------------------
(* Faults.                                                                  *)

\* A verifier stops, or several streams are lost with the network.
StreamsFail(V) ==
  /\ V # {} /\ \A v \in V : sv[v].stream = "up"
  /\ faults < MaxFaults
  /\ sv' = [v \in Verifiers |-> IF v \in V THEN [sv[v] EXCEPT !.stream = "ended"] ELSE sv[v]]
  /\ server' = [v \in Verifiers |-> IF v \in V THEN newParallelExecutor ELSE server[v]]
  /\ faults' = faults + 1
  /\ UNCHANGED <<session, graph, queue, invalid, out, committers>>

\* The coordinator restarts with nothing; the VCs may still commit what they have, and the
\* sidecar sends again from some point of what it knows to be finished.
CoordinatorRestarts ==
  /\ faults < MaxFaults
  /\ faults' = faults + 1
  /\ LET done == {k \in Ids : k >= first /\ \A i \in first..k : i \in finished}
         known == IF done = {} THEN acked ELSE CHOOSE k \in done : \A j \in done : j <= k
     IN /\ acked' = IF known > acked THEN known ELSE acked
        /\ first' \in 1..(acked' + 1)
  /\ loading' = "policies" /\ read' = [n \in Namespaces |-> None] /\ pm' = newPolicyManager
  /\ released' = {} /\ updated' = {} /\ finished' = {}
  /\ queue' = <<>> /\ sv' = [v \in Verifiers |-> newSignatureVerifier]
  /\ invalid' = {} /\ out' = <<>>
  /\ server' = [v \in Verifiers |-> newParallelExecutor]
  /\ vcs' = {} /\ strays' = {r \in strays \cup vcs : stored[r.tx] = None}
  /\ UNCHANGED <<chain, stored>>

Internal ==
  \/ getNamespacePolicies \/ recoverPolicyManagerFromStateDB
  \/ ingestIncomingTxsToInternalQueue
  \/ \E v \in Verifiers :
       \/ StartStream(v) \/ ReadBatch(v) \/ SendBatch(v) \/ Receive(v) \/ Forward(v)
       \/ ForwardCancelled(v) \/ recoverPendingTransactions(v)
       \/ handleInputs(v) \/ LoadVerifiers(v) \/ handleChannelInput(v) \/ handleCutoff(v)
  \/ SendToVC \/ Commit \/ getTxsAndUpdatePolicies \/ FreeDependents

Next == Internal \/ CoordinatorRestarts \/ \E V \in SUBSET Verifiers : StreamsFail(V)

Spec == Init /\ [][Next]_vars

\* Every goroutine of a live process goes on.
FairSpec == Spec /\ WF_vars(Internal)

-----------------------------------------------------------------------------
(* Properties.                                                              *)

\* The configuration and the policies after the first k transactions, taken one at a time
\* in the order of the chain, and the status of each.
Serial[k \in 0..Len(chain)] ==
  IF k = 0 THEN [config |-> None, rules |-> [n \in Namespaces |-> None], valid |-> TRUE]
  ELSE LET before == Serial[k - 1]
           by == IF space(k) = Meta THEN [rule |-> before.config, ids |-> before.config]
                 ELSE [rule |-> before.rules[chain[k].ns], ids |-> before.config]
           ok == \/ chain[k].kind = "config"
                 \/ by.rule # None /\ VerifyNs(k, by)
       IN [config |-> IF ok /\ configOf(k) # None THEN configOf(k) ELSE before.config,
           rules |-> [n \in Namespaces |->
                        IF ok /\ rulesOf(k)[n] # None THEN rulesOf(k)[n] ELSE before.rules[n]],
           valid |-> ok]

\* A transaction is stored as valid exactly when its endorsements satisfy the policy and
\* the configuration that the transactions before it leave, whichever verifier checked it,
\* on a new stream or an old one, first or again (verify.go:133, policy_manager.go:95).
VerdictsSerial ==
  \A i \in Ids : stored[i] # None => (stored[i] = "committed") = Serial[i].valid

\* A node that the dependency graph released is in one place until it returns: in the
\* queue, in the map of one verifier, held by its receiver, on its way to the VCs or back
\* (signature_verifier_manager.go:286 and :321).
NodesExact ==
  \A i \in released :
    Cardinality({k \in DOMAIN queue : i \in queue[k]})
      + Cardinality({v \in Verifiers : i \in sv[v].being})
      + Cardinality({v \in Verifiers : i \in sv[v].validated})
      + Cardinality({k \in DOMAIN out : i \in out[k]})
      + Cardinality({r \in vcs : r.tx = i})
      + (IF i \in updated \cup finished THEN 1 ELSE 0) = 1

\* Once the coordinator has no transaction left, its policy manager has the configuration
\* and the policies of the whole chain, also after a restart that read them while a VC of
\* the stopped coordinator was still committing (validator_committer_api.go:54).
PoliciesExact ==
  (loading = "ready" /\ \A i \in Ids : i >= first => i \in finished) =>
    /\ pm.config = Serial[Len(chain)].config
    /\ pm.policies = Serial[Len(chain)].rules

\* Every transaction is verified, committed or aborted, and returned, unless every verifier
\* waits to put its pending transactions back into a queue that only it would empty
\* (signature_verifier_manager.go:336).
Finished == loading = "ready" /\ \A i \in Ids : i >= first => i \in finished
Jammed == /\ Len(queue) = QueueSize
          /\ \A v \in Verifiers : sv[v].stream = "ended" /\ sv[v].being # {} /\ sv[v].holding = {}
AllFinished == <>[]Finished \/ <>[]Jammed
=============================================================================
