-------------------------- MODULE MCDependencyGraph --------------------------
(***************************************************************************)
(* Instances of DependencyGraph for TLC.                                   *)
(***************************************************************************)
EXTENDS DependencyGraph

CONSTANTS k1, k2

NoRead == [k \in Key |-> 0]
Access(reads, wo, ws) == [readsOnly |-> reads, writesOnly |-> wo, readsAndWrites |-> ws]
ReadsK(k) == Access([NoRead EXCEPT ![k] = 1], {}, {})
WritesK(k) == Access(NoRead, {k}, {})
UpdatesK(k) == Access(NoRead, {}, {k})

\* A chain through two keys, readers of one key beside a writer of the other,
\* independent transactions, and two mixes of accesses to one key.
Both == Access([NoRead EXCEPT ![k1] = 1], {k2}, {})
MixedWorkloads ==
    {<<WritesK(k1), WritesK(k2), Both, UpdatesK(k1)>>,
     <<ReadsK(k1), ReadsK(k1), UpdatesK(k1), WritesK(k2)>>,
     <<UpdatesK(k1), Both, ReadsK(k2), ReadsK(k1)>>,
     <<ReadsK(k1), WritesK(k1), ReadsK(k1), UpdatesK(k1)>>,
     <<WritesK(k1), ReadsK(k1), ReadsK(k1), WritesK(k1)>>}

\* A transaction that reads the entry of a namespace in _meta and also writes
\* in that namespace has the entry's key in its readsOnly list twice.
RepeatedReadWorkloads ==
    {<<Access([NoRead EXCEPT ![k1] = 2], {}, {}), ReadsK(k1), UpdatesK(k1)>>}

PairBatches == [t \in Tx |-> (t + 1) \div 2]
SingleBatches == [t \in Tx |-> t]
==============================================================================
