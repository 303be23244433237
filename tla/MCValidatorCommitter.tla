------------------------ MODULE MCValidatorCommitter ------------------------
(* Instances of ValidatorCommitter for TLC.                                *)
EXTENDS ValidatorCommitter

Tr(id, ro, rw, bw, prelim) ==
    [id |-> id, readsOnly |-> ro, readWrites |-> rw, blindWrites |-> bw, prelim |-> prelim]

\* An insert, an update of the version it leaves, a blind write, and a second
\* insert that comes too late, each in conflict with the others.
OneKey ==
    <<Tr("a", {}, {<<"k", -1>>}, {}, None),
      Tr("b", {}, {<<"k", 0>>}, {}, None),
      Tr("c", {}, {}, {"k"}, None),
      Tr("d", {}, {<<"k", -1>>}, {}, None)>>

\* Blind inserts, a read that is stale by then, a transaction the signature
\* verifier rejected, and a reused id.
Mixed ==
    <<Tr("a", {}, {}, {"k"}, None),
      Tr("b", {<<"k", -1>>}, {}, {"l"}, None),
      Tr("c", {}, {<<"k", -1>>}, {}, "ABORTED_SIGNATURE_INVALID"),
      Tr("a", {}, {<<"k", 0>>}, {}, None)>>

\* Two independent inserts, one of them blind, then a transaction that updates
\* both keys and reads one twice, and one that reads a key at two versions.
Pair ==
    <<Tr("a", {}, {}, {"k"}, None),
      Tr("b", {}, {<<"l", -1>>}, {}, None),
      Tr("c", {<<"k", 0>>}, {<<"k", 0>>, <<"l", 0>>}, {}, None),
      Tr("d", {<<"k", 0>>, <<"k", 1>>}, {<<"l", 1>>}, {}, None)>>

Chains == {[txs |-> OneKey, failures |-> 2], [txs |-> Mixed, failures |-> 2], [txs |-> Pair, failures |-> 1]}
=============================================================================
