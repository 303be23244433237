------------------------------- MODULE MCRelay -------------------------------
(* Instances of Relay for TLC. *)
EXTENDS Relay

T(i, k) == [id |-> i, kind |-> k]

\* Ids that come back in later blocks, a rejected one among them, a transaction
\* without an id, a config block, a block with two snapshot transactions, one
\* with two of which the first repeats an id, a
\* checkpoint beside a transaction, and a block without data.
AllKinds ==
    << <<T("a", "tx"), T("", "bad")>>, <<T("a", "tx"), T("b", "stored")>>, <<T("c", "config")>>,
       <<T("b", "tx"), T("s", "snapshot"), T("u", "snapshot")>>,
       <<T("s", "snapshot"), T("v", "snapshot")>>,
       <<T("d", "tx"), T("k", "checkpoint")>>, <<>> >>

==============================================================================
