------------------------ MODULE MCSnapshotLifecycle ------------------------
(* Instances of SnapshotLifecycle for TLC. *)
EXTENDS SnapshotLifecycle

Snapshot == [kind |-> "snapshot"]
Digest(s, content) == [kind |-> "digest", of |-> s, value |-> content]
Abort(s) == [kind |-> "abort", of |-> s]

History(blocks, bound) == [txs |-> blocks, failures |-> bound]

\* What the hash of the database before the second transaction is.
First == << <<1, "COMMITTED">> >>

\* A snapshot that is checkpointed, and another one after it; an abort behind a
\* digest that matches, and one behind a digest that does not; a request that is
\* rejected, with its row in a later snapshot.  Then, without failures, a
\* snapshot after an abort that may overtake a held digest.
Lifecycles ==
    {History(<<Snapshot, Digest(1, <<>>)>>, 1),
     History(<<Snapshot, Digest(1, <<>>), Snapshot>>, 1),
     History(<<Snapshot, Digest(1, <<>>), Abort(1)>>, 1),
     History(<<Snapshot, Digest(1, First), Abort(1)>>, 1),
     History(<<Snapshot, Snapshot, Abort(1), Snapshot>>, 1),
     History(<<Snapshot, Digest(1, <<>>), Abort(1), Snapshot>>, 0)}
=============================================================================
