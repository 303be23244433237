----------------------------- MODULE MCNotifier ------------------------------
(* Instances of Notifier for TLC. *)
EXTENDS Notifier

CONSTANTS s1, s2, b1

\* A request for one id, one with a repeated id, and one over the limit.
Lists == {<<"t1">>, <<"t2", "t2", "t1">>, <<"t1", "t2", "t1", "t2">>}
Ends == {{"t1"}, {"t1", "t2"}}

Filters == [b \in {b1} |-> {"n1"}]
Statuses == [b \in {b1} |-> {"ok"}]
Tx(id, status, namespaces) == [id |-> id, status |-> status, namespaces |-> namespaces]
Chain == << <<Tx("t1", "ok", {"n1", "n2"}), Tx("t2", "aborted", {"n1"}), Tx("t3", "ok", {"n2"})>>,
            <<Tx("t4", "ok", {"n1"})>>, <<>> >>

==============================================================================
