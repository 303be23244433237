---------------------------- MODULE MCQueryViews -----------------------------
(* Instances of QueryViews for TLC. *)
EXTENDS QueryViews, TLC

CONSTANTS v1, v2, r1, r2

\* Two views with the same isolation level, a request on the first, and another
\* one on the same view or on the other, or a status query on none.
Levels == [v \in {v1, v2} |-> 0]
Call(v, n) == [view |-> v, namespaces |-> <<n>>]
OnViews == (r1 :> {Call(v1, "a")}) @@
           (r2 :> {Call(v1, "a"), Call(v2, "a"), Call(NoView, txStatusNsID)})

==============================================================================
