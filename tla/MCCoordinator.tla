---------------------------- MODULE MCCoordinator ----------------------------
(* Instances of Coordinator for TLC. *)
EXTENDS Coordinator

CONSTANTS t1, r1, r2, v1, v2

\* Two streams and a block of three transactions: more statuses than the status
\* queue and the blocked writer of one VC can hold.
Sessions ==
    [blocks |-> << [chunks |-> << {t1} >>, rejected |-> {r1, r2}] >>,
     held |-> {}, vcs |-> {v1}, sessions |-> 2, failures |-> 0]

\* Two streams and a held checkpoint.
Held == [Sessions EXCEPT !.blocks = << [chunks |-> << {t1} >>, rejected |-> {r1}] >>, !.held = {t1}]

\* Two VCs, one of which fails.
Failover ==
    [blocks |-> << [chunks |-> << {t1} >>, rejected |-> {r1}] >>,
     held |-> {}, vcs |-> {v1, v2}, sessions |-> 1, failures |-> 1]

\* One VC, which fails while more waits for it than its queue takes.
Alone == [Failover EXCEPT !.vcs = {v1}]

All == {Sessions, Held, Failover, Alone}
==============================================================================
