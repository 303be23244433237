---------------------------- MODULE ConflictOrder ----------------------------
(***************************************************************************)
(* What the dependency graph promises to the rest of the coordinator       *)
(* (docs/coordinator.md, section 5): a transaction is released for         *)
(* validation once, and only after every earlier transaction it conflicts  *)
(* with is finalized.  Nothing is said of batches, locks, goroutines or    *)
(* detectors.                                                              *)
(***************************************************************************)
EXTENDS Naturals

CONSTANTS
    Key,        \* the composite keys (namespace, key) transactions touch
    NumTx,      \* number of transactions, numbered in submission order
    Workloads   \* the read-write sets a behaviour may start from

Tx == 1..NumTx

\* readWriteKeys: the keys of one transaction.  readsOnly is a list in the
\* code; what the detector tells apart is how often a key occurs in it.  A
\* key occurs at most twice: once from the namespace the transaction touches,
\* once as an explicit read of that namespace's entry in _meta.
RWKeys == [readsOnly : [Key -> 0..2], writesOnly : SUBSET Key, readsAndWrites : SUBSET Key]


VARIABLES
    rw,         \* rw[t]: the keys of transaction t, fixed for the behaviour
    released,   \* transactions handed to validation
    finalized   \* transactions whose final status is known

vars == <<rw, released, finalized>>

Reads(t) == {k \in Key : rw[t].readsOnly[k] > 0} \cup rw[t].readsAndWrites

Writes(t) == rw[t].writesOnly \cup rw[t].readsAndWrites

\* A read-write, write-read or write-write dependency between u and t.
Conflict(u, t) ==
    \/ Writes(u) \cap Writes(t) # {}
    \/ Writes(u) \cap Reads(t) # {}
    \/ Reads(u) \cap Writes(t) # {}

Init ==
    /\ rw \in Workloads
    /\ released = {}
    /\ finalized = {}

Release(S) ==
    /\ S \cap released = {}
    /\ \A t \in S, u \in Tx : u < t /\ Conflict(u, t) => u \in finalized
    /\ released' = released \cup S
    /\ UNCHANGED <<rw, finalized>>

Finalize(S) ==
    /\ S \subseteq released \ finalized
    /\ finalized' = finalized \cup S
    /\ UNCHANGED <<rw, released>>

Next == \E S \in SUBSET Tx : S # {} /\ (Release(S) \/ Finalize(S))

Spec == Init /\ [][Next]_vars
==============================================================================
