---------------------- MODULE ValidatorCommitterProofs ----------------------
(***************************************************************************)
(* Proofs about the validator-committers, for any blocks, any number of    *)
(* VCs, workers and failures.  First serial execution of the blocks, the   *)
(* reference the properties are stated against: that it exists and is      *)
(* unique, what it leaves, and that a transaction which waits behind       *)
(* everything it conflicts with finds the tables as serial execution       *)
(* would.  Then what a commit keeps of the other batches, the order        *)
(* invariant and what it gives answers and batches, and that stored        *)
(* statuses and tables follow serial execution.  The operators take the    *)
(* blocks c, the table D of statuses and the tables S of the namespaces    *)
(* as parameters, so that a step only changes what they are applied to.    *)
(***************************************************************************)
EXTENDS ValidatorCommitter, WellFoundedInduction, TLAPS

Dup == "REJECTED_DUPLICATE_TX_ID"
Aborted == "ABORTED_MVCC_CONFLICT"

WritesOf(c, t) == {r[1] : r \in c[t].readWrites} \cup c[t].blindWrites
ReadsOf(c, t) == c[t].readsOnly \cup c[t].readWrites
KeysOf(c, t) == {r[1] : r \in ReadsOf(c, t)} \cup c[t].blindWrites
KeySet(c) == UNION {KeysOf(c, t) : t \in Tx}
IdsOf(c) == {c[t].id : t \in Tx}
Status(c) == {c[t].prelim : t \in Tx} \cup {"COMMITTED", Aborted, Dup}

Clash(c, s, t) ==
  \/ c[s].id = c[t].id
  \/ WritesOf(c, s) \cap KeysOf(c, t) # {}
  \/ KeysOf(c, s) \cap WritesOf(c, t) # {}

Stored(c, D, t) == D[c[t].id] # NotStored

\* Every earlier transaction in conflict with t has its id stored.
Behind(c, D, t) == \A s \in 1..(t - 1) : Clash(c, s, t) => Stored(c, D, s)

Fresh(S, r) == S[r[1]].version = r[2]

\* Not stored, and everything before it that it conflicts with is.
Waiting(c, D, t) == t \in Tx /\ ~Stored(c, D, t) /\ Behind(c, D, t)

\* A stored row belongs to the first transaction with its id, and everything
\* that transaction is in conflict with was stored before it.
Rows(c, D) ==
  /\ DOMAIN D = IdsOf(c)
  /\ \A i \in IdsOf(c) : D[i] # NotStored =>
      /\ D[i] = [height |-> D[i].height, status |-> D[i].status]
      /\ D[i].height \in Tx /\ c[D[i].height].id = i
      /\ D[i].status \in Status(c) \ {Dup}
      /\ Behind(c, D, D[i].height)
      /\ \A s \in 1..(D[i].height - 1) : c[s].id # i

-----------------------------------------------------------------------------
(* Serial execution, with the blocks as a parameter.                        *)

Verdict(c, n, S) ==
  IF \E i \in 1..(n - 1) : c[i].id = c[n].id THEN Dup
  ELSE IF c[n].prelim # None THEN c[n].prelim
  ELSE IF \E r \in ReadsOf(c, n) : ~Fresh(S, r) THEN Aborted ELSE "COMMITTED"

Start(c) == [state |-> [k \in KeySet(c) |-> Absent], status |-> <<>>]

After(c, n, before) ==
  [status |-> Append(before.status, Verdict(c, n, before.state)),
   state  |-> [k \in KeySet(c) |->
      IF Verdict(c, n, before.state) = "COMMITTED" /\ k \in WritesOf(c, n)
      THEN [version |-> before.state[k].version + 1, writer |-> n]
      ELSE before.state[k]]]

IsSerial(c, e) == e = [n \in Nat |-> IF n = 0 THEN Start(c) ELSE After(c, n, e[n - 1])]
SerialOf(c) == CHOOSE e : IsSerial(c, e)

Outcome(c, e, n) == Verdict(c, n, e[n - 1].state)

Writers(c, D, k) ==
  {t \in Tx : k \in WritesOf(c, t) /\ D[c[t].id] = [height |-> t, status |-> "COMMITTED"]}

\* The stored statuses are those of serial execution e, and a key is as e leaves
\* it after the last stored transaction that wrote it.
AsSerial(c, e, D, S) ==
  /\ \A i \in IdsOf(c) : D[i] # NotStored => D[i].status = Outcome(c, e, D[i].height)
  /\ \A k \in KeySet(c) :
      /\ Writers(c, D, k) = {} => S[k] = Absent
      /\ \A m \in Writers(c, D, k) :
          (\A x \in Writers(c, D, k) : x <= m) => S[k] = e[m].state[k]

-----------------------------------------------------------------------------
(* What the operators of the model are in terms of those above.             *)

LEMMA Names ==
  /\ \A t : Id(t) = txs[t].id
  /\ \A t : AllReads(t) = ReadsOf(txs, t)
  /\ \A t : WriteKeys(t) = WritesOf(txs, t)
  /\ \A t : Keys(t) = KeysOf(txs, t)
  /\ \A s, t : Conflict(s, t) <=> Clash(txs, s, t)
  /\ Key = KeySet(txs) /\ TxId = IdsOf(txs)
  BY Zenon DEF Id, AllReads, ReadsOf, WriteKeys, WritesOf, Keys, KeysOf, Conflict, Clash, Key, KeySet,
         TxId, IdsOf

\* Every set of naturals with an element has a least one.
LEMMA Least ==
  ASSUME NEW T \in SUBSET Nat, T # {}
  PROVE  \E x \in T : \A y \in T : x <= y
  <1> DEFINE R == OpToRel(<, Nat)
  <1>1. IsWellFoundedOn(R, Nat)  BY NatLessThanWellFounded, Zenon
  <1>2. PICK x \in T : \A y \in T : ~(<<y, x>> \in R)  BY <1>1, WFMin, Zenon
  <1>3. ASSUME NEW y \in T PROVE x <= y
    <2>1. ~(y < x)  BY <1>2, Zenon DEF OpToRel
    <2> QED  BY <2>1
  <1> QED  BY <1>2, <1>3, Zenon

LEMMA IdOfTx == ASSUME NEW c, NEW t \in Tx PROVE c[t].id \in IdsOf(c)
  BY Zenon DEF IdsOf

LEMMA KeyOfTx ==
  ASSUME NEW c, NEW t \in Tx
  PROVE  /\ KeysOf(c, t) \subseteq KeySet(c) /\ WritesOf(c, t) \subseteq KeysOf(c, t)
         /\ c[t].blindWrites \subseteq WritesOf(c, t)
         /\ \A r \in ReadsOf(c, t) : r[1] \in KeysOf(c, t)
  BY Zenon DEF KeySet, KeysOf, WritesOf, ReadsOf

-----------------------------------------------------------------------------
(* The invariant.                                                           *)

\* The blocks, as the assumption on the workloads has them.
Blocks(c) ==
  /\ DOMAIN c = Tx
  /\ \A t \in Tx : /\ \A r \in ReadsOf(c, t) : r = <<r[1], r[2]>> /\ r[2] \in Nat \cup {Nil}
                   /\ c[t].prelim \notin {"COMMITTED", Dup}

Tables(c, S) ==
  /\ DOMAIN S = KeySet(c)
  /\ \A k \in KeySet(c) : S[k] = Absent \/ S[k].version \in Nat

\* What may be received by a VC: the coordinator sends it behind its conflicts.
Ordered(c, D) == {t \in Tx : Behind(c, D, t)}

IsJob(c, j) ==
  /\ j = [stage |-> j.stage, txs |-> j.txs, invalid |-> j.invalid, blind |-> j.blind]
  /\ j.stage \in {"prepared", "validated", "commit", "committed"}
  /\ DOMAIN j.txs \subseteq Nat
  /\ \A t \in DOMAIN j.invalid : j.invalid[t] \in Status(c)

\* A transaction of the batch that is not stored is marked only with the
\* status it deserves in the present tables.
Marks(c, D, S, j) ==
  \A t \in Range(j.txs) :
    /\ c[t].prelim # None => t \in DOMAIN j.invalid
    /\ t \in DOMAIN j.invalid /\ ~Stored(c, D, t) =>
         IF c[t].prelim # None THEN j.invalid[t] = c[t].prelim
         ELSE j.invalid[t] = Aborted /\ \E r \in ReadsOf(c, t) : ~Fresh(S, r)

\* The versions of the blind writes are still those of the tables.
Blinds(c, D, S, j) ==
  j.stage = "commit" =>
    \A t \in Range(j.txs) \ DOMAIN j.invalid : ~Stored(c, D, t) =>
      \A k \in c[t].blindWrites : k \in DOMAIN j.blind /\ j.blind[k] = S[k].version

\* No key is read as absent by one transaction that writes it and by another
\* that does not (see preparer.go:282).
AbsentReadsApart(c) ==
  \A s, t \in Tx : \A r \in c[s].readWrites \cap c[t].readsOnly : r[2] # Nil

\* Under that condition a validated transaction that is not stored and not marked
\* has read the present versions, except for the keys it is about to insert.
Checked(c, D, S, j) ==
  AbsentReadsApart(c) /\ j.stage \in {"validated", "commit"} =>
    \A t \in Range(j.txs) \ DOMAIN j.invalid : ~Stored(c, D, t) =>
      \A r \in ReadsOf(c, t) : Fresh(S, r) \/ (r[2] = Nil /\ r \in c[t].readWrites)

\* The statuses of a committed batch are in the table.
Done(c, D, j) ==
  j.stage = "committed" =>
    \A t \in Range(j.txs) :
      IF StatusOf(j, t) = Dup THEN Stored(c, D, t)
      ELSE D[c[t].id] = [height |-> t, status |-> StatusOf(j, t)]

JobOk(c, D, S, j) ==
  j # Free =>
    /\ IsJob(c, j)
    /\ Range(j.txs) \subseteq Ordered(c, D)
    /\ Marks(c, D, S, j) /\ Blinds(c, D, S, j) /\ Checked(c, D, S, j) /\ Done(c, D, j)

\* What an answer rests on.
Durable(c, D, t, s) ==
  \/ D[c[t].id] = [height |-> t, status |-> s]
  \/ s = Dup /\ D[c[t].id].height \in 1..(t - 1)

Given(c, D) == {a \in [height : Tx, status : Status(c)] : Durable(c, D, a.height, a.status)}

Answers(c, D, f) ==
  DOMAIN f = Tx /\ \A t \in Tx : f[t] # None => Durable(c, D, t, f[t])

Queues(c, D, Q) == DOMAIN Q = VC /\ \A v \in VC : Q[v] \in Seq(Ordered(c, D))

Jobs(c, D, S, J) ==
  /\ DOMAIN J = VC /\ \A v \in VC : DOMAIN J[v] = Worker
  /\ \A v \in VC : \A w \in Worker : JobOk(c, D, S, J[v][w])

Outs(c, D, O) == DOMAIN O = VC /\ \A v \in VC : O[v] \in Seq(SUBSET Given(c, D))

\* The order invariant: it holds whatever the transactions read.
OrderInv ==
  /\ Blocks(txs) /\ Rows(txs, txStatus) /\ Tables(txs, state)
  /\ Queues(txs, txStatus, queue) /\ Jobs(txs, txStatus, state, job)
  /\ Outs(txs, txStatus, out) /\ Answers(txs, txStatus, answered)

\* The inductive invariant.
VInv == OrderInv /\ (AbsentReadsApart(txs) => AsSerial(txs, SerialOf(txs), txStatus, state))

-----------------------------------------------------------------------------
(* A commit keeps what the others rely on.                                   *)

Grows(c, D, E) == \A i \in IdsOf(c) : D[i] # NotStored => E[i] = D[i]

\* The tables change only at keys of transactions that become stored.
Advance(c, D, S, E, R) ==
  /\ Grows(c, D, E)
  /\ \A k \in KeySet(c) : R[k] # S[k] =>
       \E s \in Tx : k \in WritesOf(c, s) /\ ~Stored(c, D, s) /\ Stored(c, E, s) /\ Behind(c, D, s)

LEMMA StoredKept ==
  ASSUME NEW c, NEW D, NEW E, Grows(c, D, E), NEW t \in Tx, Stored(c, D, t)
  PROVE  Stored(c, E, t) /\ E[c[t].id] = D[c[t].id]
  BY IdOfTx, Zenon DEF Grows, Stored

LEMMA BehindKept ==
  ASSUME NEW c, NEW D, NEW E, Grows(c, D, E), NEW t \in Tx, Behind(c, D, t)
  PROVE  Behind(c, E, t)
  <1>1. ASSUME NEW s \in 1..(t - 1), Clash(c, s, t) PROVE Stored(c, E, s)
    <2>1. s \in Tx  BY WorkloadsAssumption DEF Tx
    <2>2. Stored(c, D, s)  BY <1>1, Zenon DEF Behind
    <2> QED  BY <2>1, <2>2, StoredKept, Zenon
  <1> QED  BY <1>1, Zenon DEF Behind

\* No key of a transaction that waits behind its conflicts changes before it is
\* stored: neither an earlier nor a later writer of the key can commit.
LEMMA Untouched ==
  ASSUME NEW c, NEW D, NEW S, NEW E, NEW R, Advance(c, D, S, E, R),
         NEW t \in Tx, Behind(c, D, t), ~Stored(c, E, t), NEW k \in KeysOf(c, t)
  PROVE  R[k] = S[k]
  <1> SUFFICES ASSUME R[k] # S[k] PROVE FALSE  BY Zenon
  <1>1. PICK s \in Tx : k \in WritesOf(c, s) /\ ~Stored(c, D, s) /\ Stored(c, E, s) /\ Behind(c, D, s)
    BY KeyOfTx, Zenon DEF Advance
  <1>2. ~Stored(c, D, t)  BY StoredKept, Zenon DEF Advance
  <1>3. s # t  BY <1>1, Zenon
  <1>4. Clash(c, s, t) /\ Clash(c, t, s)  BY <1>1, Zenon DEF Clash
  <1>5. s \in 1..(t - 1) \/ t \in 1..(s - 1)  BY <1>3, WorkloadsAssumption DEF Tx
  <1> QED  BY <1>1, <1>2, <1>4, <1>5, Zenon DEF Behind

LEMMA JobKept ==
  ASSUME NEW c, NEW D, NEW S, NEW E, NEW R, Advance(c, D, S, E, R), NEW j, JobOk(c, D, S, j)
  PROVE  JobOk(c, E, R, j)
  <1> SUFFICES ASSUME j # Free PROVE JobOk(c, E, R, j)  BY Zenon DEF JobOk
  <1>0. Grows(c, D, E)  BY Zenon DEF Advance
  <1>1. IsJob(c, j) /\ Marks(c, D, S, j) /\ Blinds(c, D, S, j) /\ Done(c, D, j)  BY Zenon DEF JobOk
  <1>2. ASSUME NEW t \in Range(j.txs)
        PROVE  /\ t \in Tx /\ Behind(c, D, t) /\ Behind(c, E, t)
               /\ Stored(c, D, t) => Stored(c, E, t) /\ E[c[t].id] = D[c[t].id]
    <2>1. t \in Tx /\ Behind(c, D, t)  BY Zenon DEF JobOk, Ordered
    <2> QED  BY <1>0, <2>1, BehindKept, StoredKept, ZenonT(40)
  <1>3. ASSUME NEW t \in Range(j.txs), ~Stored(c, E, t)
        PROVE  /\ \A r \in ReadsOf(c, t) : Fresh(R, r) <=> Fresh(S, r)
               /\ \A k \in c[t].blindWrites : R[k] = S[k]
    <2>1. ASSUME NEW k \in KeysOf(c, t) PROVE R[k] = S[k]  BY <1>2, <1>3, Untouched
    <2>2. \A r \in ReadsOf(c, t) : r[1] \in KeysOf(c, t)  BY <1>2, KeyOfTx, Zenon
    <2>3. c[t].blindWrites \subseteq KeysOf(c, t)  BY <1>2, KeyOfTx, Zenon
    <2> QED  BY <2>1, <2>2, <2>3, Zenon DEF Fresh
  <1>4. Marks(c, E, R, j)
    <2> SUFFICES ASSUME NEW t \in Range(j.txs), t \in DOMAIN j.invalid, ~Stored(c, E, t)
                 PROVE  IF c[t].prelim # None THEN j.invalid[t] = c[t].prelim
                        ELSE j.invalid[t] = Aborted /\ \E r \in ReadsOf(c, t) : ~Fresh(R, r)
      BY <1>1, Zenon DEF Marks
    <2>1. ~Stored(c, D, t)  BY <1>2, Zenon
    <2> QED  BY <2>1, <1>1, <1>3, Zenon DEF Marks
  <1>5. Blinds(c, E, R, j)
    <2> SUFFICES ASSUME j.stage = "commit", NEW t \in Range(j.txs) \ DOMAIN j.invalid, ~Stored(c, E, t),
                        NEW k \in c[t].blindWrites
                 PROVE  k \in DOMAIN j.blind /\ j.blind[k] = R[k].version
      BY Zenon DEF Blinds
    <2>1. ~Stored(c, D, t)  BY <1>2, Zenon
    <2> QED  BY <2>1, <1>1, <1>3, Zenon DEF Blinds
  <1>6. Checked(c, E, R, j)
    <2> SUFFICES ASSUME AbsentReadsApart(c), j.stage \in {"validated", "commit"},
                        NEW t \in Range(j.txs) \ DOMAIN j.invalid, ~Stored(c, E, t), NEW r \in ReadsOf(c, t)
                 PROVE  Fresh(R, r) \/ (r[2] = Nil /\ r \in c[t].readWrites)
      BY Zenon DEF Checked
    <2>1. ~Stored(c, D, t)  BY <1>2, Zenon
    <2>2. Checked(c, D, S, j)  BY Zenon DEF JobOk
    <2>3. Fresh(S, r) \/ (r[2] = Nil /\ r \in c[t].readWrites)  BY <2>1, <2>2, Zenon DEF Checked
    <2> QED  BY <2>3, <1>3, Zenon
  <1>7. Done(c, E, j)
    <2> SUFFICES ASSUME j.stage = "committed", NEW t \in Range(j.txs)
                 PROVE  IF StatusOf(j, t) = Dup THEN Stored(c, E, t)
                        ELSE E[c[t].id] = [height |-> t, status |-> StatusOf(j, t)]
      BY Zenon DEF Done
    <2>1. IF StatusOf(j, t) = Dup THEN Stored(c, D, t)
          ELSE D[c[t].id] = [height |-> t, status |-> StatusOf(j, t)]
      BY <1>1, Zenon DEF Done
    <2>2. t # 0  BY <1>2, WorkloadsAssumption DEF Tx
    <2>3. Stored(c, D, t)  BY <2>1, <2>2 DEF Stored, NotStored
    <2> QED  BY <2>1, <2>3, <1>2, Zenon
  <1> QED  BY <1>1, <1>2, <1>4, <1>5, <1>6, <1>7, Zenon DEF JobOk, Ordered

LEMMA DurableKept ==
  ASSUME NEW c, NEW D, NEW E, Grows(c, D, E), NEW t \in Tx, NEW s, Durable(c, D, t, s)
  PROVE  Durable(c, E, t, s)
  <1>1. t # 0 /\ 0 \notin 1..(t - 1)  BY WorkloadsAssumption DEF Tx
  <1>2. Stored(c, D, t)  BY <1>1 DEF Durable, Stored, NotStored
  <1> QED  BY <1>2, StoredKept DEF Durable

LEMMA SeqWider ==
  ASSUME NEW A, NEW B, A \subseteq B, NEW q \in Seq(A)  PROVE q \in Seq(B)
  OBVIOUS

LEMMA RestKept ==
  ASSUME NEW c, NEW D, NEW E, Grows(c, D, E)
  PROVE  /\ \A Q : Queues(c, D, Q) => Queues(c, E, Q)
         /\ \A O : Outs(c, D, O) => Outs(c, E, O)
         /\ \A f : Answers(c, D, f) => Answers(c, E, f)
  <1>1. Ordered(c, D) \subseteq Ordered(c, E)  BY BehindKept, Zenon DEF Ordered
  <1>2. SUBSET Given(c, D) \subseteq SUBSET Given(c, E)
    <2>1. ASSUME NEW a \in Given(c, D) PROVE a \in Given(c, E)
      <3>1. a.height \in Tx /\ Durable(c, D, a.height, a.status)  BY Zenon DEF Given
      <3>2. Durable(c, E, a.height, a.status)  BY <3>1, DurableKept, Zenon
      <3> QED  BY <3>2, Zenon DEF Given
    <2> QED  BY <2>1, Zenon
  <1>3. ASSUME NEW f, Answers(c, D, f) PROVE Answers(c, E, f)  BY <1>3, DurableKept, Zenon DEF Answers
  <1>4. ASSUME NEW Q, Queues(c, D, Q) PROVE Queues(c, E, Q)
    BY <1>1, <1>4, SeqWider, Zenon DEF Queues
  <1>5. ASSUME NEW O, Outs(c, D, O) PROVE Outs(c, E, O)
    <2>1. ASSUME NEW v \in VC PROVE O[v] \in Seq(SUBSET Given(c, E))
      <3>1. O[v] \in Seq(SUBSET Given(c, D))  BY <1>5, Zenon DEF Outs
      <3> HIDE DEF Outs
      <3> QED  BY <3>1, <1>2, SeqWider, Zenon
    <2> QED  BY <2>1, <1>5, Zenon DEF Outs
  <1> QED  BY <1>3, <1>4, <1>5, Zenon

-----------------------------------------------------------------------------
(* The commit of a batch.                                                    *)

\* Two transactions in conflict that wait behind their conflicts are not both
\* unstored.
LEMMA Apart ==
  ASSUME NEW c, NEW D, NEW s \in Tx, NEW t \in Tx, Behind(c, D, s), Behind(c, D, t),
         ~Stored(c, D, s), ~Stored(c, D, t), Clash(c, s, t)
  PROVE  s = t
  <1>1. Clash(c, t, s)  BY Zenon DEF Clash
  <1>2. s = t \/ s \in 1..(t - 1) \/ t \in 1..(s - 1)  BY WorkloadsAssumption DEF Tx
  <1> QED  BY <1>1, <1>2, Zenon DEF Behind

LEMMA ValidIs ==
  ASSUME NEW D, NEW S, NEW j, j # Free, JobOk(txs, D, S, j)
  PROVE  Valid(j) = Range(j.txs) \ DOMAIN j.invalid
  <1>1. ASSUME NEW t \in Range(j.txs), txs[t].prelim # None PROVE t \in DOMAIN j.invalid
    BY <1>1, Zenon DEF JobOk, Marks
  <1> QED  BY <1>1, Zenon DEF Valid, Prepared, Prelim

LEMMA ToInsertWaiting ==
  ASSUME NEW S, NEW j, j # Free, JobOk(txs, txStatus, S, j), Duplicates(j) = {},
         Blocks(txs)
  PROVE  /\ \A t \in ToInsert(j) : Waiting(txs, txStatus, t)
         /\ Valid(j) \subseteq ToInsert(j)
         /\ \A t \in Range(j.txs) \ ToInsert(j) : StatusOf(j, t) = Dup /\ Stored(txs, txStatus, t)
  <1>1. ASSUME NEW t \in ToInsert(j) PROVE Waiting(txs, txStatus, t)
    <2>1. t \in Range(j.txs)  BY Zenon DEF ToInsert
    <2>2. t \in Tx /\ Behind(txs, txStatus, t)  BY <2>1, Zenon DEF JobOk, Ordered
    <2>3. txStatus[Id(t)] = NotStored  BY Zenon DEF Duplicates, insertTxStatus, StoredIds
    <2> QED  BY <2>2, <2>3, Zenon DEF Waiting, Stored, Id
  <1>2. ASSUME NEW t \in Valid(j) PROVE t \in ToInsert(j)
    BY ValidIs, Zenon DEF ToInsert, StatusOf
  <1>3. ASSUME NEW t \in Range(j.txs) \ ToInsert(j)
        PROVE  StatusOf(j, t) = Dup /\ Stored(txs, txStatus, t)
    <2>1. StatusOf(j, t) = Dup  BY Zenon DEF ToInsert, Dup
    <2>2. t \in DOMAIN j.invalid /\ j.invalid[t] = Dup  BY <2>1, Zenon DEF StatusOf, Dup
    <2>3. t \in Tx  BY Zenon DEF JobOk, Ordered
    <2>4. txs[t].prelim # Dup  BY <2>3, Zenon DEF Blocks
    <2> QED  BY <2>1, <2>2, <2>4, Zenon DEF JobOk, Marks, Dup, Aborted
  <1> QED  BY <1>1, <1>2, <1>3, Zenon

\* The rows a commit inserts, and that the table stays in order.
LEMMA CommitStatuses ==
  ASSUME Blocks(txs), Rows(txs, txStatus), NEW S, NEW j, j # Free, JobOk(txs, txStatus, S, j),
         Duplicates(j) = {}, CommitTables(j)
  PROVE  /\ \A t \in ToInsert(j) : txStatus'[txs[t].id] = [height |-> t, status |-> StatusOf(j, t)]
         /\ \A i \in IdsOf(txs) : txStatus'[i] # txStatus[i] => \E t \in ToInsert(j) : txs[t].id = i
         /\ Grows(txs, txStatus, txStatus') /\ Rows(txs, txStatus')
  <1> PICK E : E = txStatus'  BY Zenon
  <1> DEFINE D == txStatus
  <1>1. \A t \in ToInsert(j) : Waiting(txs, D, t)  BY ToInsertWaiting, Zenon
  <1>2. E = [i \in IdsOf(txs) |->
               IF \E t \in ToInsert(j) : txs[t].id = i
               THEN [height |-> CHOOSE u \in ToInsert(j) : txs[u].id = i,
                     status |-> StatusOf(j, CHOOSE u \in ToInsert(j) : txs[u].id = i)]
               ELSE D[i]]
    BY Names, Zenon DEF CommitTables, Id
  <1>3. ASSUME NEW t \in ToInsert(j), NEW u \in ToInsert(j), txs[u].id = txs[t].id PROVE u = t
    <2>1. Clash(txs, u, t)  BY <1>3, Zenon DEF Clash
    <2> QED  BY <2>1, <1>1, Apart, Zenon DEF Waiting
  <1>4. ASSUME NEW t \in ToInsert(j) PROVE E[txs[t].id] = [height |-> t, status |-> StatusOf(j, t)]
    <2>1. t \in Tx  BY <1>1, Zenon DEF Waiting
    <2>2. txs[t].id \in IdsOf(txs)  BY <2>1, IdOfTx, Zenon
    <2>3. (CHOOSE u \in ToInsert(j) : txs[u].id = txs[t].id) = t  BY <1>3, Zenon
    <2> QED  BY <1>2, <2>2, <2>3, ZenonT(30)
  <1>5. ASSUME NEW i \in IdsOf(txs), E[i] # D[i] PROVE \E t \in ToInsert(j) : txs[t].id = i
    BY <1>2, <1>5, Zenon
  <1>6. Grows(txs, D, E)
    <2>1. ASSUME NEW i \in IdsOf(txs), D[i] # NotStored PROVE E[i] = D[i]
      BY <1>1, <1>5, <2>1, ZenonT(40) DEF Waiting, Stored
    <2> QED  BY <2>1, Zenon DEF Grows
  <1>7. Rows(txs, E)
    <2>0. DOMAIN E = IdsOf(txs)  BY <1>2, Zenon
    <2> SUFFICES ASSUME NEW i \in IdsOf(txs), E[i] # NotStored
                 PROVE  /\ E[i] = [height |-> E[i].height, status |-> E[i].status]
                        /\ E[i].height \in Tx /\ txs[E[i].height].id = i
                        /\ E[i].status \in Status(txs) \ {Dup}
                        /\ Behind(txs, E, E[i].height)
                        /\ \A s \in 1..(E[i].height - 1) : txs[s].id # i
      BY <2>0, Zenon DEF Rows
    <2>1. CASE E[i] = D[i]
      <3>1. D[i].height \in Tx /\ Behind(txs, D, D[i].height)  BY <2>1, Zenon DEF Rows
      <3>2. Behind(txs, E, D[i].height)  BY <3>1, <1>6, BehindKept, Zenon
      <3> QED  BY <2>1, <3>2, Zenon DEF Rows
    <2>2. CASE E[i] # D[i]
      <3>1. PICK t \in ToInsert(j) : txs[t].id = i  BY <1>5, <2>2, Zenon
      <3>2. E[i] = [height |-> t, status |-> StatusOf(j, t)]  BY <1>4, <3>1, Zenon
      <3>3. t \in Tx /\ ~Stored(txs, D, t) /\ Behind(txs, D, t)  BY <1>1, Zenon DEF Waiting
      <3>4. Behind(txs, E, t)  BY <3>3, <1>6, BehindKept, Zenon
      <3>5. StatusOf(j, t) \in Status(txs) \ {Dup}
        <4>1. StatusOf(j, t) # Dup  BY Zenon DEF ToInsert, Dup
        <4>2. StatusOf(j, t) \in Status(txs)  BY Zenon DEF StatusOf, JobOk, IsJob, Status
        <4> QED  BY <4>1, <4>2, Zenon
      <3>6. ASSUME NEW s \in 1..(t - 1), txs[s].id = i PROVE FALSE
        <4>1. Clash(txs, s, t)  BY <3>1, <3>6, Zenon DEF Clash
        <4>2. Stored(txs, D, s)  BY <4>1, <3>3, Zenon DEF Behind
        <4> QED  BY <4>2, <3>1, <3>3, <3>6, Zenon DEF Stored
      <3> QED  BY <3>1, <3>2, <3>3, <3>4, <3>5, <3>6
    <2> QED  BY <2>1, <2>2, Zenon
  <1> QED  BY <1>4, <1>5, <1>6, <1>7, Zenon

\* The keys a commit writes: each has one writer, a valid transaction.
LEMMA CommitKeys ==
  ASSUME Blocks(txs), Tables(txs, state), NEW j, j # Free, JobOk(txs, txStatus, state, j),
         j.stage = "commit", Duplicates(j) = {}, Existing(j) = {}, CommitTables(j)
  PROVE  /\ \A k \in KeySet(txs) : state'[k] # state[k] => \E t \in Valid(j) : k \in WritesOf(txs, t)
         /\ \A t \in Valid(j) : \A k \in WritesOf(txs, t) :
              \/ /\ k \in Inserts(j, t) /\ state[k] = Absent
                 /\ state'[k] = [version |-> 0, writer |-> t]
              \/ \E u \in Updates(j, t) :
                   /\ u[1] = k
                   /\ state'[k] = IF state[k] = Absent THEN Absent ELSE [version |-> u[2], writer |-> t]
         /\ Tables(txs, state')
  <1> PICK R : R = state'  BY Zenon
  <1> DEFINE S == state
             K == KeySet(txs)
  <1>1. \A t \in Valid(j) : t \in Tx /\ Waiting(txs, txStatus, t)  BY ToInsertWaiting, Zenon DEF Waiting
  <1>2. ASSUME NEW t \in Valid(j)
        PROVE  /\ Inserts(j, t) \subseteq WritesOf(txs, t)
               /\ \A u \in Updates(j, t) : u[1] \in WritesOf(txs, t)
               /\ WritesOf(txs, t) \subseteq K
               /\ \A k \in WritesOf(txs, t) : k \in Inserts(j, t) \/ \E u \in Updates(j, t) : u[1] = k
    <2>1. Inserts(j, t) \subseteq WritesOf(txs, t)  BY Zenon DEF Inserts, WritesOf
    <2>2. \A u \in Updates(j, t) : u[1] \in WritesOf(txs, t)  BY DEF Updates, WritesOf
    <2>3. WritesOf(txs, t) \subseteq K  BY <1>1, KeyOfTx, Zenon
    <2>4. ASSUME NEW k \in WritesOf(txs, t), k \notin Inserts(j, t) PROVE \E u \in Updates(j, t) : u[1] = k
      <3>1. CASE k \in txs[t].blindWrites
        <4>1. <<k, j.blind[k] + 1>> \in Updates(j, t)  BY <3>1, <2>4, Zenon DEF Inserts, Updates
        <4> QED  BY <4>1, Zenon
      <3>2. CASE \E r \in txs[t].readWrites : r[1] = k
        <4>1. PICK r \in txs[t].readWrites : r[1] = k  BY <3>2, Zenon
        <4>2. <<r[1], r[2] + 1>> \in Updates(j, t)  BY <4>1, <2>4, Zenon DEF Inserts, Updates
        <4> QED  BY <4>1, <4>2, Zenon
      <3> QED  BY <3>1, <3>2, Zenon DEF WritesOf
    <2> QED  BY <2>1, <2>2, <2>3, <2>4, Zenon
  <1>3. ASSUME NEW t \in Valid(j), NEW u \in Valid(j), NEW k \in WritesOf(txs, t), k \in WritesOf(txs, u)
        PROVE  u = t
    <2>1. k \in KeysOf(txs, t)  BY <1>1, KeyOfTx, Zenon
    <2>2. Clash(txs, u, t)  BY <2>1, <1>3, Zenon DEF Clash
    <2> QED  BY <2>2, <1>1, Apart, Zenon DEF Waiting
  <1>4. R = Over(insert_ns(j), update_ns(j))  BY Zenon DEF CommitTables
  <1>5. DOMAIN insert_ns(j) = BatchInserts(j) /\ DOMAIN update_ns(j) = K
    BY Names, Zenon DEF insert_ns, update_ns
  <1>6. BatchInserts(j) \subseteq K  BY <1>2, Zenon DEF BatchInserts
  <1>7. DOMAIN R = K /\ \A k \in K : R[k] = IF k \in BatchInserts(j) THEN insert_ns(j)[k] ELSE update_ns(j)[k]
    BY <1>4, <1>5, <1>6, Zenon DEF Over
  <1>8. ASSUME NEW k \in BatchInserts(j)
        PROVE  /\ S[k] = Absent
               /\ \E t \in Valid(j) : k \in Inserts(j, t) /\ R[k] = [version |-> 0, writer |-> t]
    <2>1. PICK t \in Valid(j) : k \in Inserts(j, t)  BY Zenon DEF BatchInserts
    <2>2. \A u \in Valid(j) : k \in Inserts(j, u) => u = t  BY <1>2, <1>3, <2>1, Zenon
    <2>3. (CHOOSE u \in Valid(j) : k \in Inserts(j, u)) = t  BY <2>1, <2>2, Zenon
    <2>4. insert_ns(j)[k] = [version |-> 0, writer |-> t]  BY <2>3, ZenonT(30) DEF insert_ns
    <2>5. S[k] = Absent  BY Zenon DEF Existing
    <2> QED  BY <1>6, <1>7, <2>1, <2>4, <2>5, Zenon
  <1>9. ASSUME NEW k \in K \ BatchInserts(j), NEW t \in Valid(j), NEW x \in Updates(j, t), x[1] = k
        PROVE  \E u \in Updates(j, t) :
                 u[1] = k /\ R[k] = IF S[k] = Absent THEN Absent ELSE [version |-> u[2], writer |-> t]
    <2> DEFINE Upd(s) == \E u \in Updates(j, s) : u[1] = k
    <2>1. \A s \in Valid(j) : Upd(s) => s = t  BY <1>2, <1>3, <1>9
    <2>2. (CHOOSE s \in Valid(j) : Upd(s)) = t  BY <2>1, <1>9, Zenon
    <2>3. PICK u : u = CHOOSE y \in Updates(j, t) : y[1] = k  BY Zenon
    <2>4. u \in Updates(j, t) /\ u[1] = k  BY <2>3, <1>9, Zenon
    <2>5. update_ns(j)[k] = IF S[k] = Absent THEN Absent ELSE [version |-> u[2], writer |-> t]
      <3>1. k \in Key  BY Names, Zenon
      <3>2. CASE S[k] = Absent  BY <3>1, <3>2, Zenon DEF update_ns
      <3>3. CASE S[k] # Absent
        <4>1. \E s \in Valid(j) : \E y \in Updates(j, s) : y[1] = k /\ state[k] # Absent  BY <3>3, <1>9, Zenon
        <4>2. update_ns(j)[k] = [version |-> (CHOOSE y \in Updates(j, CHOOSE s \in Valid(j) : Upd(s)) : y[1] = k)[2],
                                 writer |-> CHOOSE s \in Valid(j) : Upd(s)]
          BY <3>1, <4>1, Zenon DEF update_ns
        <4> QED  BY <4>2, <2>2, <2>3, <3>3, ZenonT(30)
      <3> QED  BY <3>2, <3>3, Zenon
    <2> QED  BY <1>7, <2>4, <2>5, Zenon
  <1>10. ASSUME NEW k \in K, R[k] # S[k] PROVE \E t \in Valid(j) : k \in WritesOf(txs, t)
    <2>1. CASE k \in BatchInserts(j)  BY <2>1, <1>2, <1>8, ZenonT(30)
    <2>2. CASE k \notin BatchInserts(j)
      <3>1. update_ns(j)[k] # S[k]  BY <2>2, <1>7, <1>10, Zenon
      <3>2. k \in Key  BY Names, Zenon
      <3>3. \E t \in Valid(j) : \E u \in Updates(j, t) : u[1] = k  BY <3>1, <3>2, Zenon DEF update_ns
      <3> QED  BY <3>3, <1>2
    <2> QED  BY <2>1, <2>2, Zenon
  <1>11. ASSUME NEW t \in Valid(j), NEW k \in WritesOf(txs, t)
         PROVE  \/ /\ k \in Inserts(j, t) /\ S[k] = Absent
                   /\ R[k] = [version |-> 0, writer |-> t]
                \/ \E u \in Updates(j, t) :
                     u[1] = k /\ R[k] = IF S[k] = Absent THEN Absent ELSE [version |-> u[2], writer |-> t]
    <2>1. CASE k \in BatchInserts(j)
      <3>1. PICK s \in Valid(j) : k \in Inserts(j, s) /\ R[k] = [version |-> 0, writer |-> s]  BY <2>1, <1>8, Zenon
      <3>2. s = t  BY <3>1, <1>2, <1>3, ZenonT(30)
      <3> QED  BY <3>1, <3>2, <2>1, <1>8, ZenonT(30)
    <2>2. CASE k \notin BatchInserts(j)
      <3>1. k \notin Inserts(j, t)  BY <2>2, Zenon DEF BatchInserts
      <3>2. PICK x \in Updates(j, t) : x[1] = k  BY <3>1, <1>2, Zenon
      <3>3. k \in K  BY <1>2, Zenon
      <3> QED  BY <3>2, <3>3, <2>2, <1>9
    <2> QED  BY <2>1, <2>2, ZenonT(30)
  <1>12. ASSUME NEW t \in Valid(j), NEW u \in Updates(j, t) PROVE u[2] \in Nat
    <2>1. CASE \E r \in txs[t].readWrites : r[2] # Nil /\ u = <<r[1], r[2] + 1>>
      <3>1. PICK r \in txs[t].readWrites : r[2] # Nil /\ u = <<r[1], r[2] + 1>>  BY <2>1, Zenon
      <3>2. r[2] \in Nat \cup {Nil}  BY <1>1, Zenon DEF Blocks, ReadsOf
      <3> QED  BY <3>1, <3>2
    <2>2. CASE \E k \in txs[t].blindWrites : j.blind[k] # Nil /\ u = <<k, j.blind[k] + 1>>
      <3>1. PICK k \in txs[t].blindWrites : j.blind[k] # Nil /\ u = <<k, j.blind[k] + 1>>  BY <2>2, Zenon
      <3>2. j.blind[k] = S[k].version
        <4>1. t \in Range(j.txs) \ DOMAIN j.invalid  BY ValidIs, Zenon
        <4> QED  BY <4>1, <1>1, ZenonT(30) DEF JobOk, Blinds, Waiting
      <3>3. k \in K  BY <1>1, KeyOfTx, ZenonT(30)
      <3>4. S[k] # Absent  BY <3>1, <3>2 DEF Absent
      <3>5. S[k].version \in Nat  BY <3>3, <3>4, Zenon DEF Tables
      <3> QED  BY <3>1, <3>2, <3>5
    <2> QED  BY <2>1, <2>2, Zenon DEF Updates
  <1>13. Tables(txs, R)
    <2>1. ASSUME NEW k \in K PROVE R[k] = Absent \/ R[k].version \in Nat
      <3>1. CASE R[k] = S[k]  BY <3>1, Zenon DEF Tables
      <3>2. CASE R[k] # S[k]
        <4>1. PICK t \in Valid(j) : k \in WritesOf(txs, t)  BY <3>2, <1>10, Zenon
        <4>2. CASE R[k] = [version |-> 0, writer |-> t]  BY <4>2
        <4>3. CASE \E u \in Updates(j, t) :
                     R[k] = IF S[k] = Absent THEN Absent ELSE [version |-> u[2], writer |-> t]
          BY <4>3, <1>12
        <4> QED  BY <4>1, <4>2, <4>3, <1>11
      <3> QED  BY <3>1, <3>2, Zenon
    <2> QED  BY <2>1, <1>7, Zenon DEF Tables
  <1> QED  BY <1>10, <1>11, <1>13

LEMMA CommitAdvance ==
  ASSUME Blocks(txs), Rows(txs, txStatus), Tables(txs, state), NEW j, j # Free,
         JobOk(txs, txStatus, state, j), j.stage = "commit", Duplicates(j) = {}, Existing(j) = {},
         CommitTables(j)
  PROVE  Advance(txs, txStatus, state, txStatus', state')
  <1>1. ASSUME NEW t \in Valid(j)
        PROVE  Waiting(txs, txStatus, t) /\ Stored(txs, txStatus', t)
    <2>1. t \in ToInsert(j) /\ Waiting(txs, txStatus, t)  BY ToInsertWaiting, Zenon
    <2>2. txStatus'[txs[t].id] = [height |-> t, status |-> StatusOf(j, t)]  BY <2>1, CommitStatuses, ZenonT(30)
    <2>3. t # 0  BY <2>1 DEF Waiting, Tx
    <2> QED  BY <2>1, <2>2, <2>3 DEF Stored, NotStored
  <1>2. ASSUME NEW k \in KeySet(txs), state'[k] # state[k]
        PROVE  \E s \in Tx : /\ k \in WritesOf(txs, s) /\ ~Stored(txs, txStatus, s)
                             /\ Stored(txs, txStatus', s) /\ Behind(txs, txStatus, s)
    <2>1. PICK t \in Valid(j) : k \in WritesOf(txs, t)  BY <1>2, CommitKeys, ZenonT(30)
    <2> QED  BY <2>1, <1>1, Zenon DEF Waiting
  <1>3. Grows(txs, txStatus, txStatus')  BY CommitStatuses, ZenonT(30)
  <1> QED  BY <1>2, <1>3, Zenon DEF Advance

-----------------------------------------------------------------------------
(* Serial execution: it exists, is unique, and what it leaves.               *)

Approximates(c, n, f) ==
  /\ f[0] = Start(c)
  /\ \A m \in 1..n : f[m] = After(c, m, f[m - 1])

LEMMA ApproximationExists ==
  ASSUME NEW c, NEW n \in Nat
  PROVE  \E f : Approximates(c, n, f)
  <1> DEFINE T == {m \in Nat : ~\E f : Approximates(c, m, f)}
  <1> SUFFICES ASSUME T # {} PROVE FALSE  BY Zenon
  <1>1. PICK x \in T : \A y \in T : x <= y  BY Least, ZenonT(30)
  <1>2. CASE x = 0
    <2>1. Approximates(c, 0, [m \in Nat |-> Start(c)])  BY DEF Approximates
    <2> QED  BY <1>2, <2>1, Zenon
  <1>3. CASE x # 0
    <2>1. x - 1 \in Nat /\ x - 1 \notin T  BY <1>1, <1>3
    <2>2. PICK f : Approximates(c, x - 1, f)  BY <2>1, Zenon
    <2> DEFINE g == [m \in Nat |-> IF m = x THEN After(c, x, f[x - 1]) ELSE f[m]]
    <2>3. g[0] = Start(c)  BY <2>2, <1>3, Zenon DEF Approximates
    <2>4. ASSUME NEW m \in 1..x PROVE g[m] = After(c, m, g[m - 1])
      <3>1. m - 1 \in Nat /\ m - 1 # x  OBVIOUS
      <3>2. g[m - 1] = f[m - 1]  BY <3>1, Zenon
      <3>3. CASE m = x
        <4>1. g[x] = After(c, x, f[x - 1])  BY Zenon
        <4> QED  BY <3>2, <3>3, <4>1, Zenon
      <3>4. CASE m # x
        <4>1. m \in 1..(x - 1)  BY <3>4, <2>1
        <4>2. g[m] = f[m]  BY <3>4
        <4>3. f[m] = After(c, m, f[m - 1])  BY <2>2, <4>1, Zenon DEF Approximates
        <4> QED  BY <3>2, <4>2, <4>3, Zenon
      <3> QED  BY <3>3, <3>4, Zenon
    <2> HIDE DEF g
    <2>5. Approximates(c, x, g)  BY <2>3, <2>4, Zenon DEF Approximates
    <2> QED  BY <2>5, Zenon
  <1> QED  BY <1>2, <1>3, Zenon

LEMMA ApproximationsAgree ==
  ASSUME NEW c, NEW n \in Nat, NEW f, NEW g, Approximates(c, n, f), Approximates(c, n, g), NEW m \in 0..n
  PROVE  f[m] = g[m]
  <1> DEFINE T == {y \in 0..n : f[y] # g[y]}
  <1> SUFFICES ASSUME T # {} PROVE FALSE  BY Zenon
  <1>0. T \in SUBSET Nat  OBVIOUS
  <1>1. PICK x \in T : \A y \in T : x <= y
    <2> HIDE DEF T
    <2> QED  BY <1>0, Least, Zenon
  <1>2. x # 0  BY Zenon DEF Approximates
  <1>3. x \in 1..n /\ x - 1 \in 0..n /\ x - 1 \notin T  BY <1>1, <1>2
  <1>4. f[x - 1] = g[x - 1]  BY <1>3, Zenon
  <1>5. f[x] = After(c, x, f[x - 1]) /\ g[x] = After(c, x, g[x - 1])  BY <1>3, Zenon DEF Approximates
  <1> QED  BY <1>4, <1>5, Zenon

LEMMA SerialUnfolds ==
  ASSUME NEW c, NEW e, IsSerial(c, e)
  PROVE  /\ e[0] = Start(c) /\ \A n \in Nat \ {0} : e[n] = After(c, n, e[n - 1])
         /\ \A n \in Nat : Approximates(c, n, e)
  <1>1. DOMAIN e = Nat /\ e[0] = Start(c) /\ \A n \in Nat \ {0} : e[n] = After(c, n, e[n - 1])
    BY Zenon DEF IsSerial
  <1> QED  BY <1>1 DEF Approximates

LEMMA SerialUnique ==
  ASSUME NEW c, NEW e, NEW f, IsSerial(c, e), IsSerial(c, f)
  PROVE  e = f
  <1>1. ASSUME NEW n \in Nat PROVE e[n] = f[n]
    <2>1. n \in 0..n  OBVIOUS
    <2> QED  BY <2>1, SerialUnfolds, ApproximationsAgree
  <1>2. e = [n \in Nat |-> e[n]] /\ f = [n \in Nat |-> f[n]]  BY Zenon DEF IsSerial
  <1> QED  BY <1>1, <1>2, Zenon

LEMMA SerialExists ==
  ASSUME NEW c  PROVE  IsSerial(c, SerialOf(c))
  <1> DEFINE F(n) == CHOOSE f : Approximates(c, n, f)
             e == [n \in Nat |-> F(n)[n]]
  <1>1. ASSUME NEW n \in Nat PROVE Approximates(c, n, F(n))  BY ApproximationExists, Zenon
  <1> HIDE DEF F
  <1>2. e[0] = Start(c)  BY <1>1, Zenon DEF Approximates
  <1>3. ASSUME NEW n \in Nat \ {0} PROVE e[n] = After(c, n, e[n - 1])
    <2>1. n - 1 \in Nat /\ n \in 1..n /\ n - 1 \in 0..(n - 1)  OBVIOUS
    <2>2. F(n)[n] = After(c, n, F(n)[n - 1])  BY <1>1, <2>1, Zenon DEF Approximates
    <2>3. Approximates(c, n - 1, F(n))  BY <1>1, <2>1 DEF Approximates
    <2>4. Approximates(c, n - 1, F(n - 1))  BY <1>1, <2>1, Zenon
    <2>5. F(n)[n - 1] = F(n - 1)[n - 1]  BY <2>1, <2>3, <2>4, ApproximationsAgree
    <2>6. e[n] = F(n)[n] /\ e[n - 1] = F(n - 1)[n - 1]  BY <2>1, Zenon
    <2> QED  BY <2>2, <2>5, <2>6, Zenon
  <1>4. DOMAIN e = Nat  BY Zenon
  <1>5. e = [n \in Nat |-> e[n]]  BY Zenon
  <1> HIDE DEF e
  <1>6. IsSerial(c, e)
    <2>1. ASSUME NEW n \in Nat PROVE e[n] = IF n = 0 THEN Start(c) ELSE After(c, n, e[n - 1])
      BY <1>2, <1>3, Zenon
    <2> QED  BY <1>5, <2>1, ZenonT(30) DEF IsSerial
  <1> QED  BY <1>6, Zenon DEF SerialOf

Commits(c, e, n, k) == Outcome(c, e, n) = "COMMITTED" /\ k \in WritesOf(c, n)

LEMMA SerialStart ==
  ASSUME NEW c, NEW e, IsSerial(c, e), NEW k \in KeySet(c)
  PROVE  e[0].state[k] = Absent
  <1>1. e[0] = Start(c)  BY SerialUnfolds, Zenon
  <1> QED  BY <1>1 DEF Start

LEMMA SerialWrite ==
  ASSUME NEW c, NEW e, IsSerial(c, e), NEW k \in KeySet(c), NEW n \in Nat, n # 0, Commits(c, e, n, k)
  PROVE  e[n].state[k] = [version |-> e[n - 1].state[k].version + 1, writer |-> n]
  <1>1. PICK b : b = e[n - 1]  BY Zenon
  <1>2. e[n] = After(c, n, b)  BY <1>1, SerialUnfolds, Zenon
  <1>3. After(c, n, b).state[k] = IF Verdict(c, n, b.state) = "COMMITTED" /\ k \in WritesOf(c, n)
                                  THEN [version |-> b.state[k].version + 1, writer |-> n]
                                  ELSE b.state[k]
    BY ZenonT(30) DEF After
  <1> QED  BY <1>1, <1>2, <1>3, Zenon DEF Commits, Outcome

LEMMA SerialSame ==
  ASSUME NEW c, NEW e, IsSerial(c, e), NEW k \in KeySet(c), NEW n \in Nat, n # 0, ~Commits(c, e, n, k)
  PROVE  e[n].state[k] = e[n - 1].state[k]
  <1>1. PICK b : b = e[n - 1]  BY Zenon
  <1>2. e[n] = After(c, n, b)  BY <1>1, SerialUnfolds, Zenon
  <1>3. After(c, n, b).state[k] = IF Verdict(c, n, b.state) = "COMMITTED" /\ k \in WritesOf(c, n)
                                  THEN [version |-> b.state[k].version + 1, writer |-> n]
                                  ELSE b.state[k]
    BY ZenonT(30) DEF After
  <1> QED  BY <1>1, <1>2, <1>3, ZenonT(30) DEF Commits, Outcome

\* A key no transaction of m + 1..n commits is as m left it.
LEMMA SerialFrame ==
  ASSUME NEW c, NEW e, IsSerial(c, e), NEW k \in KeySet(c), NEW m \in Nat, NEW n \in Nat, m <= n,
         \A x \in (m + 1)..n : ~Commits(c, e, x, k)
  PROVE  e[n].state[k] = e[m].state[k]
  <1> DEFINE T == {y \in m..n : e[y].state[k] # e[m].state[k]}
  <1> SUFFICES ASSUME T # {} PROVE FALSE  OBVIOUS
  <1>0. T \in SUBSET Nat  OBVIOUS
  <1>1. PICK x \in T : \A y \in T : x <= y
    <2> HIDE DEF T
    <2> QED  BY <1>0, Least, Zenon
  <1>2. x # m  BY Zenon
  <1>3. x \in (m + 1)..n /\ x - 1 \in m..n /\ x - 1 \notin T /\ x \in Nat \ {0}  BY <1>1, <1>2
  <1>4. ~Commits(c, e, x, k)  BY <1>3, Zenon
  <1>5. e[x].state[k] = e[x - 1].state[k]
    <2> HIDE DEF T
    <2>1. x \in Nat /\ x # 0  BY <1>3, Zenon
    <2> QED  BY <2>1, <1>4, SerialSame
  <1> QED  BY <1>3, <1>5, Zenon

\* The statuses of serial execution are the outcomes of its transactions.
LEMMA SerialStatus ==
  ASSUME NEW c, NEW e, IsSerial(c, e), NEW n \in Nat, NEW t \in 1..n
  PROVE  e[n].status[t] = Outcome(c, e, t)
  <1> DEFINE V == {Outcome(c, e, m) : m \in Nat}
             Good(m) == /\ e[m].status \in Seq(V) /\ Len(e[m].status) = m
                        /\ \A i \in 1..m : e[m].status[i] = Outcome(c, e, i)
             T == {m \in Nat : ~Good(m)}
  <1>1. Good(0)
    <2>1. e[0].status = <<>>
      <3>1. e[0] = Start(c)  BY SerialUnfolds, Zenon
      <3> QED  BY <3>1 DEF Start
    <2> QED  BY <2>1
  <1>2. ASSUME NEW m \in Nat, Good(m) PROVE Good(m + 1)
    <2> PICK s : s = e[m].status  BY Zenon
    <2> PICK o : o = Outcome(c, e, m + 1)  BY Zenon
    <2>1. e[m + 1].status = Append(s, o)
      <3>1. m + 1 \in Nat \ {0} /\ (m + 1) - 1 = m  OBVIOUS
      <3>2. e[m + 1] = After(c, m + 1, e[m])  BY <3>1, SerialUnfolds, ZenonT(40)
      <3>3. o = Verdict(c, m + 1, e[m].state)  BY <3>1, Zenon DEF Outcome
      <3> QED  BY <3>2, <3>3 DEF After
    <2>2. o \in V  OBVIOUS
    <2>3. s \in Seq(V) /\ Len(s) = m /\ \A i \in 1..m : s[i] = Outcome(c, e, i)  BY <1>2, Zenon
    <2> HIDE DEF V
    <2>4. Append(s, o) \in Seq(V) /\ Len(Append(s, o)) = m + 1  BY <2>2, <2>3
    <2>5. ASSUME NEW i \in 1..(m + 1) PROVE Append(s, o)[i] = Outcome(c, e, i)
      <3>1. CASE i = m + 1  BY <2>2, <2>3, <3>1
      <3>2. CASE i # m + 1
        <4>1. i \in 1..m  BY <3>2
        <4> QED  BY <2>2, <2>3, <4>1
      <3> QED  BY <3>1, <3>2, ZenonT(30)
    <2> QED  BY <2>1, <2>4, <2>5, Zenon
  <1> HIDE DEF Good
  <1>3. T = {}
    <2> SUFFICES ASSUME T # {} PROVE FALSE  BY Zenon
    <2>1. PICK x \in T : \A y \in T : x <= y  BY Least, ZenonT(30)
    <2>2. x # 0  BY <1>1, Zenon
    <2>3. x - 1 \in Nat /\ x - 1 \notin T /\ (x - 1) + 1 = x  BY <2>1, <2>2
    <2>4. Good(x - 1)  BY <2>3, Zenon
    <2> QED  BY <1>2, <2>3, <2>4, Zenon
  <1>4. Good(n)  BY <1>3, Zenon
  <1> QED  BY <1>4, Zenon DEF Good

-----------------------------------------------------------------------------
(* What waits finds the tables as serial execution would.                    *)

LEMMA MaxOf ==
  ASSUME NEW W \in SUBSET Tx, W # {}
  PROVE  \E m \in W : \A x \in W : x <= m
  <1> DEFINE T == {n \in Nat : \A x \in W : x <= n}
  <1>0. NumTx \in Nat /\ \A x \in W : x \in Nat /\ x <= NumTx /\ x # 0  BY WorkloadsAssumption DEF Tx
  <1>1. NumTx \in T /\ T \in SUBSET Nat  BY <1>0, Zenon
  <1>2. PICK m \in T : \A y \in T : m <= y
    <2> HIDE DEF T
    <2> QED  BY <1>1, Least, Zenon
  <1>3. m \in W
    <2> SUFFICES ASSUME m \notin W PROVE FALSE  BY Zenon
    <2>1. ASSUME NEW x \in W PROVE x <= m - 1  BY <1>0
    <2>2. m # 0  BY <1>0
    <2>3. m - 1 \in T  BY <2>1, <2>2
    <2> QED  BY <2>3, <1>2
  <1> QED  BY <1>3, Zenon

\* The row of a transaction that serial execution commits is its own.
LEMMA CommittedRow ==
  ASSUME NEW c, NEW e, NEW D, Rows(c, D),
         \A i \in IdsOf(c) : D[i] # NotStored => D[i].status = Outcome(c, e, D[i].height),
         NEW x \in Tx, Stored(c, D, x), Outcome(c, e, x) = "COMMITTED"
  PROVE  D[c[x].id] = [height |-> x, status |-> "COMMITTED"]
  <1> PICK i : i = c[x].id  BY Zenon
  <1> PICK h : h = D[i].height  BY Zenon
  <1>1. i \in IdsOf(c) /\ D[i] # NotStored  BY IdOfTx, ZenonT(30) DEF Stored
  <1>2. /\ D[i] = [height |-> h, status |-> D[i].status] /\ h \in Tx /\ c[h].id = i
        /\ \A s \in 1..(h - 1) : c[s].id # i
    BY <1>1, ZenonT(30) DEF Rows
  <1>3. ~(x < h)  BY <1>2, WorkloadsAssumption DEF Tx
  <1>4. ~(h < x)
    <2> SUFFICES ASSUME h < x PROVE FALSE  BY ZenonT(30)
    <2>1. h \in 1..(x - 1)  BY <1>2, WorkloadsAssumption DEF Tx
    <2>2. Outcome(c, e, x) = Dup  BY <2>1, <1>2, ZenonT(40) DEF Outcome, Verdict
    <2> QED  BY <2>2, Zenon DEF Dup
  <1>5. h = x  BY <1>2, <1>3, <1>4, WorkloadsAssumption DEF Tx
  <1> QED  BY <1>1, <1>2, <1>5, ZenonT(30)

\* The stored writers of a key of a waiting transaction are before it.
LEMMA WritersBefore ==
  ASSUME NEW c, NEW D, Rows(c, D), NEW t, Waiting(c, D, t), NEW k \in KeysOf(c, t), NEW y \in Writers(c, D, k)
  PROVE  y \in 1..(t - 1)
  <1>1. /\ y \in Tx /\ k \in WritesOf(c, y) /\ c[y].id \in IdsOf(c)
        /\ D[c[y].id] = [height |-> y, status |-> "COMMITTED"]
    BY IdOfTx, ZenonT(30) DEF Writers
  <1>2. y # 0 /\ D[c[y].id] # NotStored /\ D[c[y].id].height = y  BY <1>1 DEF NotStored, Tx
  <1>3. Stored(c, D, y) /\ Behind(c, D, y)  BY <1>1, <1>2 DEF Stored, Rows
  <1>4. y # t  BY <1>3, Zenon DEF Waiting
  <1>5. Clash(c, t, y)  BY <1>1, ZenonT(30) DEF Clash
  <1>6. t \notin 1..(y - 1)  BY <1>3, <1>5, Zenon DEF Behind, Waiting
  <1> QED  BY <1>1, <1>4, <1>6, WorkloadsAssumption DEF Waiting, Tx

LEMMA WaitingFindsSerial ==
  ASSUME NEW c, NEW e, IsSerial(c, e), NEW D, NEW S, Rows(c, D), AsSerial(c, e, D, S),
         NEW t, Waiting(c, D, t), NEW k \in KeysOf(c, t)
  PROVE  S[k] = e[t - 1].state[k]
  <1> DEFINE W == Writers(c, D, k)
  <1>1. t \in Tx /\ t \in Nat /\ t # 0 /\ t - 1 \in Nat  BY WorkloadsAssumption DEF Waiting, Tx
  <1>2. k \in KeySet(c)  BY <1>1, KeyOfTx, ZenonT(30)
  <1>3. \A y \in W : y \in 1..(t - 1)  BY WritersBefore, Zenon
  <1>4. ASSUME NEW x \in 1..(t - 1), Commits(c, e, x, k) PROVE x \in W
    <2>1. x \in Tx  BY <1>1, WorkloadsAssumption DEF Tx
    <2>2. Clash(c, x, t)  BY <1>4, Zenon DEF Clash, Commits
    <2>3. Stored(c, D, x)  BY <2>2, ZenonT(40) DEF Waiting, Behind
    <2>4. D[c[x].id] = [height |-> x, status |-> "COMMITTED"]
      BY <1>4, <2>1, <2>3, CommittedRow DEF AsSerial, Commits
    <2> QED  BY <1>4, <2>1, <2>4, ZenonT(30) DEF Writers, Commits
  <1>5. CASE W = {}
    <2>1. S[k] = Absent  BY <1>2, <1>5, Zenon DEF AsSerial
    <2>2. \A x \in (0 + 1)..(t - 1) : ~Commits(c, e, x, k)  BY <1>4, <1>5
    <2>3. e[t - 1].state[k] = e[0].state[k]  BY <1>1, <1>2, <2>2, SerialFrame
    <2>4. e[0].state[k] = Absent  BY <1>2, SerialStart, Zenon
    <2> QED  BY <2>1, <2>3, <2>4, ZenonT(30)
  <1>6. CASE W # {}
    <2>1. W \in SUBSET Tx  BY Zenon DEF Writers
    <2>2. PICK m \in W : \A x \in W : x <= m
      <3> HIDE DEF W
      <3> QED  BY <1>6, <2>1, MaxOf, Zenon
    <2>3. S[k] = e[m].state[k]  BY <1>2, <2>2, Zenon DEF AsSerial
    <2>4. m \in Nat /\ m <= t - 1  BY <1>3, <2>2
    <2>5. ASSUME NEW x \in (m + 1)..(t - 1) PROVE ~Commits(c, e, x, k)
      <3>1. x \in 1..(t - 1) /\ ~(x <= m)  BY <2>4, <1>1
      <3> QED  BY <3>1, <2>2, <1>4, Zenon
    <2>6. e[t - 1].state[k] = e[m].state[k]  BY <1>1, <1>2, <2>4, <2>5, SerialFrame
    <2> QED  BY <2>3, <2>6, Zenon
  <1> QED  BY <1>5, <1>6, ZenonT(30)

LEMMA WaitingOutcome ==
  ASSUME NEW c, NEW e, IsSerial(c, e), NEW D, NEW S, Rows(c, D), AsSerial(c, e, D, S),
         NEW t, Waiting(c, D, t)
  PROVE  Outcome(c, e, t) = IF c[t].prelim # None THEN c[t].prelim
                            ELSE IF \E r \in ReadsOf(c, t) : ~Fresh(S, r) THEN Aborted ELSE "COMMITTED"
  <1> PICK B : B = e[t - 1].state  BY Zenon
  <1>1. ASSUME NEW i \in 1..(t - 1), c[i].id = c[t].id PROVE FALSE
    <2>1. Stored(c, D, i)  BY <1>1, Zenon DEF Waiting, Behind, Clash
    <2> QED  BY <2>1, <1>1, Zenon DEF Waiting, Stored
  <1>2. ASSUME NEW r \in ReadsOf(c, t) PROVE Fresh(B, r) <=> Fresh(S, r)
    <2>1. r[1] \in KeysOf(c, t)  BY KeyOfTx, Zenon DEF Waiting
    <2>2. S[r[1]] = B[r[1]]  BY <2>1, WaitingFindsSerial
    <2> QED  BY <2>2, Zenon DEF Fresh
  <1>3. Outcome(c, e, t) = Verdict(c, t, B)  BY Zenon DEF Outcome
  <1> QED  BY <1>1, <1>2, <1>3, Zenon DEF Verdict

-----------------------------------------------------------------------------
(* A commit follows serial execution.                                        *)

\* A valid transaction has read the present versions: what the validation left
\* out, the inserts find.
LEMMA ValidReadsFresh ==
  ASSUME AbsentReadsApart(txs), Blocks(txs), NEW j, j # Free, JobOk(txs, txStatus, state, j),
         j.stage = "commit", Duplicates(j) = {}, Existing(j) = {}, NEW t \in Valid(j),
         NEW r \in ReadsOf(txs, t)
  PROVE  Fresh(state, r)
  <1>1. t \in Range(j.txs) \ DOMAIN j.invalid  BY ValidIs, Zenon
  <1>2. ~Stored(txs, txStatus, t)  BY ToInsertWaiting, Zenon DEF Waiting
  <1>3. Fresh(state, r) \/ (r[2] = Nil /\ r \in txs[t].readWrites)  BY <1>1, <1>2, Zenon DEF JobOk, Checked
  <1>4. CASE r[2] = Nil /\ r \in txs[t].readWrites
    <2>1. r[1] \in Inserts(j, t)  BY <1>4, Zenon DEF Inserts
    <2>2. r[1] \in BatchInserts(j)  BY <2>1, Zenon DEF BatchInserts
    <2>3. state[r[1]] = Absent  BY <2>2, Zenon DEF Existing
    <2> QED  BY <2>3, <1>4 DEF Fresh, Absent
  <1> QED  BY <1>3, <1>4, Zenon

LEMMA CommitOutcome ==
  ASSUME AbsentReadsApart(txs), Blocks(txs), Rows(txs, txStatus), NEW e, IsSerial(txs, e),
         AsSerial(txs, e, txStatus, state), NEW j, j # Free, JobOk(txs, txStatus, state, j),
         j.stage = "commit", Duplicates(j) = {}, Existing(j) = {}, NEW t \in ToInsert(j)
  PROVE  StatusOf(j, t) = Outcome(txs, e, t) /\ (StatusOf(j, t) = "COMMITTED" <=> t \in Valid(j))
  <1>1. Waiting(txs, txStatus, t) /\ t \in Tx /\ ~Stored(txs, txStatus, t)  BY ToInsertWaiting, Zenon DEF Waiting
  <1>2. t \in Range(j.txs)  BY Zenon DEF ToInsert
  <1>3. PICK o : o = Outcome(txs, e, t)  BY Zenon
  <1>4. o = IF txs[t].prelim # None THEN txs[t].prelim
            ELSE IF \E r \in ReadsOf(txs, t) : ~Fresh(state, r) THEN Aborted ELSE "COMMITTED"
    BY <1>1, <1>3, WaitingOutcome, Zenon
  <1>5. Valid(j) = Range(j.txs) \ DOMAIN j.invalid  BY ValidIs, Zenon
  <1>6. CASE t \in DOMAIN j.invalid
    <2>1. IF txs[t].prelim # None THEN j.invalid[t] = txs[t].prelim
          ELSE j.invalid[t] = Aborted /\ \E r \in ReadsOf(txs, t) : ~Fresh(state, r)
      BY <1>1, <1>2, <1>6, Zenon DEF JobOk, Marks
    <2>2. StatusOf(j, t) = j.invalid[t]  BY <1>6, Zenon DEF StatusOf
    <2>3. txs[t].prelim # "COMMITTED"  BY <1>1, Zenon DEF Blocks
    <2>4. StatusOf(j, t) = o  BY <1>4, <2>1, <2>2, Zenon
    <2>5. StatusOf(j, t) # "COMMITTED"  BY <2>1, <2>2, <2>3, Zenon DEF Aborted
    <2> QED  BY <2>4, <2>5, <1>3, <1>5, <1>6, Zenon
  <1>7. CASE t \notin DOMAIN j.invalid
    <2>1. t \in Valid(j) /\ StatusOf(j, t) = "COMMITTED"  BY <1>2, <1>5, <1>7, Zenon DEF StatusOf
    <2>2. txs[t].prelim = None  BY <1>2, <1>7, Zenon DEF JobOk, Marks
    <2>3. \A r \in ReadsOf(txs, t) : Fresh(state, r)  BY <2>1, ValidReadsFresh, Zenon
    <2> QED  BY <2>1, <2>2, <2>3, <1>3, <1>4, ZenonT(40)
  <1> QED  BY <1>6, <1>7, Zenon

LEMMA CommitVersion ==
  ASSUME AbsentReadsApart(txs), Blocks(txs), Tables(txs, state), NEW j, j # Free,
         JobOk(txs, txStatus, state, j), j.stage = "commit", Duplicates(j) = {}, Existing(j) = {},
         CommitTables(j), NEW t \in Valid(j), NEW k \in WritesOf(txs, t)
  PROVE  state'[k] = [version |-> state[k].version + 1, writer |-> t]
  <1> PICK R : R = state'[k]  BY Zenon
  <1> PICK S : S = state[k]  BY ZenonT(40)
  <1>1. \/ k \in Inserts(j, t) /\ S = Absent /\ R = [version |-> 0, writer |-> t]
        \/ \E u \in Updates(j, t) : u[1] = k /\ R = IF S = Absent THEN Absent ELSE [version |-> u[2], writer |-> t]
    BY CommitKeys, SMTT(30)
  <1>2. CASE k \in Inserts(j, t) /\ S = Absent /\ R = [version |-> 0, writer |-> t]
    <2>1. S.version + 1 = 0  BY <1>2 DEF Absent, Nil
    <2> QED  BY <1>2, <2>1, Zenon
  <1>3. ASSUME NEW u \in Updates(j, t), u[1] = k,
               R = IF S = Absent THEN Absent ELSE [version |-> u[2], writer |-> t]
        PROVE  R = [version |-> S.version + 1, writer |-> t]
    <2>1. u[2] = S.version + 1 /\ S.version # Nil
      <3>1. CASE \E r \in txs[t].readWrites : r[2] # Nil /\ u = <<r[1], r[2] + 1>>
        <4>1. PICK r \in txs[t].readWrites : r[2] # Nil /\ u = <<r[1], r[2] + 1>>  BY <3>1, Zenon
        <4>2. Fresh(state, r)  BY ValidReadsFresh, Zenon DEF ReadsOf
        <4>3. r[1] = k /\ u[2] = r[2] + 1  BY <4>1, <1>3, Zenon
        <4> QED  BY <4>1, <4>2, <4>3, Zenon DEF Fresh
      <3>2. CASE \E x \in txs[t].blindWrites : j.blind[x] # Nil /\ u = <<x, j.blind[x] + 1>>
        <4>1. PICK x \in txs[t].blindWrites : j.blind[x] # Nil /\ u = <<x, j.blind[x] + 1>>  BY <3>2, Zenon
        <4>2. t \in Range(j.txs) \ DOMAIN j.invalid  BY ValidIs, Zenon
        <4>3. ~Stored(txs, txStatus, t)  BY ToInsertWaiting, Zenon DEF Waiting
        <4>4. j.blind[x] = state[x].version  BY <4>1, <4>2, <4>3, Zenon DEF JobOk, Blinds
        <4>5. x = k /\ u[2] = j.blind[x] + 1  BY <4>1, <1>3, ZenonT(40)
        <4> QED  BY <4>1, <4>4, <4>5, Zenon
      <3> QED  BY <3>1, <3>2, Zenon DEF Updates
    <2>2. S # Absent  BY <2>1 DEF Absent
    <2> QED  BY <1>3, <2>1, <2>2, Zenon
  <1>4. R = [version |-> S.version + 1, writer |-> t]  BY <1>1, <1>2, <1>3, Zenon
  <1> QED  BY <1>4, Zenon

LEMMA CommitSerial ==
  ASSUME AbsentReadsApart(txs), Blocks(txs), Rows(txs, txStatus), Tables(txs, state),
         NEW e, IsSerial(txs, e), AsSerial(txs, e, txStatus, state), NEW j, j # Free,
         JobOk(txs, txStatus, state, j), j.stage = "commit", Duplicates(j) = {}, Existing(j) = {},
         CommitTables(j)
  PROVE  AsSerial(txs, e, txStatus', state')
  <1> PICK D : D = txStatus  BY Zenon
  <1> PICK E : E = txStatus'  BY Zenon
  <1> PICK S : S = state  BY Zenon
  <1> PICK R : R = state'  BY ZenonT(40)
  <1>1. /\ \A t \in ToInsert(j) : E[txs[t].id] = [height |-> t, status |-> StatusOf(j, t)]
        /\ \A i \in IdsOf(txs) : E[i] # D[i] => \E t \in ToInsert(j) : txs[t].id = i
        /\ \A i \in IdsOf(txs) : D[i] # NotStored => E[i] = D[i]
    BY CommitStatuses DEF Grows
  <1>2. \A t \in ToInsert(j) : /\ StatusOf(j, t) = Outcome(txs, e, t)
                               /\ StatusOf(j, t) = "COMMITTED" <=> t \in Valid(j)
    BY CommitOutcome, Zenon
  <1>3. \A t \in Valid(j) : t \in ToInsert(j) /\ Waiting(txs, D, t) /\ t \in Tx
    BY ToInsertWaiting, Zenon DEF Waiting
  <1>4. ASSUME NEW i \in IdsOf(txs), E[i] # NotStored PROVE E[i].status = Outcome(txs, e, E[i].height)
    <2>1. CASE E[i] = D[i]  BY <1>4, <2>1, ZenonT(40) DEF AsSerial
    <2>2. CASE E[i] # D[i]
      <3>1. PICK t \in ToInsert(j) : txs[t].id = i  BY <1>1, <2>2, Zenon
      <3>2. E[i] = [height |-> t, status |-> StatusOf(j, t)]  BY <3>1, <1>1, Zenon
      <3>3. StatusOf(j, t) = Outcome(txs, e, t)  BY <1>2, Zenon
      <3> QED  BY <3>2, <3>3
    <2> QED  BY <2>1, <2>2, Zenon
  <1>5. ASSUME NEW k \in KeySet(txs), NEW x \in Writers(txs, E, k) PROVE x \in Writers(txs, D, k) \/ x \in Valid(j)
    <2>1. x \in Tx /\ k \in WritesOf(txs, x) /\ E[txs[x].id] = [height |-> x, status |-> "COMMITTED"]
      BY Zenon DEF Writers
    <2>2. CASE E[txs[x].id] = D[txs[x].id]  BY <2>1, <2>2, Zenon DEF Writers
    <2>3. CASE E[txs[x].id] # D[txs[x].id]
      <3>1. PICK t \in ToInsert(j) : txs[t].id = txs[x].id  BY <2>1, <2>3, <1>1, IdOfTx, Zenon
      <3>2. E[txs[x].id] = [height |-> t, status |-> StatusOf(j, t)]  BY <1>1, <3>1, ZenonT(40)
      <3>3. t = x /\ StatusOf(j, t) = "COMMITTED"  BY <2>1, <3>2
      <3> QED  BY <3>3, <1>2, Zenon
    <2> QED  BY <2>2, <2>3, Zenon
  <1>6. ASSUME NEW k \in KeySet(txs), NEW t \in Valid(j), k \in WritesOf(txs, t)
        PROVE  /\ t \in Writers(txs, E, k) /\ R[k] = e[t].state[k]
               /\ \A x \in Writers(txs, E, k) : x <= t
    <2>1. t \in ToInsert(j) /\ StatusOf(j, t) = "COMMITTED" /\ t \in Tx /\ Waiting(txs, D, t)  BY <1>2, <1>3, Zenon
    <2>2. t \in Writers(txs, E, k)  BY <2>1, <1>1, <1>6, ZenonT(30) DEF Writers
    <2>3. k \in KeysOf(txs, t)  BY <2>1, <1>6, KeyOfTx, ZenonT(40)
    <2>4. S[k] = e[t - 1].state[k]  BY <2>1, <2>3, WaitingFindsSerial
    <2>5. R[k] = [version |-> S[k].version + 1, writer |-> t]  BY <1>6, CommitVersion, Zenon
    <2>6. Commits(txs, e, t, k)  BY <2>1, <1>2, <1>6, Zenon DEF Commits
    <2>7. t \in Nat /\ t # 0  BY <2>1, WorkloadsAssumption, SMTT(30) DEF Tx
    <2>8. e[t].state[k] = [version |-> e[t - 1].state[k].version + 1, writer |-> t]  BY <2>6, <2>7, SerialWrite
    <2>9. ASSUME NEW x \in Writers(txs, E, k) PROVE x <= t
      <3>1. CASE x \in Writers(txs, D, k)
        <4>1. x \in 1..(t - 1)  BY <3>1, <2>1, <2>3, WritersBefore, ZenonT(40)
        <4> QED  BY <4>1, <2>7
      <3>2. CASE x \in Valid(j)
        <4>1. k \in WritesOf(txs, x)  BY Zenon DEF Writers
        <4>2. Clash(txs, x, t)  BY <4>1, <2>3, Zenon DEF Clash
        <4>3. x = t  BY <4>2, <3>2, <1>3, <2>1, Apart, ZenonT(40) DEF Waiting
        <4> QED  BY <4>3, <2>7
      <3> QED  BY <3>1, <3>2, <1>5, Zenon
    <2> QED  BY <2>2, <2>4, <2>5, <2>8, <2>9, ZenonT(40)
  <1>7. ASSUME NEW k \in KeySet(txs), ~\E t \in Valid(j) : k \in WritesOf(txs, t)
        PROVE  R[k] = S[k] /\ Writers(txs, E, k) = Writers(txs, D, k)
    <2>1. R[k] = S[k]  BY <1>7, CommitKeys, Zenon
    <2>2. ASSUME NEW x \in Writers(txs, E, k) PROVE x \in Writers(txs, D, k)
      BY <1>5, <1>7, Zenon DEF Writers
    <2>3. ASSUME NEW x \in Writers(txs, D, k) PROVE x \in Writers(txs, E, k)
      <3>1. x \in Tx /\ k \in WritesOf(txs, x) /\ D[txs[x].id] = [height |-> x, status |-> "COMMITTED"]
            /\ txs[x].id \in IdsOf(txs)
        BY IdOfTx, ZenonT(40) DEF Writers
      <3>2. D[txs[x].id] # NotStored  BY <3>1 DEF NotStored, Tx
      <3> QED  BY <3>1, <3>2, <1>1, Zenon DEF Writers
    <2> QED  BY <2>1, <2>2, <2>3, Zenon
  <1>8. ASSUME NEW k \in KeySet(txs)
        PROVE  /\ Writers(txs, E, k) = {} => R[k] = Absent
               /\ \A m \in Writers(txs, E, k) :
                    (\A x \in Writers(txs, E, k) : x <= m) => R[k] = e[m].state[k]
    <2>1. CASE \E t \in Valid(j) : k \in WritesOf(txs, t)
      <3>1. PICK t \in Valid(j) : k \in WritesOf(txs, t)  BY <2>1, Zenon
      <3>2. /\ t \in Writers(txs, E, k) /\ R[k] = e[t].state[k]
            /\ \A x \in Writers(txs, E, k) : x <= t
        BY <3>1, <1>6, Zenon
      <3>3. ASSUME NEW m \in Writers(txs, E, k), \A x \in Writers(txs, E, k) : x <= m PROVE m = t
        <4>1. m <= t /\ t <= m  BY <3>2, <3>3, ZenonT(40)
        <4>2. m \in Int /\ t \in Int  BY <3>2, WorkloadsAssumption DEF Writers, Tx
        <4> QED  BY <4>1, <4>2
      <3> QED  BY <3>2, <3>3, Zenon
    <2>2. CASE ~\E t \in Valid(j) : k \in WritesOf(txs, t)
      BY <2>2, <1>7, ZenonT(30) DEF AsSerial
    <2> QED  BY <2>1, <2>2, Zenon
  <1>9. AsSerial(txs, e, E, R)  BY <1>4, <1>8, ZenonT(30) DEF AsSerial
  <1> QED  BY <1>9, Zenon

-----------------------------------------------------------------------------
(* The order invariant, action by action.                                   *)

LEMMA BlocksOfWorkload ==
  ASSUME NEW u \in Workloads  PROVE Blocks(u.txs)
  <1>1. DOMAIN u.txs = Tx  BY WorkloadsAssumption, Zenon DEF Tx
  <1>2. ASSUME NEW t \in Tx PROVE u.txs[t] \in Range(u.txs)  BY <1>1, Zenon DEF Range
  <1> QED  BY <1>1, <1>2, WorkloadsAssumption, Zenon DEF Blocks, ReadsOf, Dup

LEMMA JobsUpdate ==
  ASSUME NEW c, NEW D, NEW S, NEW J, Jobs(c, D, S, J), NEW v \in VC, NEW w \in Worker,
         NEW x, JobOk(c, D, S, x)
  PROVE  Jobs(c, D, S, [J EXCEPT ![v][w] = x])
  <1> DEFINE K == [J EXCEPT ![v][w] = x]
  <1>1. DOMAIN K = VC /\ \A y \in VC : DOMAIN K[y] = Worker  BY Zenon DEF Jobs
  <1>2. ASSUME NEW y \in VC, NEW z \in Worker PROVE K[y][z] = IF y = v /\ z = w THEN x ELSE J[y][z]
    BY Zenon DEF Jobs
  <1>3. ASSUME NEW y \in VC, NEW z \in Worker PROVE JobOk(c, D, S, K[y][z])
    <2>1. JobOk(c, D, S, J[y][z])  BY Zenon DEF Jobs
    <2>2. CASE y = v /\ z = w  BY <2>2, <1>2, Zenon
    <2>3. CASE ~(y = v /\ z = w)  BY <2>1, <2>3, <1>2, ZenonT(40)
    <2> QED  BY <2>2, <2>3, Zenon
  <1> QED  BY <1>1, <1>3, Zenon DEF Jobs

LEMMA CommitStep ==
  ASSUME OrderInv, txs' = txs, NEW v \in VC, NEW w \in Worker, Commit(v, w)
  PROVE  OrderInv'
  <1> DEFINE j == job[v][w]
             x == [j EXCEPT !.stage = "committed"]
  <1>1. /\ j.stage = "commit" /\ Duplicates(j) = {} /\ Existing(j) = {} /\ CommitTables(j)
        /\ job' = job \/ job' = [job EXCEPT ![v][w].stage = "committed"]
        /\ queue' = queue /\ out' = out /\ answered' = answered
    BY Zenon DEF Commit
  <1>2. Blocks(txs) /\ Rows(txs, txStatus) /\ Tables(txs, state) /\ JobOk(txs, txStatus, state, j)
    BY Zenon DEF OrderInv, Jobs
  <1>3. j # Free  BY <1>1 DEF Free
  <1> HIDE DEF j
  <1>4. Advance(txs, txStatus, state, txStatus', state')  BY <1>1, <1>2, <1>3, CommitAdvance, Zenon
  <1>5. Rows(txs, txStatus') /\ Grows(txs, txStatus, txStatus')  BY <1>1, <1>2, <1>3, CommitStatuses, Zenon
  <1>6. Tables(txs, state')  BY <1>1, <1>2, <1>3, CommitKeys, Zenon
  <1>7. Jobs(txs, txStatus', state', job)  BY <1>4, JobKept, Zenon DEF OrderInv, Jobs
  <1>8. JobOk(txs, txStatus', state', x)
    <2>1. JobOk(txs, txStatus', state', j)  BY <1>2, <1>4, JobKept, Zenon
    <2>2. /\ x.stage = "committed" /\ x.txs = j.txs /\ x.invalid = j.invalid
          /\ x = [stage |-> x.stage, txs |-> x.txs, invalid |-> x.invalid, blind |-> x.blind]
      BY <1>2, <1>3 DEF JobOk, IsJob
    <2>3. IsJob(txs, x)  BY <2>2, <1>2, <1>3, Zenon DEF JobOk, IsJob
    <2>4. Range(x.txs) \subseteq Ordered(txs, txStatus')  BY <2>1, <2>2, <1>3, Zenon DEF JobOk
    <2>5. Marks(txs, txStatus', state', x)  BY <2>1, <2>2, <1>3, Zenon DEF JobOk, Marks
    <2>6. Blinds(txs, txStatus', state', x) /\ Checked(txs, txStatus', state', x)
      BY <2>2, Zenon DEF Blinds, Checked
    <2>7. Done(txs, txStatus', x)
      <3> SUFFICES ASSUME NEW t \in Range(j.txs)
                   PROVE  IF StatusOf(j, t) = Dup THEN Stored(txs, txStatus', t)
                          ELSE txStatus'[txs[t].id] = [height |-> t, status |-> StatusOf(j, t)]
        BY <2>2, Zenon DEF Done, StatusOf
      <3>1. CASE t \in ToInsert(j)
        <4>1. StatusOf(j, t) # Dup  BY <3>1, Zenon DEF ToInsert, Dup
        <4>2. txStatus'[txs[t].id] = [height |-> t, status |-> StatusOf(j, t)]
          BY <3>1, <1>1, <1>2, <1>3, CommitStatuses, ZenonT(40)
        <4> QED  BY <4>1, <4>2, Zenon
      <3>2. CASE t \notin ToInsert(j)
        <4>1. StatusOf(j, t) = Dup /\ Stored(txs, txStatus, t)
          BY <3>2, <1>1, <1>2, <1>3, ToInsertWaiting, ZenonT(40)
        <4>2. t \in Tx  BY <1>2, <1>3, Zenon DEF JobOk, Ordered
        <4> QED  BY <4>1, <4>2, <1>5, StoredKept, Zenon
      <3> QED  BY <3>1, <3>2, Zenon
    <2> HIDE DEF x
    <2> QED  BY <2>3, <2>4, <2>5, <2>6, <2>7, ZenonT(40) DEF JobOk
  <1>9. Jobs(txs, txStatus', state', job')
    <2>1. CASE job' = job  BY <2>1, <1>7, Zenon
    <2>2. CASE job' = [job EXCEPT ![v][w].stage = "committed"]
      <3>1. job' = [job EXCEPT ![v][w] = x]  BY <2>2, Zenon DEF j
      <3> HIDE DEF x
      <3> QED  BY <3>1, <1>7, <1>8, JobsUpdate, ZenonT(30)
    <2> QED  BY <1>1, <2>1, <2>2, Zenon
  <1>10. Queues(txs, txStatus', queue') /\ Outs(txs, txStatus', out') /\ Answers(txs, txStatus', answered')
    BY <1>1, <1>5, RestKept, Zenon DEF OrderInv
  <1> QED  BY <1>2, <1>5, <1>6, <1>9, <1>10, ZenonT(40) DEF OrderInv

-----------------------------------------------------------------------------
(* The other steps.                                                          *)

LEMMA OrderInit == Init => OrderInv
  <1> SUFFICES ASSUME Init PROVE OrderInv  BY Zenon
  <1>1. PICK u \in Workloads : txs = u.txs  BY Zenon DEF Init
  <1>2. Blocks(txs)  BY <1>1, BlocksOfWorkload, Zenon
  <1>3. txStatus = [i \in IdsOf(txs) |-> NotStored] /\ state = [k \in KeySet(txs) |-> Absent]
    BY Names, Zenon DEF Init
  <1>4. Rows(txs, txStatus) /\ Tables(txs, state)  BY <1>3, Zenon DEF Rows, Tables
  <1>5. Queues(txs, txStatus, queue)  BY DEF Init, Queues
  <1>6. Jobs(txs, txStatus, state, job)  BY Zenon DEF Init, Jobs, JobOk
  <1>7. Outs(txs, txStatus, out)  BY DEF Init, Outs
  <1>8. Answers(txs, txStatus, answered)  BY Zenon DEF Init, Answers
  <1> QED  BY <1>2, <1>4, <1>5, <1>6, <1>7, <1>8, ZenonT(40) DEF OrderInv

LEMMA DurableStored ==
  ASSUME NEW c, NEW D, NEW t \in Tx, NEW s, Durable(c, D, t, s)
  PROVE  Stored(c, D, t)
  <1>1. t # 0 /\ 0 \notin 1..(t - 1)  BY WorkloadsAssumption DEF Tx
  <1> QED  BY <1>1 DEF Durable, Stored, NotStored

LEMMA SendStep ==
  ASSUME OrderInv, txs' = txs, NEW v \in VC, NEW t \in Tx, Send(v, t)
  PROVE  OrderInv'
  <1>1. /\ Ready(t) /\ queue' = [queue EXCEPT ![v] = Append(@, t)]
        /\ txStatus' = txStatus /\ state' = state /\ job' = job /\ out' = out /\ answered' = answered
    BY Zenon DEF Send, db
  <1>2. ASSUME NEW s \in 1..(t - 1), Clash(txs, s, t) PROVE Stored(txs, txStatus, s)
    <2>1. s \in Tx  BY WorkloadsAssumption DEF Tx
    <2>2. answered[s] # None  BY <1>1, <1>2, Names, Zenon DEF Ready
    <2>3. Durable(txs, txStatus, s, answered[s])  BY <2>1, <2>2, Zenon DEF OrderInv, Answers
    <2> QED  BY <2>1, <2>3, DurableStored, Zenon
  <1>3. t \in Ordered(txs, txStatus)  BY <1>2, Zenon DEF Ordered, Behind
  <1>4. Queues(txs, txStatus, queue')
    <2>1. Queues(txs, txStatus, queue)  BY Zenon DEF OrderInv
    <2>2. Append(queue[v], t) \in Seq(Ordered(txs, txStatus))  BY <2>1, <1>3 DEF Queues
    <2> QED  BY <2>1, <2>2, <1>1, Zenon DEF Queues
  <1> QED  BY <1>1, <1>4, Zenon DEF OrderInv

LEMMA DeliverStep ==
  ASSUME OrderInv, txs' = txs, NEW v \in VC, Deliver(v)
  PROVE  OrderInv'
  <1> DEFINE tracked == {a \in Head(out[v]) : a.height \in pending[v]}
  <1>1. /\ out[v] # <<>> /\ out' = [out EXCEPT ![v] = Tail(@)]
        /\ answered' = [t \in Tx |-> IF \E a \in tracked : a.height = t
                                     THEN (CHOOSE a \in tracked : a.height = t).status ELSE answered[t]]
        /\ txStatus' = txStatus /\ state' = state /\ job' = job /\ queue' = queue
    BY ZenonT(30) DEF Deliver, db
  <1>2. Outs(txs, txStatus, out) /\ Answers(txs, txStatus, answered)  BY Zenon DEF OrderInv
  <1>3. Head(out[v]) \in SUBSET Given(txs, txStatus) /\ Tail(out[v]) \in Seq(SUBSET Given(txs, txStatus))
    BY <1>1, <1>2 DEF Outs
  <1>4. Outs(txs, txStatus, out')  BY <1>1, <1>2, <1>3, Zenon DEF Outs
  <1>5. ASSUME NEW t \in Tx, answered'[t] # None PROVE Durable(txs, txStatus, t, answered'[t])
    <2>1. CASE \E a \in tracked : a.height = t
      <3>1. PICK a : a = CHOOSE e \in tracked : e.height = t  BY Zenon
      <3>2. a \in tracked /\ a.height = t  BY <2>1, <3>1, Zenon
      <3>3. answered'[t] = a.status  BY <1>1, <2>1, <3>1, Zenon
      <3>4. a \in Given(txs, txStatus)  BY <3>2, <1>3, Zenon
      <3> QED  BY <3>2, <3>3, <3>4, Zenon DEF Given
    <2>2. CASE ~\E a \in tracked : a.height = t
      <3>1. answered'[t] = answered[t]  BY <1>1, <2>2, Zenon
      <3> QED  BY <3>1, <1>2, <1>5, Zenon DEF Answers
    <2> QED  BY <2>1, <2>2, Zenon
  <1>6. Answers(txs, txStatus, answered')  BY <1>1, <1>5, Zenon DEF Answers
  <1> QED  BY <1>1, <1>4, <1>6, ZenonT(30) DEF OrderInv

LEMMA StreamFailsStep ==
  ASSUME OrderInv, txs' = txs, NEW v \in VC, StreamFails(v)
  PROVE  OrderInv'
  <1>1. /\ \E n \in 0..Len(queue[v]) : queue' = [queue EXCEPT ![v] = SubSeq(@, 1, n)]
        /\ \E n \in 0..Len(out[v]) : out' = [out EXCEPT ![v] = SubSeq(@, n + 1, Len(@))]
        /\ txStatus' = txStatus /\ state' = state /\ job' = job /\ answered' = answered
    BY ZenonT(30) DEF StreamFails, db
  <1>2. Queues(txs, txStatus, queue) /\ Outs(txs, txStatus, out)  BY Zenon DEF OrderInv
  <1>3. Queues(txs, txStatus, queue')
    <2>1. PICK n \in 0..Len(queue[v]) : queue' = [queue EXCEPT ![v] = SubSeq(@, 1, n)]  BY <1>1, ZenonT(30)
    <2>2. SubSeq(queue[v], 1, n) \in Seq(Ordered(txs, txStatus))  BY <1>2 DEF Queues
    <2> QED  BY <2>1, <2>2, <1>2, Zenon DEF Queues
  <1>4. Outs(txs, txStatus, out')
    <2>1. PICK n \in 0..Len(out[v]) : out' = [out EXCEPT ![v] = SubSeq(@, n + 1, Len(@))]  BY <1>1, ZenonT(30)
    <2>2. SubSeq(out[v], n + 1, Len(out[v])) \in Seq(SUBSET Given(txs, txStatus))
      <3>1. PICK s \in Seq(SUBSET Given(txs, txStatus)) : s = out[v]  BY <1>2, ZenonT(30) DEF Outs
      <3>2. n \in 0..Len(s)  BY <2>1, <3>1, Zenon
      <3>3. SubSeq(s, n + 1, Len(s)) \in Seq(SUBSET Given(txs, txStatus))  BY <3>1, <3>2
      <3> QED  BY <3>1, <3>3, Zenon
    <2> QED  BY <2>1, <2>2, <1>2, ZenonT(30) DEF Outs
  <1> QED  BY <1>1, <1>3, <1>4, Zenon DEF OrderInv

LEMMA VCRestartsStep ==
  ASSUME OrderInv, txs' = txs, NEW v \in VC, VCRestarts(v)
  PROVE  OrderInv'
  <1>1. /\ queue' = [queue EXCEPT ![v] = <<>>] /\ out' = [out EXCEPT ![v] = <<>>]
        /\ job' = [job EXCEPT ![v] = [w \in Worker |-> Free]]
        /\ txStatus' = txStatus /\ state' = state /\ answered' = answered
    BY Zenon DEF VCRestarts, Crash, db
  <1>2. Queues(txs, txStatus, queue')  BY <1>1 DEF OrderInv, Queues
  <1>3. Outs(txs, txStatus, out')  BY <1>1 DEF OrderInv, Outs
  <1>4. Jobs(txs, txStatus, state, job')
    <2>1. Jobs(txs, txStatus, state, job)  BY Zenon DEF OrderInv
    <2>2. JobOk(txs, txStatus, state, Free)  BY Zenon DEF JobOk
    <2>3. DOMAIN job' = VC /\ \A y \in VC : DOMAIN job'[y] = Worker  BY <1>1, <2>1, Zenon DEF Jobs
    <2>4. ASSUME NEW y \in VC, NEW w \in Worker PROVE job'[y][w] = Free \/ job'[y][w] = job[y][w]
      BY <1>1, <2>1, Zenon DEF Jobs
    <2> QED  BY <2>1, <2>2, <2>3, <2>4, Zenon DEF Jobs
  <1> QED  BY <1>1, <1>2, <1>3, <1>4, Zenon DEF OrderInv

LEMMA CoordinatorRestartsStep ==
  ASSUME OrderInv, txs' = txs, CoordinatorRestarts  PROVE OrderInv'
  <1>1. /\ answered' = [t \in Tx |-> None] /\ txStatus' = txStatus /\ state' = state
        /\ queue' = queue /\ job' = job /\ out' = out
    BY Zenon DEF CoordinatorRestarts, db
  <1>2. Answers(txs, txStatus, answered')  BY <1>1, Zenon DEF Answers
  <1> QED  BY <1>1, <1>2, Zenon DEF OrderInv

LEMMA PrepareStep ==
  ASSUME OrderInv, txs' = txs, NEW v \in VC, NEW w \in Worker, Prepare(v, w)
  PROVE  OrderInv'
  <1>1. PICK n \in 1..Len(queue[v]) :
          /\ job' = [job EXCEPT ![v][w] =
                 [stage   |-> "prepared",
                  txs     |-> KeepFirst(SubSeq(queue[v], 1, n)),
                  invalid |-> [t \in {s \in Range(KeepFirst(SubSeq(queue[v], 1, n))) : Prelim(s)} |-> txs[t].prelim],
                  blind   |-> <<>>]]
          /\ queue' = [queue EXCEPT ![v] = SubSeq(@, n + 1, Len(@))]
    BY ZenonT(30) DEF Prepare
  <1>2. txStatus' = txStatus /\ state' = state /\ out' = out /\ answered' = answered  BY Zenon DEF Prepare, db
  <1>3. Queues(txs, txStatus, queue) /\ Jobs(txs, txStatus, state, job)  BY Zenon DEF OrderInv
  <1> DEFINE q == SubSeq(queue[v], 1, n)
             b == KeepFirst(q)
             x == [stage |-> "prepared", txs |-> b,
                   invalid |-> [t \in {s \in Range(b) : Prelim(s)} |-> txs[t].prelim], blind |-> <<>>]
  <1>4. q \in Seq(Ordered(txs, txStatus)) /\ SubSeq(queue[v], n + 1, Len(queue[v])) \in Seq(Ordered(txs, txStatus))
    BY <1>3 DEF Queues
  <1>5. Queues(txs, txStatus, queue')  BY <1>1, <1>3, <1>4, Zenon DEF Queues
  <1>6. DOMAIN b \subseteq Nat /\ Range(b) \subseteq Ordered(txs, txStatus)
    <2> HIDE DEF q
    <2>1. DOMAIN q \subseteq Nat /\ \A i \in DOMAIN q : q[i] \in Ordered(txs, txStatus)  BY <1>4
    <2>2. DOMAIN b \subseteq DOMAIN q /\ \A i \in DOMAIN b : b[i] = q[i]  BY Zenon DEF KeepFirst, Restrict
    <2> HIDE DEF b
    <2> QED  BY <2>1, <2>2, ZenonT(30) DEF Range
  <1>7. JobOk(txs, txStatus, state, x)
    <2> HIDE DEF b
    <2>1. IsJob(txs, x)
      <3>1. \A t \in Range(b) : t \in Tx  BY <1>6, Zenon DEF Ordered
      <3> QED  BY <3>1, <1>6, ZenonT(30) DEF IsJob, Status
    <2>2. Marks(txs, txStatus, state, x)  BY ZenonT(30) DEF Marks, Prelim
    <2>3. Blinds(txs, txStatus, state, x) /\ Checked(txs, txStatus, state, x) /\ Done(txs, txStatus, x)
      BY ZenonT(30) DEF Blinds, Checked, Done
    <2>4. Range(x.txs) \subseteq Ordered(txs, txStatus)  BY <1>6, Zenon
    <2> HIDE DEF x
    <2> QED  BY <2>1, <2>2, <2>3, <2>4, Zenon DEF JobOk
  <1>8. job' = [job EXCEPT ![v][w] = x]  BY <1>1, Zenon
  <1> HIDE DEF x
  <1>9. Jobs(txs, txStatus, state, job')  BY <1>3, <1>7, <1>8, JobsUpdate, ZenonT(30)
  <1> QED  BY <1>2, <1>5, <1>9, Zenon DEF OrderInv

\* The transactions ts of a batch are marked with s.
LEMMA InvalidateOk ==
  ASSUME NEW c, NEW D, NEW S, NEW j, j # Free, JobOk(c, D, S, j), NEW ts, NEW s \in Status(c), NEW x,
         x = [stage |-> x.stage, txs |-> j.txs, invalid |-> Over([t \in ts |-> s], j.invalid), blind |-> j.blind],
         \A t \in ts : \/ Stored(c, D, t)
                       \/ c[t].prelim = None /\ s = Aborted /\ \E r \in ReadsOf(c, t) : ~Fresh(S, r),
         \/ x.stage = "commit" /\ j.stage = "commit"
         \/ x.stage = "validated" /\ Checked(c, D, S, x)
  PROVE  JobOk(c, D, S, x)
  <1> DEFINE inv == x.invalid
  <1>0. IsJob(c, j) /\ Marks(c, D, S, j) /\ Blinds(c, D, S, j) /\ Checked(c, D, S, j)  BY Zenon DEF JobOk
  <1>1. x.txs = j.txs /\ x.blind = j.blind /\ inv = Over([t \in ts |-> s], j.invalid)  OBVIOUS
  <1>2. DOMAIN inv = ts \cup DOMAIN j.invalid /\ \A t \in DOMAIN inv : inv[t] = IF t \in ts THEN s ELSE j.invalid[t]
    BY <1>1, ZenonT(30) DEF Over
  <1>3. x = [stage |-> x.stage, txs |-> x.txs, invalid |-> x.invalid, blind |-> x.blind]  BY <1>1, Zenon
  <1> HIDE DEF inv
  <1>4. IsJob(c, x)
    <2>1. \A t \in DOMAIN inv : inv[t] \in Status(c)  BY <1>0, <1>2, Zenon DEF IsJob
    <2> QED  BY <1>0, <1>1, <1>3, <2>1, ZenonT(30) DEF IsJob, inv
  <1>5. Marks(c, D, S, x)
    <2> SUFFICES ASSUME NEW t \in Range(j.txs)
                 PROVE  /\ c[t].prelim # None => t \in DOMAIN inv
                        /\ t \in DOMAIN inv /\ ~Stored(c, D, t) =>
                             IF c[t].prelim # None THEN inv[t] = c[t].prelim
                             ELSE inv[t] = Aborted /\ \E r \in ReadsOf(c, t) : ~Fresh(S, r)
      BY <1>1, ZenonT(30) DEF Marks, inv
    <2>1. CASE t \in ts  BY <2>1, <1>2, ZenonT(30)
    <2>2. CASE t \notin ts  BY <2>2, <1>0, <1>2, ZenonT(30) DEF Marks
    <2> QED  BY <2>1, <2>2, ZenonT(30)
  <1>6. Range(x.txs) \ DOMAIN inv \subseteq Range(j.txs) \ DOMAIN j.invalid  BY <1>1, <1>2, ZenonT(30)
  <1>7. Blinds(c, D, S, x)  BY <1>0, <1>1, <1>6 DEF Blinds, inv
  <1>8. Checked(c, D, S, x)  BY <1>0, <1>1, <1>6, Zenon DEF Checked, inv
  <1>9. Done(c, D, x)  BY Zenon DEF Done
  <1>10. Range(x.txs) \subseteq Ordered(c, D)  BY <1>1, Zenon DEF JobOk
  <1> QED  BY <1>4, <1>5, <1>7, <1>8, <1>9, <1>10, ZenonT(40) DEF JobOk

\* A read that no reader in the batch adds to those to validate is one of a key
\* that its first reader inserts.
LEMMA MinOf ==
  ASSUME NEW T \in SUBSET Nat, T # {}
  PROVE  Min(T) \in T
  <1>1. \E x \in T : \A y \in T : x <= y  BY Least, Zenon
  <1> QED  BY <1>1, Zenon DEF Min

LEMMA Unvalidated ==
  ASSUME AbsentReadsApart(txs), NEW b, DOMAIN b \subseteq Nat, Range(b) \subseteq Tx,
         NEW t \in Prepared(b), NEW r \in ReadsOf(txs, t), r \notin ToValidate(b)
  PROVE  r[2] = Nil /\ r \in txs[t].readWrites
  <1> DEFINE I == {i \in DOMAIN b : ~Prelim(b[i]) /\ r \in AllReads(b[i])}
  <1>1. t \in Range(b) /\ ~Prelim(t)  BY Zenon DEF Prepared
  <1>2. PICK p \in DOMAIN b : b[p] = t  BY <1>1, Zenon DEF Range
  <1>3. p \in I  BY <1>1, <1>2, Names, Zenon
  <1>4. Min(I) \in I  BY <1>3, MinOf, Zenon
  <1>5. FirstReader(b, r) = b[Min(I)]  BY Zenon DEF FirstReader
  <1>6. PICK f : f = FirstReader(b, r)  BY Zenon
  <1>7. f \in Tx /\ r \in ReadsOf(txs, f)  BY <1>4, <1>5, <1>6, Names, ZenonT(30) DEF Range
  <1>8. r \in BatchReads(b)  BY Names, Zenon DEF BatchReads
  <1>9. r[2] = Nil /\ r \notin txs[f].readsOnly  BY <1>6, <1>8, ZenonT(30) DEF ToValidate
  <1>10. r \in txs[f].readWrites  BY <1>7, <1>9, ZenonT(30) DEF ReadsOf
  <1>11. t \in Tx  BY <1>1, Zenon
  <1>12. r \notin txs[t].readsOnly  BY <1>7, <1>9, <1>10, <1>11, ZenonT(30) DEF AbsentReadsApart
  <1> QED  BY <1>9, <1>12, Zenon DEF ReadsOf

LEMMA JobRecord ==
  ASSUME NEW c, NEW j, IsJob(c, j), NEW s, NEW i
  PROVE  [[j EXCEPT !.invalid = i] EXCEPT !.stage = s] =
           [stage |-> s, txs |-> j.txs, invalid |-> i, blind |-> j.blind]
  <1>1. PICK y : y = [j EXCEPT !.invalid = i]  BY ZenonT(30)
  <1>2. y = [stage |-> j.stage, txs |-> j.txs, invalid |-> i, blind |-> j.blind]  BY <1>1, Zenon DEF IsJob
  <1>3. [y EXCEPT !.stage = s] = [stage |-> s, txs |-> j.txs, invalid |-> i, blind |-> j.blind]  BY <1>2
  <1> QED  BY <1>1, <1>3, Zenon

LEMMA ValidateStep ==
  ASSUME OrderInv, txs' = txs, NEW v \in VC, NEW w \in Worker, Validate(v, w)
  PROVE  OrderInv'
  <1> DEFINE j == job[v][w]
             hit == UNION {Readers(j.txs, r) : r \in ReadConflicts(ToValidate(j.txs))}
             x == [Invalidate(j, hit, Aborted) EXCEPT !.stage = "validated"]
  <1>1. /\ j.stage = "prepared" /\ job' = [job EXCEPT ![v][w] = x]
        /\ txStatus' = txStatus /\ state' = state /\ queue' = queue /\ out' = out /\ answered' = answered
    BY Zenon DEF Validate, db, Aborted
  <1>2. Jobs(txs, txStatus, state, job) /\ JobOk(txs, txStatus, state, j)  BY ZenonT(30) DEF OrderInv, Jobs
  <1>3. j # Free  BY <1>1 DEF Free
  <1> HIDE DEF j
  <1>4. IsJob(txs, j) /\ Range(j.txs) \subseteq Tx  BY <1>2, <1>3, Zenon DEF JobOk, Ordered
  <1>5. \A t : t \in hit <=> t \in Prepared(j.txs) /\ \E r \in ReadsOf(txs, t) : r \in ToValidate(j.txs) /\ ~Fresh(state, r)
    <2>1. ASSUME NEW t \in hit
          PROVE  t \in Prepared(j.txs) /\ \E r \in ReadsOf(txs, t) : r \in ToValidate(j.txs) /\ ~Fresh(state, r)
      BY Names, Zenon DEF Readers, ReadConflicts, Stale, Fresh
    <2>2. ASSUME NEW t \in Prepared(j.txs), NEW r \in ReadsOf(txs, t), r \in ToValidate(j.txs), ~Fresh(state, r)
          PROVE  t \in hit
      <3>1. r \in ReadConflicts(ToValidate(j.txs))  BY <2>2, ZenonT(30) DEF ReadConflicts, Stale, Fresh
      <3>2. t \in Readers(j.txs, r)  BY Names, Zenon DEF Readers
      <3> QED  BY <3>1, <3>2, Zenon
    <2> QED  BY <2>1, <2>2, ZenonT(30)
  <1> HIDE DEF hit
  <1>6. /\ x.txs = j.txs /\ x.stage = "validated" /\ x.invalid = Over([t \in hit |-> Aborted], j.invalid)
        /\ x = [stage |-> x.stage, txs |-> j.txs, invalid |-> Over([t \in hit |-> Aborted], j.invalid), blind |-> j.blind]
    <2>1. x = [stage |-> "validated", txs |-> j.txs, invalid |-> Over([t \in hit |-> Aborted], j.invalid), blind |-> j.blind]
      BY <1>4, JobRecord, ZenonT(30) DEF Invalidate
    <2> HIDE DEF x
    <2> QED  BY <2>1, ZenonT(30)
  <1> HIDE DEF x
  <1>7. ASSUME NEW t \in hit PROVE txs[t].prelim = None /\ \E r \in ReadsOf(txs, t) : ~Fresh(state, r)
    BY <1>5, ZenonT(30) DEF Prepared, Prelim
  <1>8. Checked(txs, txStatus, state, x)
    <2> SUFFICES ASSUME AbsentReadsApart(txs), NEW t \in Range(j.txs) \ DOMAIN x.invalid, NEW r \in ReadsOf(txs, t)
                 PROVE  Fresh(state, r) \/ (r[2] = Nil /\ r \in txs[t].readWrites)
      BY <1>6, ZenonT(30) DEF Checked
    <2>1. t \notin hit /\ t \notin DOMAIN j.invalid  BY <1>6, Zenon DEF Over
    <2>2. t \in Prepared(j.txs)
      <3>1. txs[t].prelim = None  BY <2>1, <1>2, <1>3, ZenonT(30) DEF JobOk, Marks
      <3> QED  BY <3>1, Zenon DEF Prepared, Prelim
    <2>3. CASE r \in ToValidate(j.txs)  BY <2>1, <2>2, <2>3, <1>5, ZenonT(30)
    <2>4. CASE r \notin ToValidate(j.txs)  BY <2>2, <2>4, <1>4, Unvalidated, ZenonT(40) DEF IsJob
    <2> QED  BY <2>3, <2>4, ZenonT(30)
  <1>9. Aborted \in Status(txs)  BY Zenon DEF Status
  <1>10. JobOk(txs, txStatus, state, x)  BY <1>2, <1>3, <1>6, <1>7, <1>8, <1>9, InvalidateOk, ZenonT(40)
  <1>11. Jobs(txs, txStatus, state, job')  BY <1>1, <1>2, <1>10, JobsUpdate, ZenonT(30)
  <1> QED  BY <1>1, <1>11, ZenonT(30) DEF OrderInv

LEMMA CategorizeStep ==
  ASSUME OrderInv, txs' = txs, NEW v \in VC, NEW w \in Worker, Categorize(v, w)
  PROVE  OrderInv'
  <1> DEFINE j == job[v][w]
             blind == Versions(UNION {txs[t].blindWrites : t \in Valid(j)})
             x == [j EXCEPT !.stage = "commit", !.blind = blind]
  <1>1. /\ j.stage = "validated" /\ job' = [job EXCEPT ![v][w] = x]
        /\ txStatus' = txStatus /\ state' = state /\ queue' = queue /\ out' = out /\ answered' = answered
    BY Zenon DEF Categorize, db
  <1>2. Jobs(txs, txStatus, state, job) /\ JobOk(txs, txStatus, state, j)  BY Zenon DEF OrderInv, Jobs
  <1>3. j # Free  BY <1>1 DEF Free
  <1> HIDE DEF j
  <1>4. IsJob(txs, j) /\ Marks(txs, txStatus, state, j) /\ Checked(txs, txStatus, state, j)
        /\ Range(j.txs) \subseteq Ordered(txs, txStatus)
    BY <1>2, <1>3, Zenon DEF JobOk
  <1>5. Valid(j) = Range(j.txs) \ DOMAIN j.invalid  BY <1>2, <1>3, ValidIs, Zenon
  <1>6. ASSUME NEW t \in Range(j.txs) \ DOMAIN j.invalid, NEW k \in txs[t].blindWrites
        PROVE  k \in DOMAIN blind /\ blind[k] = state[k].version
    BY <1>5, Zenon DEF Versions
  <1> HIDE DEF blind
  <1>7. /\ x.txs = j.txs /\ x.stage = "commit" /\ x.invalid = j.invalid /\ x.blind = blind
        /\ x = [stage |-> x.stage, txs |-> x.txs, invalid |-> x.invalid, blind |-> x.blind]
    <2>1. x = [stage |-> "commit", txs |-> j.txs, invalid |-> j.invalid, blind |-> blind]
      <3>1. PICK y : y = [j EXCEPT !.stage = "commit"]  BY ZenonT(30)
      <3>2. y = [stage |-> "commit", txs |-> j.txs, invalid |-> j.invalid, blind |-> j.blind]
        BY <1>4, <3>1, Zenon DEF IsJob
      <3>3. [y EXCEPT !.blind = blind] = [stage |-> "commit", txs |-> j.txs, invalid |-> j.invalid, blind |-> blind]
        BY <3>2
      <3> QED  BY <3>1, <3>3, Zenon
    <2> HIDE DEF x
    <2> QED  BY <2>1, Zenon
  <1> HIDE DEF x
  <1>8. IsJob(txs, x)  BY <1>4, <1>7, Zenon DEF IsJob
  <1>9. Marks(txs, txStatus, state, x)  BY <1>4, <1>7, ZenonT(30) DEF Marks
  <1>10. Blinds(txs, txStatus, state, x)  BY <1>6, <1>7, Zenon DEF Blinds
  <1>11. Checked(txs, txStatus, state, x)  BY <1>1, <1>4, <1>7, ZenonT(30) DEF Checked, j
  <1>12. Done(txs, txStatus, x)  BY <1>7, Zenon DEF Done
  <1>13. JobOk(txs, txStatus, state, x)  BY <1>4, <1>7, <1>8, <1>9, <1>10, <1>11, <1>12, ZenonT(40) DEF JobOk
  <1>14. Jobs(txs, txStatus, state, job')  BY <1>1, <1>2, <1>13, JobsUpdate, ZenonT(30)
  <1> QED  BY <1>1, <1>14, Zenon DEF OrderInv

LEMMA CommitRejectedStep ==
  ASSUME OrderInv, txs' = txs, NEW v \in VC, NEW w \in Worker, CommitRejected(v, w)
  PROVE  OrderInv'
  <1> DEFINE j == job[v][w]
             hit == UNION {Readers(j.txs, <<k, Nil>>) : k \in Existing(j)}
             dup == Invalidate(j, Duplicates(j), Dup)
             abt == Invalidate(j, hit, Aborted)
  <1>1. /\ j.stage = "commit"
        /\ job' = [job EXCEPT ![v][w] = dup] \/ job' = [job EXCEPT ![v][w] = abt]
        /\ txStatus' = txStatus /\ state' = state /\ queue' = queue /\ out' = out /\ answered' = answered
    BY ZenonT(30) DEF CommitRejected, db, Aborted, Dup
  <1>2. Jobs(txs, txStatus, state, job) /\ JobOk(txs, txStatus, state, j) /\ Tables(txs, state)
    BY Zenon DEF OrderInv, Jobs
  <1>3. j # Free  BY <1>1 DEF Free
  <1>4. j.stage = "commit"  BY <1>1, Zenon
  <1> HIDE DEF j
  <1>5. IsJob(txs, j)  BY <1>2, <1>3, Zenon DEF JobOk
  <1>6. Aborted \in Status(txs) /\ Dup \in Status(txs)  BY Zenon DEF Status
  <1>7. JobOk(txs, txStatus, state, dup)
    <2>1. dup.stage = "commit"
          /\ dup = [stage |-> dup.stage, txs |-> j.txs, invalid |-> Over([t \in Duplicates(j) |-> Dup], j.invalid),
                    blind |-> j.blind]
      BY <1>4, <1>5 DEF Invalidate, IsJob
    <2>2. ASSUME NEW t \in Duplicates(j) PROVE Stored(txs, txStatus, t)
      BY Zenon DEF Duplicates, insertTxStatus, StoredIds, Stored, Id
    <2> HIDE DEF dup
    <2> QED  BY <2>1, <2>2, <1>2, <1>3, <1>4, <1>6, InvalidateOk, ZenonT(30)
  <1>8. JobOk(txs, txStatus, state, abt)
    <2>1. abt.stage = "commit"
          /\ abt = [stage |-> abt.stage, txs |-> j.txs, invalid |-> Over([t \in hit |-> Aborted], j.invalid),
                    blind |-> j.blind]
      BY <1>4, <1>5 DEF Invalidate, IsJob
    <2>2. ASSUME NEW t \in hit PROVE txs[t].prelim = None /\ \E r \in ReadsOf(txs, t) : ~Fresh(state, r)
      <3>1. PICK k \in Existing(j) : t \in Readers(j.txs, <<k, Nil>>)  BY Zenon
      <3>2. t \in Range(j.txs) /\ txs[t].prelim = None /\ <<k, Nil>> \in ReadsOf(txs, t)
        BY <3>1, Names, Zenon DEF Readers, Prepared, Prelim
      <3>3. t \in Tx  BY <3>2, <1>2, <1>3, ZenonT(40) DEF JobOk, Ordered
      <3>4. k \in KeySet(txs)  BY <3>2, <3>3 DEF KeySet, KeysOf
      <3>5. state[k] # Absent  BY <3>1, Zenon DEF Existing
      <3>6. state[k].version \in Nat  BY <3>4, <3>5, <1>2, ZenonT(30) DEF Tables
      <3>7. state[k].version # Nil  BY <3>6 DEF Nil
      <3>8. ~Fresh(state, <<k, Nil>>)  BY <3>7, Zenon DEF Fresh
      <3> QED  BY <3>2, <3>8, Zenon
    <2> HIDE DEF abt, hit
    <2> QED  BY <2>1, <2>2, <1>2, <1>3, <1>4, <1>6, InvalidateOk, ZenonT(30)
  <1> HIDE DEF dup, abt
  <1>9. Jobs(txs, txStatus, state, job')  BY <1>1, <1>2, <1>7, <1>8, JobsUpdate, SMTT(30)
  <1> QED  BY <1>1, <1>9, Zenon DEF OrderInv

LEMMA AnswerStep ==
  ASSUME OrderInv, txs' = txs, NEW v \in VC, NEW w \in Worker, Answer(v, w)
  PROVE  OrderInv'
  <1> DEFINE j == job[v][w]
             A == {[height |-> t, status |-> Corrected(j, t)] : t \in Range(j.txs)}
  <1>1. /\ j.stage = "committed" /\ job' = [job EXCEPT ![v][w] = Free]
        /\ out' = [out EXCEPT ![v] = Append(@, A)]
        /\ txStatus' = txStatus /\ state' = state /\ queue' = queue /\ answered' = answered
    BY Zenon DEF Answer, db
  <1>2. Jobs(txs, txStatus, state, job) /\ JobOk(txs, txStatus, state, j) /\ Rows(txs, txStatus)
        /\ Outs(txs, txStatus, out)
    BY Zenon DEF OrderInv, Jobs
  <1>3. j # Free /\ j.stage = "committed"  BY <1>1 DEF Free
  <1> HIDE DEF j
  <1>4. ASSUME NEW t \in Range(j.txs) PROVE [height |-> t, status |-> Corrected(j, t)] \in Given(txs, txStatus)
    <2>1. t \in Tx  BY <1>2, <1>3, Zenon DEF JobOk, Ordered
    <2>2. IF StatusOf(j, t) = Dup THEN Stored(txs, txStatus, t)
          ELSE txStatus[txs[t].id] = [height |-> t, status |-> StatusOf(j, t)]
      BY <1>2, <1>3, ZenonT(30) DEF JobOk, Done
    <2>3. StatusOf(j, t) \in Status(txs)  BY <1>2, <1>3, Zenon DEF JobOk, IsJob, StatusOf, Status
    <2> PICK row : row = txStatus[txs[t].id]  BY Zenon
    <2>4. Corrected(j, t) = IF StatusOf(j, t) = Dup /\ row.height = t THEN row.status ELSE StatusOf(j, t)
      BY Zenon DEF Corrected, SameHeight, readStatusWithHeight, Id, Dup
    <2>5. CASE StatusOf(j, t) # Dup  BY <2>1, <2>2, <2>3, <2>4, <2>5, ZenonT(30) DEF Given, Durable
    <2>6. CASE StatusOf(j, t) = Dup
      <3>1. row # NotStored /\ txs[t].id \in IdsOf(txs)  BY <2>1, <2>2, <2>6, IdOfTx, ZenonT(30) DEF Stored
      <3>2. /\ row = [height |-> row.height, status |-> row.status] /\ row.height \in Tx
            /\ row.status \in Status(txs) /\ \A s \in 1..(row.height - 1) : txs[s].id # txs[t].id
        BY <3>1, <1>2, ZenonT(30) DEF Rows
      <3>3. CASE row.height = t  BY <2>1, <2>4, <2>6, <3>2, <3>3, ZenonT(30) DEF Given, Durable
      <3>4. CASE row.height # t
        <4>1. row.height \in 1..(t - 1)  BY <2>1, <3>2, <3>4, WorkloadsAssumption, SMTT(30) DEF Tx
        <4> QED  BY <2>1, <2>3, <2>4, <2>6, <3>4, <4>1, ZenonT(30) DEF Given, Durable
      <3> QED  BY <3>3, <3>4, ZenonT(30)
    <2> QED  BY <2>5, <2>6, ZenonT(30)
  <1>5. A \in SUBSET Given(txs, txStatus)  BY <1>4, ZenonT(30)
  <1> HIDE DEF A
  <1>6. Append(out[v], A) \in Seq(SUBSET Given(txs, txStatus))  BY <1>2, <1>5 DEF Outs
  <1>7. Outs(txs, txStatus, out')  BY <1>1, <1>2, <1>6, Zenon DEF Outs
  <1>8. JobOk(txs, txStatus, state, Free)  BY Zenon DEF JobOk
  <1>9. Jobs(txs, txStatus, state, job')  BY <1>1, <1>2, <1>8, JobsUpdate, ZenonT(30)
  <1> QED  BY <1>1, <1>7, <1>9, Zenon DEF OrderInv

-----------------------------------------------------------------------------
(* Every step keeps the order invariant.                                     *)

\* Only a commit changes the tables.
LEMMA OrderStep ==
  ASSUME OrderInv, [Next]_<<vars, txs>>
  PROVE  /\ OrderInv' /\ txs' = txs
         /\ \/ txStatus' = txStatus /\ state' = state
            \/ \E v \in VC, w \in Worker : Commit(v, w)
  <1>1. CASE UNCHANGED <<vars, txs>>  BY <1>1, ZenonT(30) DEF OrderInv, vars
  <1>2. CASE CoordinatorRestarts /\ txs' = txs
    BY <1>2, CoordinatorRestartsStep, Zenon DEF CoordinatorRestarts, db
  <1>3. ASSUME txs' = txs, NEW v \in VC, NEW t \in Tx, Send(v, t)
        PROVE  OrderInv' /\ txStatus' = txStatus /\ state' = state
    BY <1>3, SendStep, ZenonT(30) DEF Send, db
  <1>4. ASSUME txs' = txs, NEW v \in VC, Deliver(v)
        PROVE  OrderInv' /\ txStatus' = txStatus /\ state' = state
    BY <1>4, DeliverStep, ZenonT(30) DEF Deliver, db
  <1>5. ASSUME txs' = txs, NEW v \in VC, StreamFails(v)
        PROVE  OrderInv' /\ txStatus' = txStatus /\ state' = state
    BY <1>5, StreamFailsStep, Zenon DEF StreamFails, db
  <1>6. ASSUME txs' = txs, NEW v \in VC, VCRestarts(v)
        PROVE  OrderInv' /\ txStatus' = txStatus /\ state' = state
    BY <1>6, VCRestartsStep, ZenonT(30) DEF VCRestarts, Crash, db
  <1>7. ASSUME txs' = txs, NEW v \in VC, NEW w \in Worker, Work(v, w)
        PROVE  OrderInv' /\ ((txStatus' = txStatus /\ state' = state) \/ Commit(v, w))
    <2>1. CASE Prepare(v, w)  BY <1>7, <2>1, PrepareStep, ZenonT(30) DEF Prepare, db
    <2>2. CASE Validate(v, w)  BY <1>7, <2>2, ValidateStep, ZenonT(30) DEF Validate, db
    <2>3. CASE Categorize(v, w)  BY <1>7, <2>3, CategorizeStep, ZenonT(30) DEF Categorize, db
    <2>4. CASE CommitRejected(v, w)  BY <1>7, <2>4, CommitRejectedStep, ZenonT(30) DEF CommitRejected, db
    <2>5. CASE Commit(v, w)  BY <1>7, <2>5, CommitStep, Zenon
    <2>6. CASE Answer(v, w)  BY <1>7, <2>6, AnswerStep, ZenonT(30) DEF Answer, db
    <2> QED  BY <1>7, <2>1, <2>2, <2>3, <2>4, <2>5, <2>6, ZenonT(40) DEF Work, commitTransactions
  <1> QED  BY <1>1, <1>2, <1>3, <1>4, <1>5, <1>6, <1>7, ZenonT(40) DEF Next

LEMMA OrderAnswers == OrderInv => AnswersDurable
  <1> SUFFICES ASSUME OrderInv, NEW t \in Tx, answered[t] # None
               PROVE  \/ txStatus[Id(t)] = [height |-> t, status |-> answered[t]]
                      \/ answered[t] = Dup /\ txStatus[Id(t)].height \in 1..(t - 1)
    BY ZenonT(30) DEF AnswersDurable, Dup
  <1>1. Durable(txs, txStatus, t, answered[t])  BY ZenonT(30) DEF OrderInv, Answers
  <1> QED  BY <1>1, ZenonT(30) DEF Durable, Id

LEMMA OrderRead == OrderInv => NoUnreadConflict
  <1> SUFFICES ASSUME OrderInv PROVE \A v \in VC, w \in Worker : ~UnreadConflict(job[v][w])
    BY Zenon DEF NoUnreadConflict
  <1> TAKE v \in VC, w \in Worker
  <1> SUFFICES ASSUME UnreadConflict(job[v][w]) PROVE FALSE
    BY Zenon
  <1> PICK j : j = job[v][w]  BY Zenon
  <1>1. j.stage = "commit" /\ Duplicates(j) = {}  BY ZenonT(30) DEF UnreadConflict
  <1>2. PICK k \in Existing(j) : Readers(j.txs, <<k, Nil>>) = {}  BY ZenonT(30) DEF UnreadConflict
  <1>3. Blocks(txs) /\ Tables(txs, state) /\ JobOk(txs, txStatus, state, j) /\ j # Free
    BY <1>1 DEF OrderInv, Jobs, Free
  <1>4. state[k] # Absent  BY Zenon DEF Existing
  <1>5. PICK t \in Valid(j) : k \in Inserts(j, t)  BY Zenon DEF Existing, BatchInserts
  <1>6. t \in Tx /\ ~Stored(txs, txStatus, t)  BY <1>1, <1>3, ToInsertWaiting, ZenonT(30) DEF Waiting
  <1>7. CASE \E r \in txs[t].readWrites : r[2] = Nil /\ r[1] = k
    <2>1. PICK r \in txs[t].readWrites : r[2] = Nil /\ r[1] = k  BY <1>7, ZenonT(30)
    <2>2. r = <<k, Nil>> /\ r \in AllReads(t)  BY <2>1, <1>3, <1>6, ZenonT(30) DEF Blocks, ReadsOf, AllReads
    <2>3. t \in Prepared(j.txs)  BY ZenonT(30) DEF Valid
    <2> QED  BY <2>2, <2>3, <1>2, ZenonT(30) DEF Readers
  <1>8. CASE k \in txs[t].blindWrites /\ j.blind[k] = Nil
    <2>1. t \in Range(j.txs) \ DOMAIN j.invalid  BY <1>3, ValidIs, ZenonT(30)
    <2>2. j.blind[k] = state[k].version  BY <2>1, <1>1, <1>3, <1>6, <1>8, ZenonT(30) DEF JobOk, Blinds
    <2>3. k \in KeySet(txs)  BY <1>6, <1>8, KeyOfTx, ZenonT(30)
    <2>4. state[k].version \in Nat  BY <2>3, <1>3, <1>4, ZenonT(30) DEF Tables
    <2> QED  BY <2>2, <2>4, <1>8 DEF Nil
  <1> QED  BY <1>5, <1>7, <1>8, ZenonT(30) DEF Inserts

\* Every answer rests on a stored row, for every blocks, number of VCs and workers,
\* and whatever fails (setCorrectStatusForDuplicateTxID).
THEOREM AnswersRestOnRows == Spec => []AnswersDurable
  <1>1. OrderInv /\ [Next]_<<vars, txs>> => OrderInv'  BY OrderStep, Zenon
  <1> QED  BY <1>1, OrderInit, OrderAnswers, PTL DEF Spec

\* No batch ever meets a conflicting key that none of its transactions read, the
\* error that ends a VC (invalidateTxsOnReadConflicts).
THEOREM ConflictsAreRead == Spec => []NoUnreadConflict
  <1>1. OrderInv /\ [Next]_<<vars, txs>> => OrderInv'  BY OrderStep, Zenon
  <1> QED  BY <1>1, OrderInit, OrderRead, PTL DEF Spec

-----------------------------------------------------------------------------
(* The model's own serial execution.                                        *)

LEMMA SerialIs == IsSerial(txs, Serial) /\ Serial = SerialOf(txs)
  <1> DEFINE Body(f, n) ==
        IF n = 0
        THEN [state |-> [k \in Key |-> Absent], status |-> <<>>]
        ELSE LET before == f[n - 1]
                 t == txs[n]
                 s == IF \E i \in 1..(n - 1) : Id(i) = t.id THEN "REJECTED_DUPLICATE_TX_ID"
                      ELSE IF t.prelim # None THEN t.prelim
                      ELSE IF \E r \in AllReads(n) : before.state[r[1]].version # r[2]
                      THEN "ABORTED_MVCC_CONFLICT" ELSE "COMMITTED"
             IN  [status |-> Append(before.status, s),
                  state  |-> [k \in Key |->
                     IF s = "COMMITTED" /\ k \in WriteKeys(n)
                     THEN [version |-> before.state[k].version + 1, writer |-> n]
                     ELSE before.state[k]]]
  <1>1. ASSUME NEW f, NEW n \in Nat
        PROVE  Body(f, n) = IF n = 0 THEN Start(txs) ELSE After(txs, n, f[n - 1])
    <2> PICK b : b = f[n - 1]  BY Zenon
    <2> PICK s : s = Verdict(txs, n, b.state)  BY Zenon
    <2>1. s = IF \E i \in 1..(n - 1) : Id(i) = txs[n].id THEN "REJECTED_DUPLICATE_TX_ID"
              ELSE IF txs[n].prelim # None THEN txs[n].prelim
              ELSE IF \E r \in AllReads(n) : b.state[r[1]].version # r[2]
              THEN "ABORTED_MVCC_CONFLICT" ELSE "COMMITTED"
      BY Names, ZenonT(30) DEF Verdict, Fresh, Dup, Aborted
    <2>2. CASE n = 0  BY <2>2, Names, ZenonT(30) DEF Start
    <2>3. CASE n # 0
      <3>1. After(txs, n, b) =
              [status |-> Append(b.status, s),
               state  |-> [k \in Key |-> IF s = "COMMITTED" /\ k \in WriteKeys(n)
                                          THEN [version |-> b.state[k].version + 1, writer |-> n]
                                          ELSE b.state[k]]]
        BY Names, Zenon DEF After
      <3>2. Body(f, n) = After(txs, n, b)  BY <2>1, <2>3, <3>1, Zenon
      <3> QED  BY <2>3, <3>2, ZenonT(30)
    <2> QED  BY <2>2, <2>3, ZenonT(30)
  <1>2. \E f : f = [n \in Nat |-> Body(f, n)]
    <2>1. PICK f : f = SerialOf(txs)  BY Zenon
    <2>2. f = [n \in Nat |-> IF n = 0 THEN Start(txs) ELSE After(txs, n, f[n - 1])]
      BY <2>1, SerialExists, Zenon DEF IsSerial
    <2>3. f = [n \in Nat |-> Body(f, n)]
      <3> HIDE DEF Body
      <3> QED  BY <2>2, <1>1, Zenon
    <2> QED  BY <2>3, ZenonT(40)
  <1>3. Serial = [n \in Nat |-> Body(Serial, n)]  BY <1>2, Zenon DEF Serial
  <1> HIDE DEF Body
  <1>4. IsSerial(txs, Serial)  BY <1>1, <1>3, Zenon DEF IsSerial
  <1> QED  BY <1>4, SerialExists, SerialUnique, Zenon

-----------------------------------------------------------------------------
(* The invariant, and what it says of the model's own serial execution.      *)

LEMMA VInit == Init => VInv
  <1> SUFFICES ASSUME Init PROVE VInv  BY Zenon
  <1>1. txStatus = [i \in IdsOf(txs) |-> NotStored] /\ state = [k \in KeySet(txs) |-> Absent]
    BY Names, Zenon DEF Init
  <1>2. ASSUME NEW k, NEW x \in Writers(txs, txStatus, k) PROVE FALSE
    <2>1. x \in Tx /\ txStatus[txs[x].id] = [height |-> x, status |-> "COMMITTED"]  BY Zenon DEF Writers
    <2>2. txStatus[txs[x].id] = NotStored  BY <1>1, <2>1, IdOfTx, Zenon
    <2> QED  BY <2>1, <2>2 DEF NotStored, Tx
  <1>3. AsSerial(txs, SerialOf(txs), txStatus, state)  BY <1>1, <1>2, ZenonT(30) DEF AsSerial
  <1> QED  BY <1>3, OrderInit, Zenon DEF VInv

LEMMA VStep == VInv /\ [Next]_<<vars, txs>> => VInv'
  <1> SUFFICES ASSUME VInv, [Next]_<<vars, txs>>, AbsentReadsApart(txs)
               PROVE  AsSerial(txs, SerialOf(txs), txStatus', state')
    BY OrderStep, Zenon DEF VInv
  <1>1. OrderInv /\ AsSerial(txs, SerialOf(txs), txStatus, state)  BY Zenon DEF VInv
  <1>2. CASE txStatus' = txStatus /\ state' = state  BY <1>1, <1>2, Zenon
  <1>3. ASSUME NEW v \in VC, NEW w \in Worker, Commit(v, w)
        PROVE  AsSerial(txs, SerialOf(txs), txStatus', state')
    <2> PICK j : j = job[v][w]  BY Zenon
    <2>1. j.stage = "commit" /\ Duplicates(j) = {} /\ Existing(j) = {} /\ CommitTables(j)
      BY <1>3, Zenon DEF Commit
    <2>2. Blocks(txs) /\ Rows(txs, txStatus) /\ Tables(txs, state) /\ JobOk(txs, txStatus, state, j)
      BY <1>1, Zenon DEF OrderInv, Jobs
    <2>3. j # Free  BY <2>1 DEF Free
    <2>4. IsSerial(txs, SerialOf(txs))  BY SerialExists, Zenon
    <2> QED  BY <1>1, <2>1, <2>2, <2>3, <2>4, CommitSerial, ZenonT(30)
  <1> QED  BY <1>1, <1>2, <1>3, OrderStep, ZenonT(30)

LEMMA SerialStatuses == VInv => (AbsentReadsApart(txs) => StoredSerial)
  <1> SUFFICES ASSUME VInv, AbsentReadsApart(txs), NEW i \in TxId, txStatus[i] # NotStored
               PROVE  /\ txStatus[i].status = Expected[txStatus[i].height]
                      /\ txStatus[i].status # Dup
    BY Zenon DEF StoredSerial, Dup
  <1> PICK h : h = txStatus[i].height  BY Zenon
  <1>1. i \in IdsOf(txs)  BY Names, Zenon
  <1>2. h \in Tx /\ txStatus[i].status # Dup  BY <1>1, Zenon DEF VInv, OrderInv, Rows
  <1>3. txStatus[i].status = Outcome(txs, Serial, h)  BY <1>1, SerialIs, Zenon DEF VInv, AsSerial
  <1>4. NumTx \in Nat /\ h \in 1..NumTx  BY <1>2, WorkloadsAssumption, Zenon DEF Tx
  <1>5. Serial[NumTx].status[h] = Outcome(txs, Serial, h)  BY <1>4, SerialIs, SerialStatus, Zenon
  <1> QED  BY <1>2, <1>3, <1>5, Zenon DEF Expected

LEMMA SerialTables == VInv => (AbsentReadsApart(txs) => StateSerial)
  <1> SUFFICES ASSUME VInv, AbsentReadsApart(txs), NEW k \in KeySet(txs)
               PROVE  state[k] = IF Writers(txs, txStatus, k) = {} THEN Absent
                                 ELSE Serial[Max(Writers(txs, txStatus, k))].state[k]
    BY Names, Zenon DEF StateSerial, Writers
  <1> DEFINE W == Writers(txs, txStatus, k)
  <1>1. /\ W = {} => state[k] = Absent
        /\ \A m \in W : (\A x \in W : x <= m) => state[k] = Serial[m].state[k]
    BY SerialIs, Zenon DEF VInv, AsSerial
  <1>2. W \in SUBSET Tx /\ W \in SUBSET Int  BY WorkloadsAssumption DEF Writers, Tx
  <1> HIDE DEF W
  <1>3. CASE W # {}
    <2>1. \E m \in W : \A x \in W : x <= m  BY <1>2, <1>3, MaxOf, Zenon
    <2>2. \E m \in W : \A x \in W : m >= x  BY <2>1, <1>2, Zenon
    <2>3. Max(W) \in W /\ \A x \in W : Max(W) >= x  BY <2>2, Zenon DEF Max
    <2>4. \A x \in W : x <= Max(W)  BY <2>3, <1>2, Zenon
    <2> QED  BY <1>1, <1>3, <2>3, <2>4, ZenonT(40) DEF W
  <1> QED  BY <1>1, <1>3, Zenon DEF W

\* For any blocks in which no key is read as absent both by a transaction that
\* writes it and by one that does not, every stored status is the one of serial
\* execution (validate, commitTransactions).
THEOREM StatusesAreSerial == Spec => [](AbsentReadsApart(txs) => StoredSerial)
  BY VInit, VStep, SerialStatuses, PTL DEF Spec

\* For such blocks the namespace tables are always those serial execution leaves
\* after the stored transactions (db.commit).
THEOREM TablesAreSerial == Spec => [](AbsentReadsApart(txs) => StateSerial)
  BY VInit, VStep, SerialTables, PTL DEF Spec
=============================================================================
