----------------------------- MODULE RelayProofs -----------------------------
(***************************************************************************)
(* Proofs about one session of the relay, for any blocks, limits and       *)
(* verdicts on checkpoints: the statuses follow from the order of the      *)
(* blocks, barriers are in flight alone, and the block number that is      *)
(* saved is recoverable.                                                   *)
(***************************************************************************)
EXTENDS Relay, FiniteSetTheorems, WellFoundedInduction, TLAPS

Seg == [op : {"queue", "write", "drain", "none"}, num : Nat, txs : SUBSET Tx]

TypeOK ==
  /\ incoming \in 1..Len(Blocks) + 1 /\ available \in Int /\ processed \in Nat
  /\ todo \in Seq(Seg) /\ mappedq \in Seq(Seg) /\ segment \in Seg
  /\ txStatus \in [Ref -> Status \cup {NotYet}] /\ pendingCount \in [Num -> Int]
  /\ nextBlockNum \in Nat \ {0} /\ count \in Nat /\ lastSet \in Nat
  /\ dedup \in SUBSET [num : Nat, ids : SUBSET Id]
  /\ sent \in SUBSET Tx /\ statusq \in SUBSET [tx : Tx, status : Status \cup Feedback]
  /\ stored \in [Id -> Ref \cup {NoRef}]

-----------------------------------------------------------------------------
(* The inductive invariant *)

IdOf(r) == TxOf(r).id
HasId(r) == TxOf(r).kind # "bad"

\* What is on its way to the database.
Behind == segment.txs \cup SegTxs(mappedq) \cup SegTxs(todo)
Up == sent \cup Behind

\* Segments are of mapped blocks, and the sender holds one only until it is sent.
LineInv ==
  /\ spc = "read" => segment.txs = {}
  /\ \A i \in DOMAIN mappedq : mappedq[i].num < incoming
  /\ \A i \in DOMAIN todo : todo[i].num < incoming

\* The blocks below the window are final, and the window is one of mapped blocks.
WindowInv ==
  /\ nextBlockNum + count <= incoming /\ lastSet < nextBlockNum
  /\ \A r \in Ref : r[1] < nextBlockNum => txStatus[r] # NotYet

Left(st, b) == {i \in DOMAIN Blocks[b] : st[<<b, i>>] = NotYet}
CountInv == \A b \in Num : pendingCount[b] = Cardinality(Left(txStatus, b))

\* A transaction is in one place only.
Pairwise(q) == \A i, j \in DOMAIN q : i # j => q[i].txs \cap q[j].txs = {}
OnceInv ==
  /\ \A t, u \in Up \cup Answered : t.ref = u.ref => t = u
  /\ Pairwise(todo) /\ Pairwise(mappedq)
  /\ SegTxs(todo) \cap SegTxs(mappedq) = {}
  /\ segment.txs \cap (SegTxs(mappedq) \cup SegTxs(todo)) = {}
  /\ sent \cap Behind = {} /\ Answered \cap Up = {}
  /\ \A s, u \in statusq : s.tx = u.tx => s = u

\* What is left to submit: a barrier is alone between two drains.
Fenced(d) ==
  /\ \A i \in DOMAIN d : i > 1 => d[i].op # "write"
  /\ \A i \in DOMAIN d : \A t \in d[i].txs : Barrier(t) =>
       /\ d[i].txs = {t} /\ i + 1 \in DOMAIN d /\ d[i + 1].op = "drain"
       /\ i = 1 \/ d[i - 1].op = "drain"
  /\ \A i \in DOMAIN d : IsFiniteSet(d[i].txs) /\ (d[i].op = "drain" => d[i].txs = {})

\* While a barrier is in flight the mapper stands before a drain.
BarrierInv ==
  /\ Fenced(todo)
  /\ todo # <<>> /\ todo[1].op = "queue" => \A t \in todo[1].txs : Barrier(t) => InFlight = {}
  /\ \A t \in InFlight : Barrier(t) =>
       InFlight = {t} /\ todo # <<>> /\ (todo[1].op = "drain" \/ (todo[1].op = "write" /\ t \in todo[1].txs))

\* A transaction in flight holds a slot, and so does a final status until its batch ends.
SlotsInv == IsFiniteSet(InFlight) /\ available + processed + Cardinality(InFlight) <= WaitingTxsLimit

\* What the database makes of the first transaction with an id.
Fate(t) ==
  IF ~t.rejected THEN "committed" ELSE IF TxOf(t.ref).kind = "snapshot" THEN "second snapshot" ELSE "stored"

\* A transaction that is sent has an id, and when the id was used before, it is stored.
Sendable(t, st) ==
  /\ HasId(t.ref)
  /\ IF Repeats(t.ref) THEN st[IdOf(t.ref)] # NoRef ELSE Fate(t) \in Expected(t.ref)

UpInv == \A t \in Up : t.ref[1] < incoming /\ Sendable(t, stored)

\* The database holds an id for the first transaction with it, and that one was answered.
StoredInv == \A id \in Id : stored[id] # NoRef =>
  /\ HasId(stored[id]) /\ IdOf(stored[id]) = id /\ ~Repeats(stored[id]) /\ stored[id][1] < incoming
  /\ \A t \in Up : t.ref # stored[id]

\* A status is the expected one, and has its row unless it is of those without.
Kept(st, r, s) == s \in Expected(r) /\ (s \in Unstored \/ st[IdOf(r)] = r)

AnswerInv == \A s \in statusq :
  /\ s.tx.ref[1] < incoming
  /\ s.status \notin Feedback => Kept(stored, s.tx.ref, s.status) /\ stored[IdOf(s.tx.ref)] # NoRef

FinalInv == \A r \in Ref : txStatus[r] # NotYet => Kept(stored, r, txStatus[r])

\* An id in the dedup set is of an accepted transaction that waits or is stored.
DedupInv == \A d \in dedup : d.num < incoming /\ \A id \in d.ids :
  \E q \in Ref : q[1] = d.num /\ HasId(q) /\ IdOf(q) = id /\ (txStatus[q] = NotYet \/ stored[id] # NoRef)

\* An id that was used is stored or still in the dedup set.
KnownInv == \A p \in Ref : p[1] < incoming /\ HasId(p) =>
  stored[IdOf(p)] # NoRef \/ \E d \in dedup : d.num >= nextBlockNum /\ IdOf(p) \in d.ids

IInv ==
  /\ TypeOK /\ LineInv /\ WindowInv /\ CountInv /\ OnceInv /\ BarrierInv /\ SlotsInv
  /\ UpInv /\ StoredInv /\ AnswerInv /\ FinalInv /\ DedupInv /\ KnownInv

-----------------------------------------------------------------------------
(* References, transactions and sequences of segments *)

LEMMA RefFacts ==
  ASSUME NEW r \in Ref
  PROVE  /\ r = <<r[1], r[2]>> /\ r[1] \in Num /\ r[2] \in DOMAIN Blocks[r[1]]
         /\ r[1] \in Nat \ {0} /\ r[2] \in Nat \ {0} /\ r # NoRef /\ IdOf(r) \in Id
         /\ r[1] <= Len(Blocks) /\ IdOf(r) = Blocks[r[1]][r[2]].id
  <1>1. PICK b \in Num : \E i \in DOMAIN Blocks[b] : r = <<b, i>>  BY Zenon DEF Ref
  <1>2. PICK i \in DOMAIN Blocks[b] : r = <<b, i>>  BY <1>1, Zenon
  <1>3. b \in 1..Len(Blocks) /\ Len(Blocks) \in Nat /\ i \in 1..Len(Blocks[b]) /\ Len(Blocks[b]) \in Nat
    BY <1>1, <1>2, RelayAssumption, Zenon
  <1>4. IdOf(r) \in Id  BY Zenon DEF IdOf, Id
  <1>5. IdOf(r) = Blocks[r[1]][r[2]].id  BY Zenon DEF IdOf, TxOf
  <1> QED  BY <1>1, <1>2, <1>3, <1>4, <1>5 DEF NoRef

LEMMA RefOf ==
  ASSUME NEW b \in Num, NEW i \in DOMAIN Blocks[b]
  PROVE  <<b, i>> \in Ref
  <1>1. <<b, i>> \in {<<b, j>> : j \in DOMAIN Blocks[b]}  BY Zenon
  <1> QED  BY <1>1, Zenon DEF Ref

LEMMA TxFacts ==
  ASSUME NEW t \in Tx
  PROVE  t.ref \in Ref /\ t.rejected \in BOOLEAN
  BY Zenon DEF Tx

LEMMA NumFacts ==
  /\ Len(Blocks) \in Nat /\ Num = 1..Len(Blocks)
  /\ \A b \in Num : DOMAIN Blocks[b] = 1..Len(Blocks[b]) /\ Len(Blocks[b]) \in Nat
  BY RelayAssumption, Zenon

LEMMA FinitePositions ==
  ASSUME NEW b \in Num, NEW S, S \subseteq DOMAIN Blocks[b]
  PROVE  IsFiniteSet(S)
  <1>1. DOMAIN Blocks[b] = 1..Len(Blocks[b]) /\ 1 \in Int /\ Len(Blocks[b]) \in Int  BY NumFacts
  <1>2. IsFiniteSet(1..Len(Blocks[b]))  BY <1>1, FS_Interval, Zenon
  <1> QED  BY <1>1, <1>2, FS_Subset, Zenon

LEMMA CardMinus ==
  ASSUME NEW S, NEW x \in S, IsFiniteSet(S)
  PROVE  Cardinality(S \ {x}) = Cardinality(S) - 1
  BY FS_RemoveElement, Zenon

LEMMA Least ==
  ASSUME NEW T \in SUBSET Nat, T # {}
  PROVE  \E x \in T : \A y \in T : x <= y
  <1> DEFINE R == OpToRel(<, Nat)
  <1>1. IsWellFoundedOn(R, Nat)  BY NatLessThanWellFounded, Zenon
  <1>2. PICK x \in T : \A y \in T : ~(<<y, x>> \in R)  BY <1>1, WFMin, Zenon
  <1>3. ASSUME NEW y \in T PROVE x <= y
    <2>1. ~(y < x)  BY <1>2, Zenon DEF OpToRel
    <2> QED  BY <2>1
  <1> QED  BY <1>3, Zenon

LEMMA SegAt ==
  ASSUME NEW q \in Seq(Seg), NEW i \in DOMAIN q
  PROVE  q[i] \in Seg /\ q[i].txs \subseteq Tx /\ q[i].num \in Nat /\ i \in Nat \ {0}
  <1>1. q[i] \in Seg /\ i \in Nat \ {0}  OBVIOUS
  <1> QED  BY <1>1, Zenon DEF Seg

LEMMA HeadFacts ==
  ASSUME NEW q \in Seq(Seg), q # <<>>
  PROVE  Tail(q) \in Seq(Seg) /\ Head(q) \in Seg /\ Head(q) = q[1] /\ 1 \in DOMAIN q
  OBVIOUS

LEMMA TailAt ==
  ASSUME NEW q \in Seq(Seg), q # <<>>, NEW i \in DOMAIN Tail(q)
  PROVE  i + 1 \in DOMAIN q /\ Tail(q)[i] = q[i + 1] /\ i \in Nat \ {0}
  OBVIOUS

LEMMA InTail ==
  ASSUME NEW q \in Seq(Seg), q # <<>>, NEW i \in DOMAIN q, i # 1
  PROVE  i - 1 \in DOMAIN Tail(q) /\ Tail(q)[i - 1] = q[i] /\ i \in Nat \ {0}
  OBVIOUS

LEMMA AfterHead ==
  ASSUME NEW q \in Seq(Seg), q # <<>>, NEW i \in Nat \ {0}, i + 1 \in DOMAIN q
  PROVE  i \in DOMAIN Tail(q) /\ Tail(q)[i] = q[i + 1]
  OBVIOUS

LEMMA SecondFacts ==
  ASSUME NEW q \in Seq(Seg), q # <<>>, Tail(q) # <<>>
  PROVE  1 \in DOMAIN Tail(q) /\ Tail(q)[1] = q[2] /\ 2 \in DOMAIN q /\ Head(Tail(q)) = q[2]
  OBVIOUS

LEMMA AppendAt ==
  ASSUME NEW q \in Seq(Seg), NEW g \in Seg, NEW i \in DOMAIN Append(q, g)
  PROVE  (i \in DOMAIN q /\ Append(q, g)[i] = q[i]) \/ (i = Len(q) + 1 /\ Append(q, g)[i] = g)
  OBVIOUS

LEMMA AppendFacts ==
  ASSUME NEW q \in Seq(Seg), NEW g \in Seg
  PROVE  /\ Append(q, g) \in Seq(Seg)
         /\ \A i \in DOMAIN q : i \in DOMAIN Append(q, g) /\ Append(q, g)[i] = q[i]
         /\ Len(q) + 1 \in DOMAIN Append(q, g) /\ Append(q, g)[Len(q) + 1] = g
         /\ \A i \in DOMAIN Append(q, g) : i \in DOMAIN q \/ i = Len(q) + 1
         /\ Len(q) + 1 \notin DOMAIN q
  OBVIOUS

LEMMA NumsTail ==
  ASSUME NEW q \in Seq(Seg), q # <<>>, NEW n, \A i \in DOMAIN q : q[i].num < n
  PROVE  \A i \in DOMAIN Tail(q) : Tail(q)[i].num < n
  <1>1. ASSUME NEW i \in DOMAIN Tail(q) PROVE Tail(q)[i].num < n
    <2>1. i + 1 \in DOMAIN q /\ Tail(q)[i] = q[i + 1]  BY TailAt, Zenon
    <2> QED  BY <2>1, Zenon
  <1> QED  BY <1>1, Zenon

LEMMA NumsAppend ==
  ASSUME NEW q \in Seq(Seg), NEW g \in Seg, NEW n, g.num < n, \A i \in DOMAIN q : q[i].num < n
  PROVE  \A i \in DOMAIN Append(q, g) : Append(q, g)[i].num < n
  <1>1. ASSUME NEW i \in DOMAIN Append(q, g) PROVE Append(q, g)[i].num < n  BY AppendAt, Zenon
  <1> QED  BY <1>1, Zenon

LEMMA TailTxs ==
  ASSUME NEW q \in Seq(Seg), q # <<>>
  PROVE  SegTxs(q) = Head(q).txs \cup SegTxs(Tail(q))
  <1>1. ASSUME NEW t \in SegTxs(q) PROVE t \in Head(q).txs \cup SegTxs(Tail(q))
    <2>1. PICK i \in DOMAIN q : t \in q[i].txs  BY Zenon DEF SegTxs
    <2>2. CASE i = 1  BY <2>1, <2>2, HeadFacts, Zenon
    <2>3. CASE i # 1
      <3>1. i - 1 \in DOMAIN Tail(q) /\ t \in Tail(q)[i - 1].txs  BY <2>1, <2>3, InTail, Zenon
      <3> QED  BY <3>1, Zenon DEF SegTxs
    <2> QED  BY <2>2, <2>3, Zenon
  <1>2. ASSUME NEW t \in Head(q).txs PROVE t \in SegTxs(q)
    <2>1. 1 \in DOMAIN q /\ t \in q[1].txs  BY HeadFacts, Zenon
    <2> QED  BY <2>1, Zenon DEF SegTxs
  <1>3. ASSUME NEW t \in SegTxs(Tail(q)) PROVE t \in SegTxs(q)
    <2>1. PICK i \in DOMAIN Tail(q) : t \in Tail(q)[i].txs  BY Zenon DEF SegTxs
    <2>2. i + 1 \in DOMAIN q /\ t \in q[i + 1].txs  BY <2>1, TailAt, Zenon
    <2> QED  BY <2>2, Zenon DEF SegTxs
  <1> QED  BY <1>1, <1>2, <1>3, Zenon

LEMMA AppendTxs ==
  ASSUME NEW q \in Seq(Seg), NEW g \in Seg
  PROVE  SegTxs(Append(q, g)) = SegTxs(q) \cup g.txs
  <1>1. ASSUME NEW t \in SegTxs(Append(q, g)) PROVE t \in SegTxs(q) \cup g.txs
    <2>1. PICK i \in DOMAIN Append(q, g) : t \in Append(q, g)[i].txs  BY Zenon DEF SegTxs
    <2>2. (i \in DOMAIN q /\ t \in q[i].txs) \/ t \in g.txs  BY <2>1, AppendAt, Zenon
    <2> QED  BY <2>2, Zenon DEF SegTxs
  <1>2. ASSUME NEW t \in g.txs PROVE t \in SegTxs(Append(q, g))
    <2>1. Len(q) + 1 \in DOMAIN Append(q, g) /\ t \in Append(q, g)[Len(q) + 1].txs  BY AppendFacts, Zenon
    <2> QED  BY <2>1, Zenon DEF SegTxs
  <1>3. ASSUME NEW t \in SegTxs(q) PROVE t \in SegTxs(Append(q, g))
    <2>1. PICK i \in DOMAIN q : t \in q[i].txs  BY Zenon DEF SegTxs
    <2>2. i \in DOMAIN Append(q, g) /\ t \in Append(q, g)[i].txs  BY <2>1, AppendFacts, Zenon
    <2> QED  BY <2>2, Zenon DEF SegTxs
  <1> QED  BY <1>1, <1>2, <1>3, Zenon

LEMMA TxsOfSegs ==
  ASSUME NEW q \in Seq(Seg)
  PROVE  SegTxs(q) \subseteq Tx
  <1>1. ASSUME NEW t \in SegTxs(q) PROVE t \in Tx
    <2>1. PICK i \in DOMAIN q : t \in q[i].txs  BY Zenon DEF SegTxs
    <2> QED  BY <2>1, SegAt, Zenon
  <1> QED  BY <1>1, Zenon

\* The first segment shares no transaction with the others.
LEMMA HeadApart ==
  ASSUME NEW q \in Seq(Seg), q # <<>>, Pairwise(q)
  PROVE  Head(q).txs \cap SegTxs(Tail(q)) = {} /\ Pairwise(Tail(q))
  <1>1. ASSUME NEW t \in Head(q).txs, t \in SegTxs(Tail(q)) PROVE FALSE
    <2>1. PICK i \in DOMAIN Tail(q) : t \in Tail(q)[i].txs  BY <1>1, Zenon DEF SegTxs
    <2>2. i + 1 \in DOMAIN q /\ t \in q[i + 1].txs /\ t \in q[1].txs /\ 1 \in DOMAIN q  BY <2>1, TailAt, HeadFacts, Zenon
    <2>3. i + 1 # 1  BY <2>1, TailAt
    <2> QED  BY <2>2, <2>3, Zenon DEF Pairwise
  <1>2. ASSUME NEW i \in DOMAIN Tail(q), NEW j \in DOMAIN Tail(q), i # j
        PROVE  Tail(q)[i].txs \cap Tail(q)[j].txs = {}
    <2>1. i + 1 \in DOMAIN q /\ j + 1 \in DOMAIN q /\ i \in Nat /\ j \in Nat  BY TailAt, Zenon
    <2>2. i + 1 # j + 1  BY <1>2, <2>1
    <2>3. q[i + 1].txs \cap q[j + 1].txs = {}  BY <2>1, <2>2, Zenon DEF Pairwise
    <2> QED  BY <2>3, TailAt, Zenon
  <1> QED  BY <1>1, <1>2, Zenon DEF Pairwise

LEMMA AppendApart ==
  ASSUME NEW q \in Seq(Seg), NEW g \in Seg, Pairwise(q), g.txs \cap SegTxs(q) = {}
  PROVE  Pairwise(Append(q, g))
  <1> SUFFICES ASSUME NEW i \in DOMAIN Append(q, g), NEW j \in DOMAIN Append(q, g), i # j
               PROVE  Append(q, g)[i].txs \cap Append(q, g)[j].txs = {}
    BY Zenon DEF Pairwise
  <1>1. \A k \in DOMAIN q : q[k].txs \cap g.txs = {} /\ g.txs \cap q[k].txs = {}  BY Zenon DEF SegTxs
  <1>2. CASE i \in DOMAIN q /\ j \in DOMAIN q
    <2>1. Append(q, g)[i] = q[i] /\ Append(q, g)[j] = q[j]  BY <1>2, AppendFacts, Zenon
    <2> QED  BY <1>2, <2>1, Zenon DEF Pairwise
  <1>3. CASE i \in DOMAIN q /\ j \notin DOMAIN q
    <2>1. Append(q, g)[i] = q[i] /\ Append(q, g)[j] = g  BY <1>3, AppendFacts, AppendAt, Zenon
    <2> QED  BY <1>1, <1>3, <2>1, Zenon
  <1>4. CASE i \notin DOMAIN q /\ j \in DOMAIN q
    <2>1. Append(q, g)[i] = g /\ Append(q, g)[j] = q[j]  BY <1>4, AppendFacts, AppendAt, Zenon
    <2> QED  BY <1>1, <1>4, <2>1, Zenon
  <1>5. i \in DOMAIN q \/ j \in DOMAIN q
    <2>1. (i \in DOMAIN q \/ i = Len(q) + 1) /\ (j \in DOMAIN q \/ j = Len(q) + 1)  BY AppendFacts, Zenon
    <2> QED  BY <2>1, Zenon
  <1> QED  BY <1>2, <1>3, <1>4, <1>5, Zenon

LEMMA FencedTail ==
  ASSUME NEW d \in Seq(Seg), d # <<>>, Fenced(d)
  PROVE  Fenced(Tail(d))
  <1> DEFINE e == Tail(d)
  <1>1. ASSUME NEW i \in DOMAIN e PROVE e[i] = d[i + 1] /\ i + 1 \in DOMAIN d /\ i \in Nat \ {0}
    BY TailAt, Zenon
  <1>2. ASSUME NEW i \in DOMAIN d, i # 1 PROVE e[i - 1] = d[i] /\ i - 1 \in DOMAIN e
    BY <1>2, InTail, Zenon
  <1> HIDE DEF e
  <1>3. ASSUME NEW i \in DOMAIN e PROVE e[i].op # "write"
    <2>1. i + 1 > 1  BY <1>1
    <2> QED  BY <1>1, <2>1, ZenonT(40) DEF Fenced
  <1>4. ASSUME NEW i \in DOMAIN e, NEW t \in e[i].txs, Barrier(t)
        PROVE  /\ e[i].txs = {t} /\ i + 1 \in DOMAIN e /\ e[i + 1].op = "drain"
               /\ i = 1 \/ e[i - 1].op = "drain"
    <2>1. PICK k : k = i + 1  BY Zenon
    <2>2. k \in DOMAIN d /\ e[i] = d[k] /\ i \in Nat \ {0}  BY <1>1, <2>1, Zenon
    <2>3. d[k].txs = {t} /\ k + 1 \in DOMAIN d /\ d[k + 1].op = "drain" /\ (k = 1 \/ d[k - 1].op = "drain")
      BY <1>4, <2>2, Zenon DEF Fenced
    <2>4. k # 1 /\ k - 1 = i  BY <2>1, <2>2
    <2>5. k \in Nat \ {0}  BY <2>1, <2>2
    <2>6. k \in DOMAIN e /\ e[k] = d[k + 1]  BY <2>3, <2>5, AfterHead, Zenon DEF e
    <2>8. i + 1 \in DOMAIN e /\ e[i + 1].op = "drain"  BY <2>1, <2>3, <2>6, Zenon
    <2>9. i = 1 \/ e[i - 1].op = "drain"
      <3>1. d[i].op = "drain"  BY <2>3, <2>4, Zenon
      <3>2. i \in DOMAIN d  BY <2>1, <2>2
      <3>3. i # 1 => e[i - 1] = d[i]  BY <3>2, <1>2, Zenon
      <3> QED  BY <3>1, <3>3, Zenon
    <2> QED  BY <2>2, <2>3, <2>8, <2>9, Zenon
  <1>5. ASSUME NEW i \in DOMAIN e
        PROVE  IsFiniteSet(e[i].txs) /\ (e[i].op = "drain" => e[i].txs = {})
    <2>1. IsFiniteSet(d[i + 1].txs) /\ (d[i + 1].op = "drain" => d[i + 1].txs = {})  BY <1>1, Zenon DEF Fenced
    <2> QED  BY <2>1, <1>1, Zenon
  <1>6. Fenced(e)  BY <1>3, <1>4, <1>5, Zenon DEF Fenced
  <1> QED  BY <1>6, Zenon DEF e

-----------------------------------------------------------------------------
(* What mapBlock makes of a block *)

\* The ids that are known belong to transactions of earlier blocks.
Earlier(b, known) == \A id \in known : \E q \in Ref : q[1] < b /\ HasId(q) /\ IdOf(q) = id

LEMMA DuplicatesRepeat ==
  ASSUME NEW b \in Num, NEW known, Earlier(b, known), NEW i \in DOMAIN Blocks[b], isDuplicate(b, known, i)
  PROVE  Repeats(<<b, i>>)
  <1> DEFINE r == <<b, i>>
  <1>1. r \in Ref /\ IdOf(r) = Blocks[b][i].id /\ r[1] = b /\ r[2] = i  BY RefOf, Zenon DEF IdOf, TxOf
  <1>2. CASE Blocks[b][i].id \in known
    <2>1. PICK q \in Ref : q[1] < b /\ HasId(q) /\ IdOf(q) = IdOf(r)  BY <1>1, <1>2, Zenon DEF Earlier
    <2>2. Before(q, r)  BY <2>1, <1>1, Zenon DEF Before
    <2> QED  BY <2>1, <2>2, <1>1, Zenon DEF Repeats, HasId, IdOf
  <1>3. CASE \E j \in 1..i - 1 : Blocks[b][j].kind # "bad" /\ Blocks[b][j].id = Blocks[b][i].id
    <2>1. PICK j \in 1..i - 1 : Blocks[b][j].kind # "bad" /\ Blocks[b][j].id = Blocks[b][i].id  BY <1>3, Zenon
    <2>2. j \in DOMAIN Blocks[b] /\ j < i  BY <2>1, NumFacts
    <2>3. <<b, j>> \in Ref  BY <2>2, RefOf, Zenon
    <2>4. Before(<<b, j>>, r) /\ TxOf(<<b, j>>).kind # "bad" /\ TxOf(<<b, j>>).id = TxOf(r).id
      BY <2>1, <2>2, Zenon DEF Before, TxOf
    <2> QED  BY <2>3, <2>4, Zenon DEF Repeats
  <1> QED  BY <1>2, <1>3, Zenon DEF isDuplicate

\* An id that comes twice in a block is a duplicate of the block.
LEMMA RepeatsAreDuplicates ==
  ASSUME NEW b \in Num, NEW known, NEW i \in DOMAIN Blocks[b], RepeatsInBlock(<<b, i>>)
  PROVE  isDuplicate(b, known, i)
  <1>1. PICK q \in Ref : q[1] = b /\ q[2] < i /\ TxOf(q).kind # "bad" /\ TxOf(q).id = TxOf(<<b, i>>).id
    BY Zenon DEF RepeatsInBlock
  <1>2. q[2] \in 1..i - 1  BY <1>1, RefFacts, NumFacts
  <1>3. Blocks[b][q[2]].kind # "bad" /\ Blocks[b][q[2]].id = Blocks[b][i].id  BY <1>1, Zenon DEF TxOf
  <1> QED  BY <1>2, <1>3, Zenon DEF isDuplicate

LEMMA AcceptedFacts ==
  ASSUME NEW b \in Num, NEW known
  PROVE  /\ Accepted(b, known) \subseteq DOMAIN Blocks[b]
         /\ \A i \in Accepted(b, known) : Blocks[b][i].kind # "bad" /\ ~isDuplicate(b, known, i)
         /\ snapshotTx(b, known) \subseteq Snapshots(b, known)
         /\ Snapshots(b, known) \subseteq Accepted(b, known)
         /\ \A i \in Snapshots(b, known) : Blocks[b][i].kind = "snapshot"
         /\ \A i \in snapshotTx(b, known) : i \notin Rejected(b, known)
  <1>1. \A i \in snapshotTx(b, known) : i \notin Rejected(b, known)
    BY Zenon DEF snapshotTx, Rejected, Snapshots
  <1> QED  BY <1>1, Zenon DEF Accepted, snapshotTx, Snapshots

\* The first transaction with an id gets the status that the order of the blocks gives it.
LEMMA FirstFate ==
  ASSUME NEW b \in Num, NEW known, Earlier(b, known), NEW i \in Accepted(b, known), ~Repeats(<<b, i>>),
         NEW t \in Tx, t.ref = <<b, i>>, (t.rejected <=> i \in Rejected(b, known))
  PROVE  Fate(t) \in Expected(t.ref)
  <1> DEFINE r == <<b, i>>
             A == Accepted(b, known)
             Sn == Snapshots(b, known)
  <1>0. i \in DOMAIN Blocks[b] /\ TxOf(r) = Blocks[b][i] /\ r[1] = b /\ r[2] = i /\ i \in Nat
    BY AcceptedFacts, NumFacts DEF TxOf
  <1>1. TxOf(r).kind # "bad"
    <2>1. Blocks[b][i].kind # "bad"  BY AcceptedFacts, Zenon
    <2> QED  BY <2>1, <1>0, Zenon
  <1>2. CASE TxOf(r).kind # "snapshot"
    <2>1. i \in Rejected(b, known) <=> TxOf(r).kind = "stored"  BY <1>0, <1>2, Zenon DEF Rejected, Snapshots
    <2>2. Expected(r) = IF TxOf(r).kind = "stored" THEN {"stored"} ELSE {"committed"}
      BY <1>1, <1>2, Zenon DEF Expected
    <2> QED  BY <1>2, <2>1, <2>2, Zenon DEF Fate
  <1>3. CASE TxOf(r).kind = "snapshot"
    <2>1. i \in Sn  BY <1>0, <1>3, Zenon DEF Snapshots
    <2>2. i \in Rejected(b, known) <=> i \notin snapshotTx(b, known)
      <3>1. TxOf(r).kind # "stored"  BY <1>3, Zenon
      <3> QED  BY <3>1, <1>0, <2>1, Zenon DEF Rejected
    <2>3. Fate(t) = IF i \in snapshotTx(b, known) THEN "committed" ELSE "second snapshot"
      BY <2>2, <1>3, Zenon DEF Fate
    <2>4. ASSUME NEW q \in SnapshotsBefore(r)
          PROVE  q \in Ref /\ q[1] = b /\ q[2] < i /\ q = <<b, q[2]>> /\ q[2] \in DOMAIN Blocks[b]
                 /\ TxOf(q).kind = "snapshot" /\ TxOf(q) = Blocks[b][q[2]] /\ q[2] \in Nat
      <3>1. q \in Ref /\ q[1] = b /\ q[2] < i /\ TxOf(q).kind = "snapshot"  BY <1>0, Zenon DEF SnapshotsBefore
      <3> QED  BY <3>1, RefFacts, Zenon DEF TxOf
    <2>5. CASE i \in snapshotTx(b, known)
      <3>1. ASSUME NEW q \in SnapshotsBefore(r), ~Repeats(q) PROVE FALSE
        <4>1. ~isDuplicate(b, known, q[2])
          <5>1. q[2] \in DOMAIN Blocks[b] /\ ~Repeats(<<b, q[2]>>)  BY <2>4, <3>1, Zenon
          <5> QED  BY <5>1, DuplicatesRepeat, Zenon
        <4>2. TxOf(q).kind # "bad"  BY <2>4, Zenon
        <4>3. q[2] \in Sn  BY <4>1, <4>2, <2>4, Zenon DEF Snapshots, Accepted
        <4>4. i <= q[2]  BY <2>5, <4>3, Zenon DEF snapshotTx
        <4> QED  BY <4>4, <2>4, <1>0
      <3>2. "committed" \in Expected(r)  BY <3>1, <1>1, <1>3, Zenon DEF Expected
      <3> QED  BY <3>2, <2>3, <2>5, Zenon
    <2>6. CASE i \notin snapshotTx(b, known)
      <3>1. PICK j \in Sn : ~(i <= j)  BY <2>1, <2>6, Zenon DEF snapshotTx
      <3>2. j \in A /\ j \in DOMAIN Blocks[b] /\ Blocks[b][j].kind = "snapshot" /\ ~isDuplicate(b, known, j)
        BY AcceptedFacts, Zenon
      <3>3. j < i /\ j \in Nat  BY <3>1, <3>2, <1>0, NumFacts
      <3>4. <<b, j>> \in SnapshotsBefore(r)  BY <3>2, <3>3, RefOf, Zenon DEF SnapshotsBefore, TxOf
      <3>5. ~RepeatsInBlock(<<b, j>>)  BY <3>2, RepeatsAreDuplicates, Zenon
      <3>6. "second snapshot" \in Expected(r)  BY <3>4, <3>5, <1>1, <1>3, Zenon DEF Expected
      <3> QED  BY <3>6, <2>3, <2>6, Zenon
    <2> QED  BY <2>5, <2>6, Zenon
  <1> QED  BY <1>2, <1>3, Zenon

LEMMA SegFacts ==
  Drain \in Seg /\ NoSegment \in Seg /\ Drain.op = "drain" /\ Drain.txs = {} /\ Drain.num = 0 /\ NoSegment.txs = {}
  <1>1. {} \in SUBSET Tx  BY Zenon
  <1> QED  BY <1>1, Zenon DEF Drain, NoSegment, Seg

LEMMA SegmentFacts ==
  ASSUME NEW b \in Nat, NEW S \in SUBSET Tx
  PROVE  Segment(b, S) \in Seg /\ Segment(b, S).op = "queue" /\ Segment(b, S).txs = S /\ Segment(b, S).num = b
  BY Zenon DEF Segment, Seg

LEMMA TxsFrom ==
  ASSUME NEW b, NEW known, NEW S, NEW t \in Txs(b, known, S)
  PROVE  \E i \in S : t.ref = <<b, i>> /\ (t.rejected <=> i \in Rejected(b, known))
  <1>1. PICK i \in S : t = [ref |-> <<b, i>>, rejected |-> i \in Rejected(b, known)]  BY Zenon DEF Txs
  <1>2. t.ref = <<b, i>> /\ (t.rejected <=> i \in Rejected(b, known))  BY <1>1, Zenon
  <1> QED  BY <1>2, Zenon

LEMMA TxsRef ==
  ASSUME NEW b, NEW known, NEW S, NEW t \in Txs(b, known, S)
  PROVE  \E i \in S : t.ref = <<b, i>>
  BY TxsFrom

LEMMA TxsHas ==
  ASSUME NEW b, NEW known, NEW S, NEW i \in S
  PROVE  \E t \in Txs(b, known, S) : t.ref = <<b, i>>
  <1> DEFINE t == [ref |-> <<b, i>>, rejected |-> i \in Rejected(b, known)]
  <1>1. t \in Txs(b, known, S)  BY Zenon DEF Txs
  <1>2. t.ref = <<b, i>>  BY Zenon
  <1> QED  BY <1>1, <1>2, Zenon

LEMMA TxsOne ==
  ASSUME NEW b, NEW known, NEW S, NEW t \in Txs(b, known, S), NEW u \in Txs(b, known, S), t.ref = u.ref
  PROVE  t = u
  <1>1. PICK i \in S : t = [ref |-> <<b, i>>, rejected |-> i \in Rejected(b, known)]  BY Zenon DEF Txs
  <1>2. PICK j \in S : u = [ref |-> <<b, j>>, rejected |-> j \in Rejected(b, known)]  BY Zenon DEF Txs
  <1>3. t.ref = <<b, i>> /\ u.ref = <<b, j>>  BY <1>1, <1>2, Zenon
  <1>4. <<b, i>> = <<b, j>>  BY <1>3, Zenon
  <1>5. i = j  BY <1>4, Zenon
  <1> QED  BY <1>1, <1>2, <1>5, Zenon

LEMMA TxsType ==
  ASSUME NEW b \in Num, NEW known, NEW S, S \subseteq DOMAIN Blocks[b]
  PROVE  Txs(b, known, S) \subseteq Tx /\ IsFiniteSet(Txs(b, known, S))
  <1> DEFINE f == [i \in S |-> [ref |-> <<b, i>>, rejected |-> i \in Rejected(b, known)]]
             T == Txs(b, known, S)
  <1>1. IsFiniteSet(S)  BY FinitePositions, Zenon
  <1>2. f \in Surjection(S, T)  BY Zenon DEF Surjection, Txs
  <1>3. IsFiniteSet(T)  BY <1>1, <1>2, FS_Surjection, Zenon
  <1>4. ASSUME NEW t \in T PROVE t \in Tx
    <2>1. PICK i \in S : t = [ref |-> <<b, i>>, rejected |-> i \in Rejected(b, known)]  BY Zenon DEF Txs
    <2>2. <<b, i>> \in Ref  BY RefOf, Zenon
    <2> QED  BY <2>1, <2>2 DEF Tx
  <1> QED  BY <1>3, <1>4, Zenon

\* A transaction of the block's batch is no barrier, unless it is a config transaction, which is alone.
LEMMA BatchFacts ==
  ASSUME NEW b \in Num, NEW known
  PROVE  /\ Batch(b, known) \in Seg /\ Batch(b, known).op = "queue" /\ Batch(b, known).num = b
         /\ Batch(b, known).txs = Txs(b, known, Accepted(b, known) \ snapshotTx(b, known))
         /\ ~Config(b, known) => \A t \in Batch(b, known).txs : ~Barrier(t)
         /\ Config(b, known) => \E t : Batch(b, known).txs = {t}
  <1> DEFINE S == Accepted(b, known) \ snapshotTx(b, known)
  <1>1. S \subseteq DOMAIN Blocks[b] /\ b \in Nat  BY AcceptedFacts, NumFacts
  <1>2. Txs(b, known, S) \in SUBSET Tx  BY <1>1, TxsType, Zenon
  <1>3. /\ Batch(b, known) \in Seg /\ Batch(b, known).op = "queue" /\ Batch(b, known).num = b
        /\ Batch(b, known).txs = Txs(b, known, S)
    <2>1. \A X \in SUBSET Tx : LET g == Segment(b, X) IN g \in Seg /\ g.op = "queue" /\ g.num = b /\ g.txs = X
      BY <1>1, SegmentFacts, ZenonT(40)
    <2> HIDE DEF S
    <2>2. Batch(b, known) = Segment(b, Txs(b, known, S))  BY Zenon DEF Batch, S
    <2> QED  BY <2>1, <2>2, <1>2, Zenon
  <1>4. ASSUME ~Config(b, known), NEW t \in Txs(b, known, S), Barrier(t) PROVE FALSE
    <2>1. PICK i \in S : t.ref = <<b, i>> /\ (t.rejected <=> i \in Rejected(b, known))  BY TxsFrom, Zenon
    <2>2. TxOf(t.ref) = Blocks[b][i]  BY <2>1 DEF TxOf
    <2>3. i \in Accepted(b, known) /\ i \notin snapshotTx(b, known)  BY Zenon
    <2>4. Blocks[b][i].kind # "config"  BY <1>4, <2>3, Zenon DEF Config
    <2>5. Blocks[b][i].kind = "snapshot" /\ ~t.rejected  BY <1>4, <2>2, <2>4, Zenon DEF Barrier
    <2>6. i \in Rejected(b, known)  BY <2>3, <2>5, Zenon DEF Rejected, Snapshots
    <2> QED  BY <2>1, <2>5, <2>6, Zenon
  <1>5. ASSUME Config(b, known) PROVE \E t : Txs(b, known, S) = {t}
    <2>1. PICK i \in Accepted(b, known) : Blocks[b][i].kind = "config"  BY <1>5, Zenon DEF Config
    <2>2. i \in DOMAIN Blocks[b]  BY AcceptedFacts, Zenon
    <2>3. Len(Blocks[b]) = 1  BY <2>1, <2>2, RelayAssumption, Zenon
    <2>4. DOMAIN Blocks[b] = {i}
      <3>1. DOMAIN Blocks[b] = 1..1  BY <2>3, NumFacts, Zenon
      <3> QED  BY <3>1, <2>2
    <2>5. i \notin snapshotTx(b, known)
      <3>1. Blocks[b][i].kind # "snapshot"  BY <2>1, Zenon
      <3> QED  BY <3>1, AcceptedFacts, Zenon
    <2>6. S = {i}  BY <2>1, <2>4, <2>5, <1>1, Zenon
    <2>7. PICK t \in Txs(b, known, S) : t.ref = <<b, i>>  BY <2>6, TxsHas, ZenonT(40)
    <2>8. ASSUME NEW u \in Txs(b, known, S) PROVE u = t
      <3>1. PICK j \in S : u.ref = <<b, j>>  BY TxsFrom, ZenonT(40)
      <3>2. u.ref = t.ref  BY <3>1, <2>6, <2>7, Zenon
      <3> QED  BY <3>2, TxsOne, Zenon
    <2>9. Txs(b, known, S) = {t}  BY <2>7, <2>8, Zenon
    <2> QED  BY <2>9, Zenon
  <1> QED  BY <1>3, <1>4, <1>5, Zenon

LEMMA SnapshotFacts ==
  ASSUME NEW b \in Num, NEW known
  PROVE  /\ SnapshotSegment(b, known) \in Seg /\ SnapshotSegment(b, known).op = "queue"
         /\ SnapshotSegment(b, known).num = b
         /\ SnapshotSegment(b, known).txs = Txs(b, known, snapshotTx(b, known))
         /\ \A t \in SnapshotSegment(b, known).txs : SnapshotSegment(b, known).txs = {t}
  <1> DEFINE S == snapshotTx(b, known)
  <1>1. S \subseteq DOMAIN Blocks[b] /\ b \in Nat  BY AcceptedFacts, NumFacts
  <1>2. Txs(b, known, S) \in SUBSET Tx  BY <1>1, TxsType, Zenon
  <1>3. /\ SnapshotSegment(b, known) \in Seg /\ SnapshotSegment(b, known).op = "queue"
        /\ SnapshotSegment(b, known).num = b /\ SnapshotSegment(b, known).txs = Txs(b, known, S)
    <2>1. \A X \in SUBSET Tx : LET g == Segment(b, X) IN g \in Seg /\ g.op = "queue" /\ g.num = b /\ g.txs = X
      BY <1>1, SegmentFacts, ZenonT(40)
    <2> HIDE DEF S
    <2>2. SnapshotSegment(b, known) = Segment(b, Txs(b, known, S))  BY Zenon DEF SnapshotSegment, S
    <2> QED  BY <2>1, <2>2, <1>2, Zenon
  <1>4. ASSUME NEW i \in S, NEW j \in S PROVE i = j
    <2>1. i <= j /\ j <= i  BY Zenon DEF snapshotTx
    <2>2. i \in Nat /\ j \in Nat  BY <1>1, NumFacts
    <2> QED  BY <2>1, <2>2
  <1>5. ASSUME NEW t \in Txs(b, known, S), NEW u \in Txs(b, known, S) PROVE u = t
    <2>1. PICK i \in S : t.ref = <<b, i>>  BY TxsFrom, Zenon
    <2>2. PICK j \in S : u.ref = <<b, j>>  BY TxsFrom, Zenon
    <2>3. t.ref = u.ref  BY <2>1, <2>2, <1>4, Zenon
    <2> QED  BY <2>3, TxsOne, Zenon
  <1>6. ASSUME NEW t \in Txs(b, known, S) PROVE Txs(b, known, S) = {t}  BY <1>5, Zenon
  <1> QED  BY <1>3, <1>6, Zenon

\* A sequence of segments is as submitMappedBlock should build it.
WellBuilt(d) ==
  /\ d \in Seq(Seg) /\ Pairwise(d) /\ Fenced(d) /\ d # <<>>
  /\ d[1].op = "drain" \/ (d[1].op = "queue" /\ \A t \in d[1].txs : ~Barrier(t))

Alone(g) == \A t \in g.txs : g.txs = {t}
Plain(g) == \A t \in g.txs : ~Barrier(t)
Fresh(g) == g \in Seg /\ g.op = "queue" /\ IsFiniteSet(g.txs)

LEMMA BuildOne ==
  ASSUME NEW g, Fresh(g), Plain(g)
  PROVE  WellBuilt(<<g>>)
  <1> DEFINE d == <<g>>
  <1>1. d \in Seq(Seg) /\ DOMAIN d = {1} /\ d[1] = g /\ d # <<>>  BY DEF Fresh
  <1>2. Pairwise(d)  BY <1>1, Zenon DEF Pairwise
  <1>3. ~(1 > 1) /\ g.op # "drain"  BY DEF Fresh
  <1>4. Fenced(d)  BY <1>1, <1>3, Zenon DEF Fenced, Plain, Fresh
  <1> HIDE DEF d
  <1>5. WellBuilt(d)  BY <1>1, <1>2, <1>4, Zenon DEF WellBuilt, Plain, Fresh
  <1> QED  BY <1>5, Zenon DEF d

LEMMA BuildThree ==
  ASSUME NEW g, Fresh(g), Alone(g)
  PROVE  WellBuilt(<<Drain, g, Drain>>)
  <1> DEFINE d == <<Drain, g, Drain>>
  <1>1. d \in Seq(Seg) /\ DOMAIN d = 1..3 /\ d[1] = Drain /\ d[2] = g /\ d[3] = Drain /\ d # <<>>
    BY SegFacts DEF Fresh
  <1> HIDE DEF d
  <1>2. Pairwise(d)
    <2>1. \A i \in DOMAIN d : i = 2 \/ d[i].txs = {}  BY <1>1, SegFacts
    <2> QED  BY <2>1, Zenon DEF Pairwise
  <1>3. Fenced(d)
    <2>1. \A i \in DOMAIN d : d[i].op # "write"  BY <1>1, SegFacts DEF Fresh
    <2>2. ASSUME NEW i \in DOMAIN d, NEW t \in d[i].txs
          PROVE  /\ d[i].txs = {t} /\ i + 1 \in DOMAIN d /\ d[i + 1].op = "drain"
                 /\ i = 1 \/ d[i - 1].op = "drain"
      <3>1. i = 2  BY <1>1, SegFacts
      <3>2. i + 1 = 3 /\ i - 1 = 1 /\ 3 \in DOMAIN d  BY <3>1, <1>1
      <3> QED  BY <3>1, <3>2, <1>1, SegFacts, Zenon DEF Alone
    <2>3. IsFiniteSet({})  BY FS_EmptySet, Zenon
    <2>4. ASSUME NEW i \in DOMAIN d PROVE IsFiniteSet(d[i].txs) /\ (d[i].op = "drain" => d[i].txs = {})
      <3>1. i = 1 \/ i = 2 \/ i = 3  BY <1>1
      <3>2. g.op # "drain"  BY Zenon DEF Fresh
      <3> QED  BY <3>1, <3>2, <2>3, <1>1, SegFacts, Zenon DEF Fresh
    <2> QED  BY <2>1, <2>2, <2>4, Zenon DEF Fenced
  <1>4. WellBuilt(d)  BY <1>1, <1>2, <1>3, SegFacts, Zenon DEF WellBuilt
  <1> QED  BY <1>4, Zenon DEF d

LEMMA BuildFour ==
  ASSUME NEW g, NEW h, Fresh(g), Plain(g), Fresh(h), Alone(h), g.txs \cap h.txs = {}
  PROVE  WellBuilt(<<g, Drain, h, Drain>>)
  <1> DEFINE d == <<g, Drain, h, Drain>>
  <1>1. d \in Seq(Seg) /\ DOMAIN d = 1..4 /\ d[1] = g /\ d[2] = Drain /\ d[3] = h /\ d[4] = Drain /\ d # <<>>
    BY SegFacts DEF Fresh
  <1> HIDE DEF d
  <1>2. Pairwise(d)
    <2>1. \A i \in DOMAIN d : i = 1 \/ i = 3 \/ d[i].txs = {}  BY <1>1, SegFacts
    <2> QED  BY <1>1, <2>1, Zenon DEF Pairwise
  <1>3. Fenced(d)
    <2>1. \A i \in DOMAIN d : d[i].op # "write"  BY <1>1, SegFacts DEF Fresh
    <2>2. ASSUME NEW i \in DOMAIN d, NEW t \in d[i].txs, Barrier(t)
          PROVE  /\ d[i].txs = {t} /\ i + 1 \in DOMAIN d /\ d[i + 1].op = "drain"
                 /\ i = 1 \/ d[i - 1].op = "drain"
      <3>1. i # 1  BY <2>2, <1>1, Zenon DEF Plain
      <3>2. i = 3  BY <3>1, <1>1, SegFacts
      <3>3. i + 1 = 4 /\ i - 1 = 2 /\ 4 \in DOMAIN d  BY <3>2, <1>1
      <3> QED  BY <3>2, <3>3, <1>1, SegFacts, ZenonT(40) DEF Alone
    <2>3. IsFiniteSet({})  BY FS_EmptySet, Zenon
    <2>4. ASSUME NEW i \in DOMAIN d PROVE IsFiniteSet(d[i].txs) /\ (d[i].op = "drain" => d[i].txs = {})
      <3>1. i = 1 \/ i = 2 \/ i = 3 \/ i = 4  BY <1>1
      <3>2. g.op # "drain" /\ h.op # "drain"  BY Zenon DEF Fresh
      <3>3. IsFiniteSet(g.txs) /\ IsFiniteSet(h.txs) /\ IsFiniteSet(Drain.txs) /\ Drain.txs = {}
        BY <2>3, SegFacts, Zenon DEF Fresh
      <3>4. d[i] = g \/ d[i] = h \/ d[i] = Drain  BY <3>1, <1>1, Zenon
      <3> QED  BY <3>2, <3>3, <3>4, Zenon
    <2> QED  BY <2>1, <2>2, <2>4, Zenon DEF Fenced
  <1>4. WellBuilt(d)  BY <1>1, <1>2, <1>3, Zenon DEF WellBuilt, Plain, Fresh
  <1> QED  BY <1>4, Zenon DEF d

LEMMA MappedLine ==
  ASSUME NEW b \in Num, NEW known
  PROVE  /\ WellBuilt(submitMappedBlock(b, known))
         /\ \A k \in DOMAIN submitMappedBlock(b, known) :
              /\ submitMappedBlock(b, known)[k].num \in {0, b}
              /\ submitMappedBlock(b, known)[k].txs \subseteq Txs(b, known, Accepted(b, known))
  <1> DEFINE A == Accepted(b, known)
             sn == snapshotTx(b, known)
             d == submitMappedBlock(b, known)
             g == Batch(b, known)
             h == SnapshotSegment(b, known)
             In(x) == x.num \in {0, b} /\ x.txs \subseteq Txs(b, known, A)
  <1>1. sn \subseteq A /\ A \subseteq DOMAIN Blocks[b] /\ A \ sn \subseteq DOMAIN Blocks[b] /\ sn \subseteq DOMAIN Blocks[b]
    BY AcceptedFacts, Zenon
  <1>2. /\ g \in Seg /\ g.op = "queue" /\ g.num = b /\ g.txs = Txs(b, known, A \ sn)
        /\ h \in Seg /\ h.op = "queue" /\ h.num = b /\ h.txs = Txs(b, known, sn) /\ Alone(h)
    <2>1. g \in Seg /\ g.op = "queue" /\ g.num = b /\ g.txs = Txs(b, known, A \ sn)  BY BatchFacts, Zenon
    <2>2. h \in Seg /\ h.op = "queue" /\ h.num = b /\ h.txs = Txs(b, known, sn)  BY SnapshotFacts, Zenon
    <2>3. \A t \in h.txs : h.txs = {t}  BY SnapshotFacts, Zenon
    <2> HIDE DEF g, h, A, sn
    <2>4. Alone(h)  BY <2>3, Zenon DEF Alone
    <2> QED  BY <2>1, <2>2, <2>4, Zenon
  <1>3. Txs(b, known, A \ sn) \subseteq Txs(b, known, A) /\ Txs(b, known, sn) \subseteq Txs(b, known, A)
    BY <1>1, Zenon DEF Txs
  <1> HIDE DEF A, sn, g, h
  <1>4. Fresh(g) /\ Fresh(h)
    <2>1. IsFiniteSet(Txs(b, known, A \ sn)) /\ IsFiniteSet(Txs(b, known, sn))  BY <1>1, TxsType, Zenon
    <2> QED  BY <1>2, <2>1, Zenon DEF Fresh
  <1>5. In(g) /\ In(h) /\ In(Drain)  BY <1>2, <1>3, SegFacts, Zenon
  <1>6. g.txs \cap h.txs = {}
    <2>1. ASSUME NEW t \in g.txs, t \in h.txs PROVE FALSE
      <3>0. t \in Txs(b, known, A \ sn) /\ t \in Txs(b, known, sn)  BY <2>1, <1>2, Zenon
      <3>1. PICK i \in A \ sn : t.ref = <<b, i>>  BY <3>0, TxsRef, ZenonT(40)
      <3>2. PICK j \in sn : t.ref = <<b, j>>  BY <3>0, TxsRef, Zenon
      <3> QED  BY <3>1, <3>2
    <2> QED  BY <2>1, Zenon
  <1> HIDE DEF In
  <1>7. CASE Config(b, known)
    <2>1. d = <<Drain, g, Drain>>  BY <1>7, Zenon DEF submitMappedBlock, g
    <2>2. Alone(g)
      <3>1. PICK t : g.txs = {t}  BY <1>7, BatchFacts, Zenon DEF g
      <3> QED  BY <3>1, Zenon DEF Alone
    <2>3. WellBuilt(d)  BY <2>1, <2>2, <1>4, BuildThree, Zenon
    <2>4. DOMAIN d = 1..3 /\ d[1] = Drain /\ d[2] = g /\ d[3] = Drain  BY <2>1
    <2>5. \A k \in DOMAIN d : d[k] = Drain \/ d[k] = g  BY <2>4
    <2> QED  BY <2>3, <2>5, <1>5, Zenon DEF A, In
  <1>8. CASE ~Config(b, known) /\ sn = {}
    <2>1. d = <<g>>  BY <1>8, Zenon DEF submitMappedBlock, g, sn
    <2>2. Plain(g)  BY <1>8, BatchFacts, Zenon DEF Plain, g
    <2>3. WellBuilt(d)  BY <2>1, <2>2, <1>4, BuildOne, Zenon
    <2>4. \A k \in DOMAIN d : d[k] = g  BY <2>1
    <2> QED  BY <2>3, <2>4, <1>5, Zenon DEF A, In
  <1>9. CASE ~Config(b, known) /\ sn # {} /\ g.txs = {}
    <2>1. d = <<Drain, h, Drain>>  BY <1>9, Zenon DEF submitMappedBlock, g, h, sn
    <2>2. WellBuilt(d)  BY <2>1, <1>2, <1>4, BuildThree, ZenonT(40)
    <2>3. DOMAIN d = 1..3 /\ d[1] = Drain /\ d[2] = h /\ d[3] = Drain  BY <2>1
    <2>4. \A k \in DOMAIN d : d[k] = Drain \/ d[k] = h  BY <2>3
    <2> QED  BY <2>2, <2>4, <1>5, Zenon DEF A, In
  <1>10. CASE ~Config(b, known) /\ sn # {} /\ g.txs # {}
    <2>1. d = <<g, Drain, h, Drain>>  BY <1>10, Zenon DEF submitMappedBlock, g, h, sn
    <2>2. Plain(g)  BY <1>10, BatchFacts, Zenon DEF Plain, g
    <2>3. WellBuilt(d)  BY <2>1, <2>2, <1>2, <1>4, <1>6, BuildFour, ZenonT(40)
    <2>4. DOMAIN d = 1..4 /\ d[1] = g /\ d[2] = Drain /\ d[3] = h /\ d[4] = Drain  BY <2>1
    <2>5. \A k \in DOMAIN d : d[k] = Drain \/ d[k] = g \/ d[k] = h  BY <2>4
    <2> QED  BY <2>3, <2>5, <1>5, Zenon DEF A, In
  <1> QED  BY <1>7, <1>8, <1>9, <1>10, Zenon

-----------------------------------------------------------------------------
(* Consequences of the invariant that several steps use *)

flow == <<todo, mappedq, segment, sent, statusq>>

LEMMA FlowTypes ==
  ASSUME TypeOK
  PROVE  /\ Up \cup Answered \subseteq Tx /\ InFlight \subseteq Tx
         /\ InFlight = Writing \cup SegTxs(mappedq) \cup segment.txs \cup sent \cup Answered
         /\ Writing \subseteq SegTxs(todo)
  <1>1. SegTxs(todo) \subseteq Tx /\ SegTxs(mappedq) \subseteq Tx  BY TxsOfSegs, Zenon DEF TypeOK
  <1>2. segment.txs \subseteq Tx /\ sent \subseteq Tx  BY Zenon DEF TypeOK, Seg
  <1>3. Answered \subseteq Tx  BY Zenon DEF TypeOK, Answered
  <1>4. InFlight = Writing \cup SegTxs(mappedq) \cup segment.txs \cup sent \cup Answered
    BY Zenon DEF InFlight
  <1>5. Writing \subseteq SegTxs(todo)
    <2>1. CASE todo # <<>>  BY <2>1, TailTxs, Zenon DEF Writing, TypeOK
    <2>2. CASE todo = <<>>  BY <2>2, Zenon DEF Writing
    <2> QED  BY <2>1, <2>2, Zenon
  <1> QED  BY <1>1, <1>2, <1>3, <1>4, <1>5, Zenon DEF Up, Behind

\* A step that moves nothing keeps every set of transactions.
LEMMA FlowFrame ==
  ASSUME UNCHANGED flow
  PROVE  /\ InFlight' = InFlight /\ Up' = Up /\ Behind' = Behind /\ Answered' = Answered /\ Writing' = Writing
         /\ OnceInv => OnceInv'
         /\ BarrierInv => BarrierInv'
  <1> USE DEF flow
  <1>1. Writing' = Writing /\ Answered' = Answered  BY Zenon DEF Writing, Answered
  <1>2. Behind' = Behind  BY Zenon DEF Behind
  <1>3. Up' = Up  BY <1>2, Zenon DEF Up
  <1>4. InFlight' = InFlight  BY <1>1, Zenon DEF InFlight
  <1>5. OnceInv => OnceInv'  BY <1>1, <1>2, <1>3, Zenon DEF OnceInv
  <1>6. BarrierInv => BarrierInv'  BY <1>4, Zenon DEF BarrierInv
  <1> QED  BY <1>1, <1>2, <1>3, <1>4, <1>5, <1>6, ZenonT(40)

book == <<incoming, dedup, txStatus, pendingCount, nextBlockNum, stored>>

\* A step that moves transactions downstream leaves what is known about them.
LEMMA BookFrame ==
  ASSUME UNCHANGED book, Up' \subseteq Up, statusq' \subseteq statusq
  PROVE  /\ (UpInv => UpInv') /\ (StoredInv => StoredInv') /\ (AnswerInv => AnswerInv')
         /\ (FinalInv => FinalInv') /\ (DedupInv => DedupInv') /\ (KnownInv => KnownInv') /\ (CountInv => CountInv')
  <1> USE DEF book
  <1>1. UpInv => UpInv'  BY Zenon DEF UpInv
  <1>2. StoredInv => StoredInv'  BY Zenon DEF StoredInv
  <1>3. AnswerInv => AnswerInv'  BY Zenon DEF AnswerInv
  <1>4. FinalInv => FinalInv'  BY Zenon DEF FinalInv
  <1>5. DedupInv => DedupInv'  BY Zenon DEF DedupInv
  <1>6. KnownInv => KnownInv'  BY Zenon DEF KnownInv
  <1>7. CountInv => CountInv'  BY Zenon DEF CountInv
  <1> QED  BY <1>1, <1>2, <1>3, <1>4, <1>5, <1>6, <1>7, ZenonT(40)

LEMMA NothingInFlight ==
  ASSUME TypeOK, SlotsInv, available >= WaitingTxsLimit
  PROVE  InFlight = {}
  <1>1. Cardinality(InFlight) \in Nat  BY FS_CardinalityType, Zenon DEF SlotsInv
  <1>2. Cardinality(InFlight) = 0  BY <1>1, RelayAssumption, SMTT(30) DEF SlotsInv, TypeOK
  <1> QED  BY <1>2, FS_EmptySet, Zenon DEF SlotsInv

-----------------------------------------------------------------------------
(* The steps *)

LEMMA InitStep ==
  ASSUME Init
  PROVE  IInv
  <1> USE DEF Init
  <1>1. TypeOK
    <2>1. Len(Blocks) \in Nat /\ WaitingTxsLimit \in Int /\ \A b \in Num : Len(Blocks[b]) \in Int
      BY NumFacts, RelayAssumption
    <2>2. <<>> \in Seq(Seg) /\ NoSegment \in Seg  BY SegFacts
    <2> QED  BY <2>1, <2>2 DEF TypeOK
  <1>2. SegTxs(todo) = {} /\ SegTxs(mappedq) = {} /\ segment.txs = {} /\ Answered = {} /\ Writing = {}
    BY SegFacts DEF SegTxs, Answered, Writing
  <1>3. Up = {} /\ Behind = {} /\ InFlight = {}  BY <1>1, <1>2, FlowTypes, Zenon DEF Up, Behind
  <1>4. LineInv  BY <1>2 DEF LineInv
  <1>5. WindowInv  BY RefFacts DEF WindowInv
  <1>6. CountInv
    <2>1. ASSUME NEW b \in Num PROVE pendingCount[b] = Cardinality(Left(txStatus, b))
      <3>1. Left(txStatus, b) = 1..Len(Blocks[b])
        <4>1. \A i \in DOMAIN Blocks[b] : txStatus[<<b, i>>] = NotYet  BY RefOf, Zenon
        <4> QED  BY <4>1, NumFacts, Zenon DEF Left
      <3>2. Cardinality(1..Len(Blocks[b])) = Len(Blocks[b])
        <4>1. 1 \in Int /\ Len(Blocks[b]) \in Int /\ 1 <= Len(Blocks[b]) + 1 /\ Len(Blocks[b]) - 1 + 1 = Len(Blocks[b])  BY NumFacts
        <4> QED  BY <4>1, FS_Interval
      <3> QED  BY <3>1, <3>2, Zenon
    <2> QED  BY <2>1, Zenon DEF CountInv
  <1>7. OnceInv  BY <1>2, <1>3 DEF OnceInv, Pairwise
  <1>8. BarrierInv  BY <1>3 DEF BarrierInv, Fenced
  <1>9. SlotsInv
    <2>1. IsFiniteSet({}) /\ Cardinality({}) = 0  BY FS_EmptySet, Zenon
    <2> QED  BY <2>1, <1>3, RelayAssumption DEF SlotsInv
  <1>10. UpInv /\ StoredInv /\ AnswerInv /\ FinalInv /\ DedupInv
    BY <1>3, Zenon DEF UpInv, StoredInv, AnswerInv, FinalInv, DedupInv
  <1>11. KnownInv  BY RefFacts DEF KnownInv
  <1> QED  BY <1>1, <1>4, <1>5, <1>6, <1>7, <1>8, <1>9, <1>10, <1>11, ZenonT(40) DEF IInv

\* Steps that change neither the flow nor the books.
LEMMA IdleStep ==
  ASSUME IInv, UNCHANGED <<flow, book, count>>,
         UNCHANGED <<available, processed>> \/ (available' = available + processed /\ processed' = 0),
         spc' = "read" => spc = "read", lastSet' = lastSet \/ lastSet' = nextBlockNum - 1
  PROVE  IInv'
  <1>1. UNCHANGED flow /\ UNCHANGED book /\ UNCHANGED count  BY Zenon
  <1>0. available \in Int /\ processed \in Nat /\ nextBlockNum \in Nat \ {0} /\ lastSet \in Nat
    BY Zenon DEF IInv, TypeOK
  <1>9. available' \in Int /\ processed' \in Nat /\ lastSet' \in Nat /\ available' + processed' = available + processed
    BY <1>0
  <1>2. TypeOK'  BY <1>1, <1>9, Zenon DEF IInv, TypeOK, flow, book
  <1>3. LineInv'  BY <1>1, Zenon DEF IInv, LineInv, flow, book
  <1>4. WindowInv'
    <2>1. lastSet' < nextBlockNum'  BY DEF IInv, WindowInv, TypeOK, book
    <2> QED  BY <2>1, <1>1, Zenon DEF IInv, WindowInv, book
  <1>5. InFlight' = InFlight /\ Up' = Up /\ OnceInv' /\ BarrierInv'  BY <1>1, FlowFrame, Zenon DEF IInv
  <1>6. statusq' = statusq  BY <1>1, Zenon DEF flow
  <1>7. UpInv' /\ StoredInv' /\ AnswerInv' /\ FinalInv' /\ DedupInv' /\ KnownInv' /\ CountInv'
    BY <1>1, <1>5, <1>6, BookFrame, Zenon DEF IInv
  <1>8. SlotsInv'  BY <1>5, <1>9, Zenon DEF IInv, SlotsInv
  <1> QED  BY <1>2, <1>3, <1>4, <1>5, <1>7, <1>8, ZenonT(40) DEF IInv

LEMMA WaitStep ==
  ASSUME IInv, WaitTillEmpty
  PROVE  IInv'
  <1>1. /\ todo # <<>> /\ Head(todo).op = "drain" /\ available >= WaitingTxsLimit /\ todo' = Tail(todo)
        /\ UNCHANGED <<mappedq, segment, sent, statusq, spc, available, processed, count, lastSet>> /\ UNCHANGED book
    BY Zenon DEF WaitTillEmpty, book, blocks, sender, window, receiver, commit, committer
  <1>2. todo \in Seq(Seg) /\ TypeOK  BY Zenon DEF IInv, TypeOK
  <1>3. TypeOK'
    <2>1. Tail(todo) \in Seq(Seg)  BY <1>1, <1>2, HeadFacts, Zenon
    <2> QED  BY <2>1, <1>1, Zenon DEF IInv, TypeOK, book
  <1>4. InFlight = {}  BY <1>1, NothingInFlight, Zenon DEF IInv
  <1>5. SegTxs(todo) = SegTxs(Tail(todo))
    <2>1. Head(todo).txs = {}  BY <1>1, <1>2, HeadFacts, Zenon DEF IInv, BarrierInv, Fenced
    <2> QED  BY <2>1, <1>1, <1>2, TailTxs, ZenonT(40)
  <1>6. Behind' = Behind /\ Up' = Up /\ Answered' = Answered  BY <1>1, <1>5, Zenon DEF Behind, Up, Answered
  <1>7. Head(todo).op # "write"  BY <1>1, Zenon
  <1>8. InFlight' = {}
    <2>1. Writing' = {}
      <3>1. CASE Tail(todo) = <<>>  BY <3>1, <1>1, Zenon DEF Writing
      <3>2. CASE Tail(todo) # <<>>
        <4>1. Head(Tail(todo)) = todo[2] /\ 2 \in DOMAIN todo /\ 2 > 1
          <5>1. Head(Tail(todo)) = todo[2] /\ 2 \in DOMAIN todo  BY <3>2, <1>1, <1>2, SecondFacts, ZenonT(40)
          <5> QED  BY <5>1
        <4>2. todo[2].op # "write"  BY <4>1, Zenon DEF IInv, BarrierInv, Fenced
        <4> QED  BY <4>1, <4>2, <1>1, Zenon DEF Writing
      <3> QED  BY <3>1, <3>2, Zenon
    <2> QED  BY <2>1, <1>4, <1>1, <1>6, Zenon DEF InFlight
  <1>9. LineInv'  BY <1>1, <1>2, NumsTail, Zenon DEF IInv, LineInv, book
  <1>10. WindowInv'  BY <1>1, Zenon DEF IInv, WindowInv, book
  <1>11. OnceInv'
    <2>1. Pairwise(todo')  BY <1>1, <1>2, HeadApart, Zenon DEF IInv, OnceInv
    <2> QED  BY <2>1, <1>1, <1>5, <1>6, ZenonT(40) DEF IInv, OnceInv
  <1>12. BarrierInv'
    <2>1. Fenced(todo')  BY <1>1, <1>2, FencedTail, Zenon DEF IInv, BarrierInv
    <2> QED  BY <2>1, <1>8, Zenon DEF BarrierInv
  <1>13. SlotsInv'
    <2>1. SlotsInv  BY Zenon DEF IInv
    <2> QED  BY <2>1, <1>1, <1>4, <1>8, ZenonT(40) DEF SlotsInv
  <1>14. UpInv' /\ StoredInv' /\ AnswerInv' /\ FinalInv' /\ DedupInv' /\ KnownInv' /\ CountInv'
    BY <1>1, <1>6, BookFrame, Zenon DEF IInv
  <1> QED  BY <1>3, <1>9, <1>10, <1>11, <1>12, <1>13, <1>14, ZenonT(40) DEF IInv

LEMMA AcquireStep ==
  ASSUME IInv, Acquire
  PROVE  IInv'
  <1> DEFINE g == todo[1]
             w == [g EXCEPT !.op = "write"]
  <1>1. /\ todo # <<>> /\ Head(todo).op = "queue" /\ available' = available - Cardinality(Head(todo).txs)
        /\ todo' = [todo EXCEPT ![1].op = "write"]
        /\ UNCHANGED <<mappedq, segment, sent, statusq, spc, processed, count, lastSet>> /\ UNCHANGED book
    BY Zenon DEF Acquire, book, blocks, sender, window, receiver, commit, committer, inFlightTxCount
  <1>2. todo \in Seq(Seg) /\ TypeOK  BY Zenon DEF IInv, TypeOK
  <1>3. Head(todo) = g /\ g \in Seg /\ 1 \in DOMAIN todo /\ g.op = "queue"  BY <1>1, <1>2, HeadFacts, Zenon
  <1>4. w \in Seg /\ w.op = "write" /\ w.txs = g.txs /\ w.num = g.num  BY <1>3, Zenon DEF Seg
  <1>5. /\ todo' \in Seq(Seg) /\ DOMAIN todo' = DOMAIN todo /\ todo'[1] = w /\ todo' # <<>>
        /\ \A i \in DOMAIN todo : i # 1 => todo'[i] = todo[i]
    BY <1>1, <1>2, <1>3, <1>4
  <1> HIDE DEF w
  <1>6. \A i \in DOMAIN todo : todo'[i].txs = todo[i].txs /\ todo'[i].num = todo[i].num  BY <1>4, <1>5, Zenon
  <1>7. SegTxs(todo') = SegTxs(todo)  BY <1>5, <1>6, Zenon DEF SegTxs
  <1>8. Behind' = Behind /\ Up' = Up /\ Answered' = Answered  BY <1>1, <1>7, Zenon DEF Behind, Up, Answered
  <1>9. Writing = {} /\ Writing' = g.txs
    <2>1. Head(todo).op # "write" /\ Head(todo') = w  BY <1>3, <1>5
    <2> QED  BY <2>1, <1>4, <1>5, ZenonT(40) DEF Writing
  <1>10. InFlight' = InFlight \cup g.txs  BY <1>9, <1>1, <1>8, ZenonT(40) DEF InFlight
  <1>11. IsFiniteSet(g.txs) /\ IsFiniteSet(InFlight)  BY <1>3, Zenon DEF IInv, BarrierInv, Fenced, SlotsInv
  <1>12. SlotsInv' /\ available' \in Int
    <2>1. /\ IsFiniteSet(InFlight \cup g.txs)
          /\ Cardinality(InFlight \cup g.txs) = Cardinality(InFlight) + Cardinality(g.txs) - Cardinality(InFlight \cap g.txs)
      BY <1>11, FS_Union, Zenon
    <2>2. IsFiniteSet(InFlight \cap g.txs)  BY <1>11, FS_Intersection, Zenon
    <2>3. Cardinality(InFlight) \in Nat /\ Cardinality(g.txs) \in Nat /\ Cardinality(InFlight \cap g.txs) \in Nat
      BY <1>11, <2>2, FS_CardinalityType, ZenonT(40)
    <2>4. /\ available \in Int /\ processed \in Nat /\ WaitingTxsLimit \in Nat
          /\ available + processed + Cardinality(InFlight) <= WaitingTxsLimit
      BY RelayAssumption, Zenon DEF IInv, TypeOK, SlotsInv
    <2>5. available' \in Int /\ available' + processed + Cardinality(InFlight \cup g.txs) <= WaitingTxsLimit
      BY <2>1, <2>3, <2>4, <1>1, <1>3, SMTT(30)
    <2> QED  BY <2>1, <2>5, <1>1, <1>10, ZenonT(40) DEF SlotsInv
  <1>13. TypeOK'  BY <1>1, <1>5, <1>12, ZenonT(40) DEF IInv, TypeOK, book
  <1>14. LineInv'  BY <1>1, <1>5, <1>6, ZenonT(40) DEF IInv, LineInv, book
  <1>15. WindowInv'  BY <1>1, Zenon DEF IInv, WindowInv, book
  <1>16. OnceInv'
    <2>1. Pairwise(todo')  BY <1>5, <1>6, Zenon DEF IInv, OnceInv, Pairwise
    <2> QED  BY <2>1, <1>1, <1>7, <1>8, Zenon DEF IInv, OnceInv
  <1>17. BarrierInv'
    <2>1. Fenced(todo')
      <3>1. \A i \in DOMAIN todo : i > 1 => todo'[i].op # "write"  BY <1>5 DEF IInv, BarrierInv, Fenced
      <3>2. ASSUME NEW i \in DOMAIN todo, NEW t \in todo'[i].txs, Barrier(t)
            PROVE  /\ todo'[i].txs = {t} /\ i + 1 \in DOMAIN todo /\ todo'[i + 1].op = "drain"
                   /\ i = 1 \/ todo'[i - 1].op = "drain"
        <4>1. /\ todo[i].txs = {t} /\ i + 1 \in DOMAIN todo /\ todo[i + 1].op = "drain"
              /\ i = 1 \/ todo[i - 1].op = "drain"
          BY <3>2, <1>6, Zenon DEF IInv, BarrierInv, Fenced
        <4>2. i + 1 # 1 /\ (i # 1 => i - 1 \in DOMAIN todo)  BY <1>1, <1>2
        <4>3. i # 1 => i - 1 # 1  BY <4>1, <4>2, <1>3, Zenon
        <4> QED  BY <4>1, <4>2, <4>3, <1>5, <1>6, ZenonT(40)
      <3>3. ASSUME NEW i \in DOMAIN todo PROVE IsFiniteSet(todo'[i].txs) /\ (todo'[i].op = "drain" => todo'[i].txs = {})
        <4>1. w.op # "drain"  BY <1>4, Zenon
        <4> QED  BY <4>1, <1>5, <1>6, Zenon DEF IInv, BarrierInv, Fenced
      <3> QED  BY <3>1, <3>2, <3>3, <1>5, ZenonT(40) DEF Fenced
    <2>2. todo'[1].op # "queue"  BY <1>4, <1>5, Zenon
    <2>3. ASSUME NEW t \in InFlight', Barrier(t) PROVE InFlight' = {t} /\ t \in todo'[1].txs
      <3>1. t \notin InFlight
        <4>1. todo[1].op # "drain" /\ todo[1].op # "write"  BY <1>3, Zenon
        <4> QED  BY <4>1, <2>3, Zenon DEF IInv, BarrierInv
      <3>2. t \in g.txs  BY <3>1, <1>10, Zenon
      <3>3. g.txs = {t} /\ InFlight = {}  BY <3>2, <2>3, <1>1, <1>3, ZenonT(40) DEF IInv, BarrierInv, Fenced
      <3> QED  BY <3>2, <3>3, <1>10, <1>4, <1>5, ZenonT(40)
    <2> QED  BY <2>1, <2>2, <2>3, <1>4, <1>5, ZenonT(40) DEF BarrierInv
  <1>18. UpInv' /\ StoredInv' /\ AnswerInv' /\ FinalInv' /\ DedupInv' /\ KnownInv' /\ CountInv'
    BY <1>1, <1>8, BookFrame, ZenonT(40) DEF IInv
  <1> QED  BY <1>12, <1>13, <1>14, <1>15, <1>16, <1>17, <1>18, ZenonT(40) DEF IInv

LEMMA QueueStep ==
  ASSUME IInv, QueueMappedBlock
  PROVE  IInv'
  <1> DEFINE g == Head(todo)
  <1>1. /\ todo # <<>> /\ g.op = "write" /\ mappedq' = Append(mappedq, g) /\ todo' = Tail(todo)
        /\ UNCHANGED <<segment, sent, statusq, spc, available, processed, count, lastSet>> /\ UNCHANGED book
    BY Zenon DEF QueueMappedBlock, book, blocks, window, receiver, commit, committer
  <1>2. todo \in Seq(Seg) /\ mappedq \in Seq(Seg) /\ TypeOK  BY Zenon DEF IInv, TypeOK
  <1>3. g \in Seg /\ g = todo[1] /\ 1 \in DOMAIN todo /\ Tail(todo) \in Seq(Seg)  BY <1>1, <1>2, HeadFacts, ZenonT(40)
  <1>4. SegTxs(todo) = g.txs \cup SegTxs(Tail(todo)) /\ SegTxs(mappedq') = SegTxs(mappedq) \cup g.txs
    BY <1>1, <1>2, <1>3, TailTxs, AppendTxs, ZenonT(40)
  <1>5. g.txs \cap SegTxs(Tail(todo)) = {} /\ Pairwise(todo')  BY <1>1, <1>2, HeadApart, Zenon DEF IInv, OnceInv
  <1>6. Behind' = Behind /\ Up' = Up /\ Answered' = Answered  BY <1>1, <1>4, Zenon DEF Behind, Up, Answered
  <1>7. Writing = g.txs  BY <1>1, Zenon DEF Writing
  <1>8. Tail(todo) # <<>> => Head(Tail(todo)) = todo[2] /\ Tail(todo)[1] = todo[2] /\ 2 \in DOMAIN todo
    BY <1>1, <1>2, SecondFacts, Zenon
  <1>9. Writing' = {}
    <2>1. 2 > 1  OBVIOUS
    <2>2. Tail(todo) # <<>> => todo[2].op # "write"  BY <1>8, <2>1, Zenon DEF IInv, BarrierInv, Fenced
    <2> QED  BY <2>2, <1>1, <1>8, Zenon DEF Writing
  <1>10. TypeOK'
    <2>1. mappedq' \in Seq(Seg)  BY <1>1, <1>2, <1>3, AppendFacts, ZenonT(40)
    <2> QED  BY <2>1, <1>1, <1>3, Zenon DEF IInv, TypeOK, book
  <1>11. InFlight' = InFlight
    <2>1. InFlight' = Writing' \cup SegTxs(mappedq') \cup segment' .txs \cup sent' \cup Answered'
      BY Zenon DEF InFlight
    <2> QED  BY <2>1, <1>1, <1>2, <1>4, <1>6, <1>7, <1>9, FlowTypes, ZenonT(40)
  <1>12. LineInv'
    <2>1. \A i \in DOMAIN todo' : todo'[i].num < incoming  BY <1>1, <1>2, NumsTail, ZenonT(40) DEF IInv, LineInv
    <2>2. \A i \in DOMAIN mappedq' : mappedq'[i].num < incoming
      <3>1. g.num < incoming /\ \A i \in DOMAIN mappedq : mappedq[i].num < incoming
        BY <1>3, Zenon DEF IInv, LineInv
      <3> QED  BY <3>1, <1>1, <1>2, <1>3, NumsAppend, ZenonT(40)
    <2> QED  BY <2>1, <2>2, <1>1, ZenonT(40) DEF IInv, LineInv, book
  <1>13. WindowInv'  BY <1>1, Zenon DEF IInv, WindowInv, book
  <1>14. OnceInv'
    <2>1. g.txs \cap SegTxs(mappedq) = {}  BY <1>4, Zenon DEF IInv, OnceInv
    <2>2. Pairwise(mappedq')  BY <2>1, <1>1, <1>2, <1>3, AppendApart, ZenonT(40) DEF IInv, OnceInv
    <2>3. SegTxs(todo') \cap SegTxs(mappedq') = {}  BY <1>1, <1>4, <1>5, Zenon DEF IInv, OnceInv
    <2>4. segment' .txs \cap (SegTxs(mappedq') \cup SegTxs(todo')) = {}  BY <1>1, <1>4, Zenon DEF IInv, OnceInv
    <2> QED  BY <2>2, <2>3, <2>4, <1>1, <1>5, <1>6, ZenonT(40) DEF IInv, OnceInv
  <1>15. BarrierInv'
    <2>1. Fenced(todo')  BY <1>1, <1>2, FencedTail, ZenonT(40) DEF IInv, BarrierInv
    <2>2. ASSUME todo' # <<>>, NEW t \in todo'[1].txs, Barrier(t) PROVE FALSE
      <3>1. t \in todo[2].txs /\ 2 \in DOMAIN todo  BY <2>2, <1>1, <1>8, ZenonT(40)
      <3>2. 2 = 1 \/ todo[2 - 1].op = "drain"  BY <3>1, <2>2, ZenonT(40) DEF IInv, BarrierInv, Fenced
      <3>3. todo[2 - 1] = g  BY <1>3
      <3> QED  BY <3>2, <3>3, <1>1, SMTT(30)
    <2>3. ASSUME NEW t \in InFlight, Barrier(t) PROVE InFlight = {t} /\ todo' # <<>> /\ todo'[1].op = "drain"
      <3>1. todo[1].op # "drain"  BY <1>1, <1>3, Zenon
      <3>2. InFlight = {t} /\ t \in todo[1].txs  BY <2>3, <3>1, Zenon DEF IInv, BarrierInv
      <3>3. 1 + 1 \in DOMAIN todo /\ todo[1 + 1].op = "drain"  BY <3>2, <2>3, <1>3, ZenonT(40) DEF IInv, BarrierInv, Fenced
      <3>4. 2 \in DOMAIN todo /\ todo[2].op = "drain"  BY <3>3
      <3>5. Tail(todo) # <<>> /\ Tail(todo)[1] = todo[2]  BY <3>4, <1>1, <1>2
      <3> QED  BY <3>2, <3>4, <3>5, <1>1, ZenonT(40)
    <2> QED  BY <2>1, <2>2, <2>3, <1>11, ZenonT(40) DEF BarrierInv
  <1>16. SlotsInv'  BY <1>1, <1>11, Zenon DEF IInv, SlotsInv
  <1>17. UpInv' /\ StoredInv' /\ AnswerInv' /\ FinalInv' /\ DedupInv' /\ KnownInv' /\ CountInv'
    BY <1>1, <1>6, BookFrame, ZenonT(40) DEF IInv
  <1> QED  BY <1>10, <1>12, <1>13, <1>14, <1>15, <1>16, <1>17, Zenon DEF IInv

LEMMA RegisterStep ==
  ASSUME IInv, Register
  PROVE  IInv'
  <1> DEFINE g == Head(mappedq)
  <1>1. /\ mappedq # <<>> /\ mappedq' = Tail(mappedq) /\ segment' = g /\ spc = "read" /\ spc' # "read"
        /\ count' = IF g.num = nextBlockNum + count THEN count + 1 ELSE count
        /\ UNCHANGED <<todo, sent, statusq, available, processed, lastSet>> /\ UNCHANGED book
    BY Zenon DEF Register, book, blocks, mapping, receiver, commit, committer, isNew
  <1>2. todo \in Seq(Seg) /\ mappedq \in Seq(Seg) /\ TypeOK  BY Zenon DEF IInv, TypeOK
  <1>3. g \in Seg /\ g = mappedq[1] /\ 1 \in DOMAIN mappedq /\ Tail(mappedq) \in Seq(Seg)
    BY <1>1, <1>2, HeadFacts, ZenonT(40)
  <1>4. segment.txs = {}  BY <1>1, Zenon DEF IInv, LineInv
  <1>5. SegTxs(mappedq) = g.txs \cup SegTxs(Tail(mappedq))  BY <1>1, <1>2, TailTxs, ZenonT(40)
  <1>6. g.txs \cap SegTxs(Tail(mappedq)) = {} /\ Pairwise(mappedq')
    BY <1>1, <1>2, HeadApart, ZenonT(40) DEF IInv, OnceInv
  <1>7. Behind' = Behind /\ Up' = Up /\ Answered' = Answered /\ Writing' = Writing
    <2>1. Writing' = Writing  BY <1>1, Zenon DEF Writing
    <2> QED  BY <2>1, <1>1, <1>4, <1>5, ZenonT(40) DEF Behind, Up, Answered
  <1>8. InFlight' = InFlight
    <2>1. InFlight' = Writing' \cup SegTxs(mappedq') \cup segment' .txs \cup sent' \cup Answered'
      BY Zenon DEF InFlight
    <2> QED  BY <2>1, <1>1, <1>2, <1>4, <1>5, <1>7, FlowTypes, ZenonT(40)
  <1>9. g.num < incoming  BY <1>3, Zenon DEF IInv, LineInv
  <1>10. TypeOK'  BY <1>1, <1>3 DEF IInv, TypeOK, book
  <1>11. LineInv'
    <2>1. \A i \in DOMAIN mappedq' : mappedq'[i].num < incoming  BY <1>1, <1>2, NumsTail, Zenon DEF IInv, LineInv
    <2> QED  BY <2>1, <1>1, Zenon DEF IInv, LineInv, book
  <1>12. WindowInv'
    <2>1. nextBlockNum + count' <= incoming  BY <1>1, <1>9 DEF IInv, WindowInv, TypeOK
    <2> QED  BY <2>1, <1>1, ZenonT(40) DEF IInv, WindowInv, book
  <1>13. OnceInv'
    <2>1. SegTxs(todo') \cap SegTxs(mappedq') = {}  BY <1>1, <1>5, Zenon DEF IInv, OnceInv
    <2>2. segment' .txs \cap (SegTxs(mappedq') \cup SegTxs(todo')) = {}
      BY <1>1, <1>5, <1>6, ZenonT(40) DEF IInv, OnceInv
    <2> QED  BY <2>1, <2>2, <1>1, <1>6, <1>7, ZenonT(40) DEF IInv, OnceInv
  <1>14. BarrierInv'  BY <1>1, <1>8, Zenon DEF IInv, BarrierInv
  <1>15. SlotsInv'  BY <1>1, <1>8, Zenon DEF IInv, SlotsInv
  <1>16. UpInv' /\ StoredInv' /\ AnswerInv' /\ FinalInv' /\ DedupInv' /\ KnownInv' /\ CountInv'
    BY <1>1, <1>7, BookFrame, ZenonT(40) DEF IInv
  <1> QED  BY <1>10, <1>11, <1>12, <1>13, <1>14, <1>15, <1>16, Zenon DEF IInv

LEMMA SendStep ==
  ASSUME IInv, Send
  PROVE  IInv'
  <1>1. /\ sent' = sent \cup segment.txs /\ segment' = NoSegment
        /\ UNCHANGED <<todo, mappedq, statusq, available, processed, count, lastSet>> /\ UNCHANGED book
    BY Zenon DEF Send, book, blocks, mapping, window, receiver, commit
  <1>2. segment' .txs = {} /\ TypeOK  BY <1>1, SegFacts, Zenon DEF IInv
  <1>3. Up' = Up /\ Answered' = Answered /\ Writing' = Writing /\ Behind' = SegTxs(mappedq) \cup SegTxs(todo)
    <2>1. Writing' = Writing  BY <1>1, Zenon DEF Writing
    <2> QED  BY <2>1, <1>1, <1>2, ZenonT(40) DEF Behind, Up, Answered
  <1>4. InFlight' = InFlight  BY <1>1, <1>2, <1>3, ZenonT(40) DEF InFlight
  <1>5. TypeOK'  BY <1>1, SegFacts, Zenon DEF IInv, TypeOK, book, Seg
  <1>6. LineInv'  BY <1>1, <1>2, Zenon DEF IInv, LineInv, book
  <1>7. WindowInv'  BY <1>1, Zenon DEF IInv, WindowInv, book
  <1>8. OnceInv'
    <2>1. sent' \cap Behind' = {}  BY <1>1, <1>3, Zenon DEF IInv, OnceInv, Behind
    <2> QED  BY <2>1, <1>1, <1>2, <1>3, ZenonT(40) DEF IInv, OnceInv
  <1>9. BarrierInv'  BY <1>1, <1>4, Zenon DEF IInv, BarrierInv
  <1>10. SlotsInv'  BY <1>1, <1>4, Zenon DEF IInv, SlotsInv
  <1>11. UpInv' /\ StoredInv' /\ AnswerInv' /\ FinalInv' /\ DedupInv' /\ KnownInv' /\ CountInv'
    BY <1>1, <1>3, BookFrame, Zenon DEF IInv
  <1> QED  BY <1>5, <1>6, <1>7, <1>8, <1>9, <1>10, <1>11, Zenon DEF IInv

LEMMA DropStep ==
  ASSUME IInv, DropCommittedBlock
  PROVE  IInv'
  <1>1. /\ count > 0 /\ pendingCount[nextBlockNum] = 0 /\ nextBlockNum' = nextBlockNum + 1 /\ count' = count - 1
        /\ UNCHANGED flow /\ UNCHANGED <<spc, incoming, dedup, txStatus, pendingCount, stored, available, processed, lastSet>>
    BY Zenon DEF DropCommittedBlock, NextIsCommitted, flow, blocks, mapping, sender, receiver, committer
  <1>2. nextBlockNum \in Num  BY <1>1, NumFacts DEF IInv, WindowInv, TypeOK
  <1>3. Left(txStatus, nextBlockNum) = {}
    <2>2. Left(txStatus, nextBlockNum) \subseteq DOMAIN Blocks[nextBlockNum]  BY Zenon DEF Left
    <2>3. IsFiniteSet(Left(txStatus, nextBlockNum))  BY <1>2, <2>2, FinitePositions, ZenonT(40)
    <2>4. Cardinality(Left(txStatus, nextBlockNum)) = 0  BY <1>1, <1>2, Zenon DEF IInv, CountInv
    <2> QED  BY <2>3, <2>4, FS_EmptySet, Zenon
  <1>4. ASSUME NEW r \in Ref, r[1] < nextBlockNum + 1 PROVE txStatus[r] # NotYet
    <2>1. r[1] < nextBlockNum \/ r[1] = nextBlockNum  BY <1>4, RefFacts, SMTT(30) DEF IInv, TypeOK
    <2>2. CASE r[1] < nextBlockNum  BY <2>2, Zenon DEF IInv, WindowInv
    <2>3. CASE r[1] = nextBlockNum
      <3>1. r = <<nextBlockNum, r[2]>> /\ r[2] \in DOMAIN Blocks[nextBlockNum]  BY <2>3, RefFacts, Zenon
      <3> QED  BY <3>1, <1>3, Zenon DEF Left
    <2> QED  BY <2>1, <2>2, <2>3, ZenonT(40)
  <1>5. TypeOK'  BY <1>1 DEF IInv, TypeOK, flow
  <1>6. LineInv'  BY <1>1, Zenon DEF IInv, LineInv, flow
  <1>7. WindowInv'
    <2>1. nextBlockNum' + count' <= incoming /\ lastSet < nextBlockNum'  BY <1>1 DEF IInv, WindowInv, TypeOK
    <2> QED  BY <2>1, <1>1, <1>4, ZenonT(40) DEF WindowInv
  <1>8. InFlight' = InFlight /\ Up' = Up /\ OnceInv' /\ BarrierInv'  BY <1>1, FlowFrame, Zenon DEF IInv
  <1>9. statusq' = statusq  BY <1>1, Zenon DEF flow
  <1>10. UpInv' /\ StoredInv' /\ AnswerInv' /\ FinalInv' /\ DedupInv' /\ CountInv' /\ SlotsInv'
    BY <1>1, <1>8, <1>9, ZenonT(40) DEF IInv, UpInv, StoredInv, AnswerInv, FinalInv, DedupInv, CountInv, SlotsInv
  <1>11. KnownInv'
    <2>1. ASSUME NEW p \in Ref, p[1] < incoming, HasId(p), stored[IdOf(p)] = NoRef
          PROVE  \E d \in dedup : d.num >= nextBlockNum + 1 /\ IdOf(p) \in d.ids
      <3>1. PICK d \in dedup : d.num >= nextBlockNum /\ IdOf(p) \in d.ids  BY <2>1, Zenon DEF IInv, KnownInv
      <3>2. PICK q \in Ref : q[1] = d.num /\ txStatus[q] = NotYet  BY <3>1, <2>1, Zenon DEF IInv, DedupInv
      <3>3. ~(q[1] < nextBlockNum + 1)  BY <3>2, <1>4, ZenonT(40)
      <3>4. d.num >= nextBlockNum + 1  BY <3>2, <3>3, RefFacts, SMTT(30) DEF IInv, TypeOK
      <3> QED  BY <3>1, <3>4, Zenon
    <2> QED  BY <2>1, <1>1, Zenon DEF KnownInv
  <1> QED  BY <1>5, <1>6, <1>7, <1>8, <1>10, <1>11, ZenonT(40) DEF IInv

\* A status that is taken from the queue takes its transaction out of flight.
LEMMA TakeStatus ==
  ASSUME IInv, NEW s \in statusq, statusq' = statusq \ {s}, UNCHANGED <<todo, mappedq, segment, sent>>
  PROVE  /\ Up' = Up /\ InFlight' = InFlight \ {s.tx} /\ s.tx \in InFlight /\ OnceInv' /\ BarrierInv'
         /\ IsFiniteSet(InFlight') /\ Cardinality(InFlight') = Cardinality(InFlight) - 1
  <1>1. Answered' = Answered \ {s.tx} /\ s.tx \in Answered
    <2>1. \A u \in statusq : u.tx = s.tx => u = s  BY Zenon DEF IInv, OnceInv
    <2> QED  BY <2>1, Zenon DEF Answered
  <1>2. Behind' = Behind /\ Up' = Up /\ Writing' = Writing
    <2>1. Writing' = Writing  BY Zenon DEF Writing
    <2> QED  BY <2>1, Zenon DEF Behind, Up
  <1>3. TypeOK  BY Zenon DEF IInv
  <1>4. s.tx \notin Up  BY <1>1, Zenon DEF IInv, OnceInv
  <1>5. InFlight' = Writing \cup SegTxs(mappedq) \cup segment.txs \cup sent \cup Answered'
    BY <1>2, Zenon DEF InFlight
  <1>6. InFlight' = InFlight \ {s.tx} /\ s.tx \in InFlight
    BY <1>1, <1>3, <1>4, <1>5, FlowTypes, ZenonT(40) DEF Up, Behind
  <1>7. OnceInv'
    <2>1. statusq' \subseteq statusq /\ Up' \cup Answered' \subseteq Up \cup Answered  BY <1>1, <1>2, Zenon
    <2>2. Answered' \cap Up' = {}  BY <1>1, <1>2, Zenon DEF IInv, OnceInv
    <2> QED  BY <2>1, <2>2, <1>2, ZenonT(40) DEF IInv, OnceInv
  <1>8. BarrierInv'  BY <1>6, Zenon DEF IInv, BarrierInv
  <1>9. IsFiniteSet(InFlight) /\ IsFiniteSet(InFlight') /\ Cardinality(InFlight') = Cardinality(InFlight) - 1
    BY <1>6, FS_RemoveElement, Zenon DEF IInv, SlotsInv
  <1> QED  BY <1>2, <1>6, <1>7, <1>8, <1>9, Zenon

LEMMA FeedbackStep ==
  ASSUME IInv, NEW s \in statusq, statusq' = statusq \ {s}, available' \in {available, available + 1},
         UNCHANGED <<processed, todo, mappedq, segment, sent, spc, count, lastSet>>, UNCHANGED book
  PROVE  IInv'
  <1>1. Up' = Up /\ OnceInv' /\ BarrierInv' /\ IsFiniteSet(InFlight') /\ Cardinality(InFlight') = Cardinality(InFlight) - 1
    BY TakeStatus, ZenonT(40)
  <1>2. TypeOK'  BY DEF IInv, TypeOK, book
  <1>3. LineInv'  BY Zenon DEF IInv, LineInv, book
  <1>4. WindowInv'  BY Zenon DEF IInv, WindowInv, book
  <1>5. SlotsInv'
    <2>1. Cardinality(InFlight) \in Nat  BY FS_CardinalityType, Zenon DEF IInv, SlotsInv
    <2>2. /\ available + processed + Cardinality(InFlight) <= WaitingTxsLimit
          /\ available \in Int /\ processed \in Nat /\ WaitingTxsLimit \in Nat
      BY RelayAssumption, Zenon DEF IInv, SlotsInv, TypeOK
    <2>3. available' + processed' + Cardinality(InFlight') <= WaitingTxsLimit  BY <1>1, <2>1, <2>2
    <2> QED  BY <1>1, <2>3, Zenon DEF SlotsInv
  <1>6. statusq' \subseteq statusq /\ Up' \subseteq Up  BY <1>1, Zenon
  <1>7. UpInv' /\ StoredInv' /\ AnswerInv' /\ FinalInv' /\ DedupInv' /\ KnownInv' /\ CountInv'
    BY <1>6, BookFrame, Zenon DEF IInv
  <1> QED  BY <1>1, <1>2, <1>3, <1>4, <1>5, <1>7, ZenonT(40) DEF IInv

LEMMA StatusStep ==
  ASSUME IInv, NEW s \in statusq, s.status \notin Feedback, txStatus[s.tx.ref] = NotYet,
         setFinalStatus(s.tx.ref, s.status), statusq' = statusq \ {s}, processed' = processed + 1,
         UNCHANGED <<available, todo, mappedq, segment, sent, spc, count, lastSet, incoming, dedup, nextBlockNum, stored>>
  PROVE  IInv'
  <1> DEFINE r == s.tx.ref
  <1>0. TypeOK  BY Zenon DEF IInv
  <1>1. s.tx \in Tx /\ s.status \in Status /\ r \in Ref /\ s.status # NotYet  BY <1>0, Zenon DEF TypeOK, Tx, Status, NotYet
  <1>2. r = <<r[1], r[2]>> /\ r[1] \in Num /\ r[2] \in DOMAIN Blocks[r[1]]  BY <1>1, RefFacts, Zenon
  <1>3. txStatus' = [txStatus EXCEPT ![r] = s.status] /\ pendingCount' = [pendingCount EXCEPT ![r[1]] = @ - 1]
    BY Zenon DEF setFinalStatus
  <1>4. \A q \in Ref : txStatus'[q] = IF q = r THEN s.status ELSE txStatus[q]  BY <1>0, <1>1, <1>3, ZenonT(40) DEF TypeOK
  <1>5. Up' = Up /\ OnceInv' /\ BarrierInv' /\ IsFiniteSet(InFlight') /\ Cardinality(InFlight') = Cardinality(InFlight) - 1
    BY TakeStatus, ZenonT(40)
  <1>6. TypeOK'
    <2>1. txStatus' \in [Ref -> Status \cup {NotYet}]  BY <1>0, <1>1, <1>3, ZenonT(40) DEF TypeOK
    <2>2. pendingCount' \in [Num -> Int]
      <3>1. pendingCount \in [Num -> Int] /\ pendingCount[r[1]] - 1 \in Int  BY <1>0, <1>2, SMTT(30) DEF TypeOK
      <3> QED  BY <3>1, <1>3, ZenonT(40)
    <2> QED  BY <2>1, <2>2 DEF IInv, TypeOK
  <1>7. LineInv'  BY Zenon DEF IInv, LineInv
  <1>8. WindowInv'  BY <1>1, <1>4, Zenon DEF IInv, WindowInv
  <1>9. SlotsInv'
    <2>1. Cardinality(InFlight) \in Nat  BY FS_CardinalityType, Zenon DEF IInv, SlotsInv
    <2>2. /\ available + processed + Cardinality(InFlight) <= WaitingTxsLimit
          /\ available \in Int /\ processed \in Nat /\ WaitingTxsLimit \in Nat
      BY RelayAssumption, ZenonT(40) DEF IInv, SlotsInv, TypeOK
    <2>3. available' + processed' + Cardinality(InFlight') <= WaitingTxsLimit  BY <1>5, <2>1, <2>2, SMTT(30)
    <2> QED  BY <1>5, <2>3, Zenon DEF SlotsInv
  <1>10. CountInv'
    <2>1. ASSUME NEW b \in Num PROVE pendingCount'[b] = Cardinality(Left(txStatus', b))
      <3>1. pendingCount[b] = Cardinality(Left(txStatus, b))  BY Zenon DEF IInv, CountInv
      <3>2. CASE b # r[1]
        <4>1. ASSUME NEW i \in DOMAIN Blocks[b] PROVE txStatus'[<<b, i>>] = txStatus[<<b, i>>]
          <5>1. <<b, i>> # r /\ <<b, i>> \in Ref  BY <3>2, <1>2, RefOf, SMTT(30)
          <5> QED  BY <5>1, <1>4, ZenonT(40)
        <4>2. Left(txStatus', b) = Left(txStatus, b)  BY <4>1, Zenon DEF Left
        <4>3. pendingCount'[b] = pendingCount[b]  BY <3>2, <1>0, <1>3, ZenonT(40) DEF TypeOK
        <4> QED  BY <3>1, <4>2, <4>3, ZenonT(40)
      <3>3. CASE b = r[1]
        <4>1. ASSUME NEW i \in DOMAIN Blocks[b]
              PROVE  txStatus'[<<b, i>>] = IF i = r[2] THEN s.status ELSE txStatus[<<b, i>>]
          <5>1. <<b, i>> \in Ref /\ (<<b, i>> = r <=> i = r[2])  BY <3>3, <1>2, RefOf, SMTT(30)
          <5> QED  BY <5>1, <1>4, ZenonT(40)
        <4>2. r[2] \in Left(txStatus, b)  BY <3>3, <1>2, Zenon DEF Left
        <4>3. Left(txStatus', b) = Left(txStatus, b) \ {r[2]}  BY <4>1, <1>1, Zenon DEF Left
        <4>4. IsFiniteSet(Left(txStatus, b))
          <5>2. Left(txStatus, b) \subseteq DOMAIN Blocks[b]  BY Zenon DEF Left
          <5> QED  BY <5>2, FinitePositions, Zenon
        <4>5. Cardinality(Left(txStatus', b)) = Cardinality(Left(txStatus, b)) - 1
          BY <4>2, <4>3, <4>4, CardMinus, ZenonT(40)
        <4>6. pendingCount'[b] = pendingCount[b] - 1  BY <3>3, <1>0, <1>3, ZenonT(40) DEF TypeOK
        <4> QED  BY <3>1, <4>5, <4>6, ZenonT(40)
      <3> QED  BY <3>2, <3>3, Zenon
    <2> QED  BY <2>1, Zenon DEF CountInv
  <1>11. UpInv' /\ StoredInv'  BY <1>5, Zenon DEF IInv, UpInv, StoredInv
  <1>12. AnswerInv'  BY Zenon DEF IInv, AnswerInv
  <1>13. Kept(stored, r, s.status) /\ stored[IdOf(r)] # NoRef  BY Zenon DEF IInv, AnswerInv
  <1>14. FinalInv'  BY <1>4, <1>13, Zenon DEF IInv, FinalInv
  <1>15. DedupInv'
    <2>1. ASSUME NEW d \in dedup, NEW id \in d.ids
          PROVE  \E q \in Ref : q[1] = d.num /\ HasId(q) /\ IdOf(q) = id /\ (txStatus'[q] = NotYet \/ stored[id] # NoRef)
      <3>1. PICK q \in Ref : q[1] = d.num /\ HasId(q) /\ IdOf(q) = id /\ (txStatus[q] = NotYet \/ stored[id] # NoRef)
        BY Zenon DEF IInv, DedupInv
      <3> QED  BY <3>1, <1>4, <1>13, Zenon
    <2> QED  BY <2>1, ZenonT(40) DEF IInv, DedupInv
  <1>16. KnownInv'  BY Zenon DEF IInv, KnownInv
  <1> QED  BY <1>5, <1>6, <1>7, <1>8, <1>9, <1>10, <1>11, <1>12, <1>14, <1>15, <1>16, ZenonT(40) DEF IInv

\* Two transactions with one id are ordered, and the later one repeats it.
LEMMA OneIsFirst ==
  ASSUME NEW p \in Ref, NEW r \in Ref, p # r, HasId(p), HasId(r), IdOf(p) = IdOf(r), ~Repeats(p)
  PROVE  Repeats(r)
  <1>1. Before(p, r) \/ Before(r, p)  BY RefFacts DEF Before
  <1> QED  BY <1>1, Zenon DEF Repeats, HasId, IdOf

\* The database keeps what it stored.
LEMMA KeptStays ==
  ASSUME NEW st, NEW st2, NEW r \in Ref, NEW x,
         \A id \in Id : st[id] # NoRef => st2[id] = st[id], Kept(st, r, x)
  PROVE  Kept(st2, r, x)
  <1>1. IdOf(r) \in Id /\ r # NoRef  BY RefFacts, Zenon
  <1> QED  BY <1>1, Zenon DEF Kept

LEMMA AnswerStep ==
  ASSUME IInv, NEW t, NEW o, Answer(t, o)
  PROVE  IInv'
  <1> DEFINE r == t.ref
             id == IdOf(r)
             s == [tx |-> t, status |-> o]
  <1>0. TypeOK  BY Zenon DEF IInv
  <1>1. /\ t \in sent /\ o \in Outcome(t) /\ sent' = sent \ {t} /\ statusq' = statusq \cup {s}
        /\ stored' = IF o \in Feedback \cup {"duplicate"} THEN stored ELSE [stored EXCEPT ![id] = r]
        /\ UNCHANGED <<todo, mappedq, segment, spc, available, processed, count, lastSet>>
        /\ UNCHANGED <<incoming, dedup, txStatus, pendingCount, nextBlockNum>>
    BY Zenon DEF Answer, mapping, blocks, sender, window, IdOf
  <1>2. t \in Tx /\ r \in Ref /\ id \in Id /\ t \in Up /\ r # NoRef  BY <1>0, <1>1, RefFacts, TxFacts, ZenonT(40) DEF TypeOK, Up
  <1>3. r[1] < incoming /\ Sendable(t, stored)  BY <1>2, Zenon DEF IInv, UpInv
  \* What the answer is.
  <1>4. \/ o \in Feedback /\ stored' = stored
        \/ o = "duplicate" /\ stored' = stored /\ stored[id] # NoRef /\ Repeats(r)
        \/ /\ o = Fate(t) /\ stored' = [stored EXCEPT ![id] = r] /\ stored[id] = NoRef /\ ~Repeats(r)
           /\ o \in Expected(r) /\ o \in Status
    <2>1. CASE stored[id] # NoRef
      <3>1. o = "duplicate"  BY <2>1, <1>1, Zenon DEF Outcome, IdOf
      <3>2. /\ stored[id] \in Ref /\ HasId(stored[id]) /\ IdOf(stored[id]) = id /\ ~Repeats(stored[id])
            /\ r # stored[id]
        BY <2>1, <1>0, <1>2, ZenonT(40) DEF IInv, StoredInv, TypeOK
      <3>3. Repeats(r)  BY <3>2, <1>2, <1>3, OneIsFirst, ZenonT(40) DEF Sendable
      <3> QED  BY <3>1, <3>3, <1>1, <2>1, ZenonT(40)
    <2>2. CASE stored[id] = NoRef
      <3>1. ~Repeats(r) /\ Fate(t) \in Expected(r)  BY <2>2, <1>3, Zenon DEF Sendable
      <3>2. o \in Feedback \/ o = Fate(t)
        <4>1. stored[TxOf(r).id] = NoRef  BY <2>2, Zenon DEF IdOf
        <4>2. CASE t.rejected  BY <4>1, <4>2, <1>1, ZenonT(40) DEF Outcome, Fate
        <4>3. CASE ~t.rejected /\ TxOf(r).kind = "checkpoint"
          <5>1. o \in Verdicts  BY <4>1, <4>3, <1>1, SMTT(30) DEF Outcome
          <5>2. Fate(t) = "committed"  BY <4>3, Zenon DEF Fate
          <5> QED  BY <5>1, <5>2, RelayAssumption, SMTT(30) DEF Feedback
        <4>4. CASE ~t.rejected /\ TxOf(r).kind # "checkpoint"  BY <4>1, <4>4, <1>1, ZenonT(40) DEF Outcome, Fate
        <4> QED  BY <4>2, <4>3, <4>4, ZenonT(40)
      <3>3. Fate(t) \in Status /\ Fate(t) \notin Feedback \cup {"duplicate"}  BY Zenon DEF Fate, Status, Feedback
      <3>4. o \in Feedback => o \in Feedback \cup {"duplicate"}  BY Zenon
      <3> QED  BY <3>1, <3>2, <3>3, <3>4, <1>1, <2>2, ZenonT(40)
    <2> QED  BY <2>1, <2>2, Zenon
  <1>5. s.tx = t /\ s.status = o  BY Zenon
  <1> HIDE DEF s
  <1>6. Answered' = Answered \cup {t} /\ Behind' = Behind /\ Writing' = Writing
    <2>1. Writing' = Writing  BY <1>1, Zenon DEF Writing
    <2> QED  BY <2>1, <1>1, <1>5, ZenonT(40) DEF Answered, Behind
  <1>7. t \notin Behind /\ t \notin Answered  BY <1>1, <1>2, ZenonT(40) DEF IInv, OnceInv
  <1>8. Up' = Up \ {t}  BY <1>1, <1>6, <1>7, ZenonT(40) DEF Up
  <1>9. InFlight' = InFlight
    <2>1. InFlight' = Writing \cup SegTxs(mappedq) \cup segment.txs \cup sent' \cup Answered'
      BY <1>1, <1>6, Zenon DEF InFlight
    <2> QED  BY <2>1, <1>0, <1>1, <1>6, FlowTypes, ZenonT(40)
  <1>10. \A i \in Id : stored[i] # NoRef => stored'[i] = stored[i]  BY <1>0, <1>4, Zenon DEF TypeOK
  <1>11. TypeOK'
    <2>1. o \in Status \cup Feedback  BY <1>4, Zenon DEF Status
    <2>2. s \in [tx : Tx, status : Status \cup Feedback]  BY <2>1, <1>2, ZenonT(40) DEF s
    <2>3. stored' \in [Id -> Ref \cup {NoRef}]  BY <1>0, <1>2, <1>4, ZenonT(40) DEF TypeOK
    <2>4. statusq' \in SUBSET [tx : Tx, status : Status \cup Feedback] /\ sent' \in SUBSET Tx
      BY <2>2, <1>0, <1>1, ZenonT(40) DEF TypeOK
    <2> QED  BY <2>3, <2>4, <1>0, <1>1, ZenonT(40) DEF TypeOK
  <1>12. LineInv'  BY <1>1, Zenon DEF IInv, LineInv
  <1>13. WindowInv'  BY <1>1, Zenon DEF IInv, WindowInv
  <1>14. CountInv'  BY <1>1, Zenon DEF IInv, CountInv
  <1>15. OnceInv'
    <2>1. Up' \cup Answered' \subseteq Up \cup Answered  BY <1>2, <1>6, <1>8, ZenonT(40)
    <2>2. sent' \cap Behind' = {} /\ Answered' \cap Up' = {}  BY <1>1, <1>6, <1>8, ZenonT(40) DEF IInv, OnceInv
    <2>3. ASSUME NEW u \in statusq', NEW v \in statusq', u.tx = v.tx PROVE u = v
      <3>1. \A x \in statusq : x.tx # t  BY <1>7, Zenon DEF Answered
      <3> QED  BY <3>1, <2>3, <1>1, <1>5, ZenonT(40) DEF IInv, OnceInv
    <2> QED  BY <2>1, <2>2, <2>3, <1>1, ZenonT(40) DEF IInv, OnceInv
  <1>16. BarrierInv'  BY <1>1, <1>9, ZenonT(40) DEF IInv, BarrierInv
  <1>17. SlotsInv'  BY <1>1, <1>9, Zenon DEF IInv, SlotsInv
  <1>18. UpInv'
    <2>1. ASSUME NEW u \in Up' PROVE u.ref[1] < incoming /\ Sendable(u, stored')
      <3>1. u \in Up /\ u \in Tx  BY <1>8, <1>0, FlowTypes, ZenonT(40)
      <3>2. u.ref[1] < incoming /\ Sendable(u, stored)  BY <3>1, Zenon DEF IInv, UpInv
      <3>3. IdOf(u.ref) \in Id  BY <3>1, TxFacts, RefFacts, ZenonT(40)
      <3> QED  BY <3>2, <3>3, <1>10, ZenonT(40) DEF Sendable
    <2> QED  BY <2>1, <1>1, ZenonT(40) DEF UpInv
  <1>19. StoredInv'
    <2>1. ASSUME NEW i \in Id, stored'[i] # NoRef
          PROVE  /\ HasId(stored'[i]) /\ IdOf(stored'[i]) = i /\ ~Repeats(stored'[i]) /\ stored'[i][1] < incoming
                 /\ \A u \in Up' : u.ref # stored'[i]
      <3>1. CASE stored[i] # NoRef
        <4>1. stored'[i] = stored[i]  BY <3>1, <1>10, ZenonT(40)
        <4> QED  BY <4>1, <3>1, <1>8, ZenonT(40) DEF IInv, StoredInv
      <3>2. CASE stored[i] = NoRef
        <4>1. i = id /\ stored'[i] = r /\ ~Repeats(r)  BY <3>2, <2>1, <1>0, <1>4, ZenonT(40) DEF TypeOK
        <4>2. HasId(r)  BY <1>3, Zenon DEF Sendable
        <4>3. \A u \in Up' : u.ref # r  BY <1>2, <1>8, ZenonT(40) DEF IInv, OnceInv
        <4> QED  BY <4>1, <4>2, <4>3, <1>3, ZenonT(40)
      <3> QED  BY <3>1, <3>2, ZenonT(40)
    <2> QED  BY <2>1, <1>1, ZenonT(40) DEF StoredInv
  <1>20. AnswerInv'
    <2>1. ASSUME NEW u \in statusq
          PROVE  /\ u.tx.ref[1] < incoming
                 /\ u.status \notin Feedback => Kept(stored', u.tx.ref, u.status) /\ stored'[IdOf(u.tx.ref)] # NoRef
      <3>1. u.tx \in Tx  BY <1>0, Zenon DEF TypeOK
      <3>2. u.tx.ref \in Ref /\ IdOf(u.tx.ref) \in Id  BY <3>1, TxFacts, RefFacts, ZenonT(40)
      <3>3. u.tx.ref[1] < incoming  BY Zenon DEF IInv, AnswerInv
      <3>4. ASSUME u.status \notin Feedback
            PROVE  Kept(stored', u.tx.ref, u.status) /\ stored'[IdOf(u.tx.ref)] # NoRef
        <4>1. Kept(stored, u.tx.ref, u.status) /\ stored[IdOf(u.tx.ref)] # NoRef  BY <3>4, Zenon DEF IInv, AnswerInv
        <4> QED  BY <4>1, <3>2, <1>10, KeptStays, ZenonT(40)
      <3> QED  BY <3>3, <3>4, Zenon
    <2>2. o \notin Feedback => Kept(stored', r, o) /\ stored'[id] # NoRef
      <3>1. CASE o = "duplicate" /\ stored' = stored /\ stored[id] # NoRef /\ Repeats(r)
        <4>1. HasId(r)  BY <1>3, Zenon DEF Sendable
        <4>2. Expected(r) = {"duplicate"}  BY <4>1, <3>1, ZenonT(40) DEF Expected, HasId
        <4> QED  BY <4>2, <3>1, Zenon DEF Kept, Unstored
      <3>2. CASE stored' = [stored EXCEPT ![id] = r] /\ o \in Expected(r)
        <4>1. stored'[id] = r  BY <3>2, <1>0, <1>2, ZenonT(40) DEF TypeOK
        <4> QED  BY <4>1, <3>2, <1>2, ZenonT(40) DEF Kept
      <3> QED  BY <3>1, <3>2, <1>4, ZenonT(40)
    <2> QED  BY <2>1, <2>2, <1>1, <1>3, <1>5, ZenonT(40) DEF AnswerInv
  <1>21. FinalInv'
    <2>1. ASSUME NEW q \in Ref, txStatus[q] # NotYet PROVE Kept(stored', q, txStatus[q])
      <3>1. Kept(stored, q, txStatus[q])  BY <2>1, Zenon DEF IInv, FinalInv
      <3> QED  BY <3>1, <1>10, KeptStays, ZenonT(40)
    <2> QED  BY <2>1, <1>1, Zenon DEF FinalInv
  <1>22. DedupInv'
    <2>1. ASSUME NEW d \in dedup, NEW i \in d.ids
          PROVE  \E q \in Ref : q[1] = d.num /\ HasId(q) /\ IdOf(q) = i /\ (txStatus[q] = NotYet \/ stored'[i] # NoRef)
      <3>1. PICK q \in Ref : q[1] = d.num /\ HasId(q) /\ IdOf(q) = i /\ (txStatus[q] = NotYet \/ stored[i] # NoRef)
        BY Zenon DEF IInv, DedupInv
      <3>2. i \in Id  BY <3>1, RefFacts, ZenonT(40)
      <3> QED  BY <3>1, <3>2, <1>10, Zenon
    <2> QED  BY <2>1, <1>1, ZenonT(40) DEF IInv, DedupInv
  <1>23. KnownInv'
    <2>1. \A p \in Ref : stored[IdOf(p)] # NoRef => stored'[IdOf(p)] # NoRef  BY <1>10, RefFacts, ZenonT(40)
    <2> QED  BY <2>1, <1>1, ZenonT(40) DEF IInv, KnownInv
  <1> QED  BY <1>11, <1>12, <1>13, <1>14, <1>15, <1>16, <1>17, <1>18, <1>19, <1>20, <1>21, <1>22, <1>23, ZenonT(40) DEF IInv

\* Every id of a block is known, or that of an accepted transaction.
LEMMA IdsAreKept ==
  ASSUME NEW b \in Num, NEW known, NEW i \in DOMAIN Blocks[b], Blocks[b][i].kind # "bad",
         Blocks[b][i].id \notin known
  PROVE  \E j \in Accepted(b, known) : Blocks[b][j].id = Blocks[b][i].id
  <1> DEFINE T == {j \in DOMAIN Blocks[b] : Blocks[b][j].kind # "bad" /\ Blocks[b][j].id = Blocks[b][i].id}
  <1>1. T \in SUBSET Nat /\ T # {}  BY NumFacts
  <1>2. PICK j \in T : \A k \in T : j <= k  BY <1>1, Least, ZenonT(40)
  <1>3. j \in DOMAIN Blocks[b] /\ Blocks[b][j].kind # "bad" /\ Blocks[b][j].id = Blocks[b][i].id  BY Zenon
  <1>4. ASSUME NEW k \in 1..j - 1, Blocks[b][k].kind # "bad", Blocks[b][k].id = Blocks[b][j].id PROVE FALSE
    <2>1. k \in DOMAIN Blocks[b] /\ ~(j <= k)  BY <1>3, NumFacts
    <2> QED  BY <2>1, <1>2, <1>3, <1>4, ZenonT(40)
  <1>5. ~isDuplicate(b, known, j)  BY <1>3, <1>4, ZenonT(40) DEF isDuplicate
  <1> QED  BY <1>3, <1>5, ZenonT(40) DEF Accepted

LEMMA MapStep ==
  ASSUME IInv, todo = <<>>, incoming \in Num, NEW kept, NEW known,
         kept = evictCommittedBelow(nextBlockNum), known = UNION {d.ids : d \in kept},
         mapBlock(incoming, kept, known),
         UNCHANGED <<available, processed, mappedq, segment, spc, nextBlockNum, count, statusq, lastSet, sent, stored>>
  PROVE  IInv'
  <1> DEFINE b == incoming
             A == Accepted(b, known)
             n == [num |-> b, ids |-> {Blocks[b][i].id : i \in A}]
  <1>0. TypeOK /\ b \in Nat  BY NumFacts DEF IInv
  <1>1. /\ dedup' = kept \cup {n} /\ incoming' = b + 1 /\ todo' = submitMappedBlock(b, known)
        /\ txStatus' = [r \in Ref |-> IF r[1] = b THEN mappedStatus(b, known, r[2]) ELSE txStatus[r]]
        /\ pendingCount' = [pendingCount EXCEPT ![b] = Cardinality(A)]
    BY Zenon DEF mapBlock
  <1>2. n.num = b /\ n.ids = {Blocks[b][i].id : i \in A}  BY Zenon
  <1> HIDE DEF n
  <1>3. A \subseteq DOMAIN Blocks[b] /\ \A i \in A : <<b, i>> \in Ref /\ HasId(<<b, i>>) /\ IdOf(<<b, i>>) = Blocks[b][i].id
    <2>1. A \subseteq DOMAIN Blocks[b] /\ \A i \in A : Blocks[b][i].kind # "bad"  BY AcceptedFacts, Zenon
    <2> QED  BY <2>1, RefOf, ZenonT(40) DEF HasId, IdOf, TxOf
  <1>4. kept \subseteq dedup /\ \A d \in dedup : d.num >= nextBlockNum => d \in kept  BY Zenon DEF evictCommittedBelow
  <1>5. Earlier(b, known)
    <2>1. ASSUME NEW i \in known PROVE \E q \in Ref : q[1] < b /\ HasId(q) /\ IdOf(q) = i
      <3>1. PICK d \in dedup : i \in d.ids  BY <1>4, Zenon
      <3> QED  BY <3>1, Zenon DEF IInv, DedupInv
    <2> QED  BY <2>1, Zenon DEF Earlier
  <1>6. ASSUME NEW p \in Ref, p[1] < b, HasId(p), IdOf(p) \notin known PROVE stored[IdOf(p)] # NoRef
    BY <1>6, <1>4, ZenonT(40) DEF IInv, KnownInv
  \* What is submitted.
  <1>7. ASSUME NEW t \in Txs(b, known, A)
        PROVE  t \in Tx /\ t.ref[1] = b /\ Sendable(t, stored)
    <2>1. t \in Tx  BY <1>3, TxsType, ZenonT(40)
    <2>0. PICK c, S : c = b /\ S = A  BY Zenon
    <2>2. PICK i \in A : t.ref = <<b, i>> /\ (t.rejected <=> i \in Rejected(b, known))
      <3>1. t \in Txs(c, known, S)  BY <2>0, Zenon
      <3>2. PICK i \in S : t = [ref |-> <<c, i>>, rejected |-> i \in Rejected(c, known)]  BY <3>1, Zenon DEF Txs
      <3>3. t.ref = <<c, i>> /\ (t.rejected <=> i \in Rejected(c, known))  BY <3>2, ZenonT(40)
      <3> QED  BY <2>0, <3>3, ZenonT(40)
    <2>3. HasId(t.ref) /\ t.ref \in Ref /\ t.ref[1] = b /\ t.ref[2] = i  BY <2>2, <1>3
    <2>4. ASSUME Repeats(t.ref) PROVE stored[IdOf(t.ref)] # NoRef
      <3>1. PICK q \in Ref : Before(q, t.ref) /\ HasId(q) /\ IdOf(q) = IdOf(t.ref)  BY <2>4, Zenon DEF Repeats, HasId, IdOf
      <3>2. ~isDuplicate(b, known, i)  BY AcceptedFacts, Zenon
      <3>3. IdOf(t.ref) \notin known  BY <2>2, <1>3, <3>2, ZenonT(40) DEF isDuplicate
      <3>4. CASE q[1] < b  BY <3>1, <3>3, <3>4, <1>6, ZenonT(40)
      <3>5. CASE ~(q[1] < b)
        <4>1. q[1] = b /\ q[2] < i  BY <3>1, <3>5, <2>3, ZenonT(40) DEF Before
        <4>2. RepeatsInBlock(<<b, i>>)  BY <4>1, <3>1, <2>2, <2>3, ZenonT(40) DEF RepeatsInBlock, HasId, IdOf
        <4> QED  BY <4>2, <3>2, <1>3, RepeatsAreDuplicates, ZenonT(40)
      <3> QED  BY <3>4, <3>5, ZenonT(40)
    <2>5. ASSUME ~Repeats(t.ref) PROVE Fate(t) \in Expected(t.ref)
      BY <2>1, <2>2, <2>5, <1>5, FirstFate, ZenonT(40)
    <2> QED  BY <2>1, <2>3, <2>4, <2>5, ZenonT(40) DEF Sendable
  <1>8. /\ WellBuilt(todo')
        /\ \A k \in DOMAIN todo' : todo'[k].num \in {0, b} /\ todo'[k].txs \subseteq Txs(b, known, A)
    BY <1>1, MappedLine, ZenonT(40)
  <1>9. todo' \in Seq(Seg) /\ Pairwise(todo') /\ Fenced(todo') /\ todo' # <<>>  BY <1>8, Zenon DEF WellBuilt
  <1>10. SegTxs(todo') \subseteq Txs(b, known, A) /\ SegTxs(todo) = {}
    <2>1. SegTxs(todo) = {}  BY DEF SegTxs
    <2>2. ASSUME NEW t \in SegTxs(todo') PROVE t \in Txs(b, known, A)
      <3>1. PICK k \in DOMAIN todo' : t \in todo'[k].txs  BY Zenon DEF SegTxs
      <3> QED  BY <3>1, <1>8, Zenon
    <2> QED  BY <2>1, <2>2, ZenonT(40)
  <1>11. Writing = {} /\ Writing' = {}
    <2>1. Head(todo').op # "write"
      <3>1. Head(todo') = todo'[1]  BY <1>9, HeadFacts, ZenonT(40)
      <3> QED  BY <3>1, <1>8, ZenonT(40) DEF WellBuilt
    <2> QED  BY <2>1, Zenon DEF Writing
  <1>13. Behind' = Behind \cup SegTxs(todo') /\ Up' = Up \cup SegTxs(todo') /\ Answered' = Answered
    BY <1>10, Zenon DEF Behind, Up, Answered
  <1>12. InFlight' = InFlight  BY <1>11, <1>13, ZenonT(40) DEF InFlight
  <1>14. \A t \in Up \cup Answered : t.ref[1] < b
    <2>1. \A t \in Up : t.ref[1] < b  BY Zenon DEF IInv, UpInv
    <2>2. \A t \in Answered : t.ref[1] < b  BY Zenon DEF IInv, AnswerInv, Answered
    <2> QED  BY <2>1, <2>2, ZenonT(40)
  <1>15. \A t \in SegTxs(todo') : t \notin Up \cup Answered
    <2>1. \A t \in SegTxs(todo') : t.ref[1] = b  BY <1>7, <1>10, ZenonT(40)
    <2>2. ~(b < b)  BY <1>0
    <2> QED  BY <2>1, <2>2, <1>14, ZenonT(40)
  <1>16. \A r \in Ref : r[1] # b => txStatus'[r] = txStatus[r]  BY <1>1, Zenon
  <1>17. \A r \in Ref : r[1] = b => txStatus'[r] = mappedStatus(b, known, r[2])  BY <1>1, Zenon
  <1>18. TypeOK'
    <2>1. txStatus' \in [Ref -> Status \cup {NotYet}]
      <3>1. \A i : mappedStatus(b, known, i) \in Status \cup {NotYet}  BY Zenon DEF mappedStatus, Status
      <3>2. \A r \in Ref : txStatus'[r] \in Status \cup {NotYet}
        <4>1. ASSUME NEW r \in Ref PROVE txStatus'[r] \in Status \cup {NotYet}
          <5>1. txStatus[r] \in Status \cup {NotYet}  BY <1>0, Zenon DEF TypeOK
          <5>2. CASE r[1] = b
            <6>1. txStatus'[r] = mappedStatus(b, known, r[2])  BY <5>2, <1>17, ZenonT(40)
            <6> QED  BY <6>1, <3>1, ZenonT(40)
          <5>3. CASE r[1] # b  BY <5>1, <5>3, <1>16, ZenonT(40)
          <5> QED  BY <5>2, <5>3, ZenonT(40)
        <4> QED  BY <4>1, Zenon
      <3> QED  BY <3>2, <1>1, ZenonT(40)
    <2>2. Cardinality(A) \in Nat
      <3>2. IsFiniteSet(A)  BY <1>3, FinitePositions, ZenonT(40)
      <3> QED  BY <3>2, FS_CardinalityType, ZenonT(40)
    <2>3. pendingCount' \in [Num -> Int]  BY <2>2, <1>0, <1>1, SMTT(30) DEF TypeOK
    <2>4. n \in [num : Nat, ids : SUBSET Id]
      <3>1. {Blocks[b][i].id : i \in A} \subseteq Id
        <4>1. ASSUME NEW i \in A PROVE Blocks[b][i].id \in Id
          <5>1. <<b, i>> \in Ref /\ IdOf(<<b, i>>) = Blocks[b][i].id  BY <1>3, Zenon
          <5>2. IdOf(<<b, i>>) \in Id  BY <5>1, RefFacts, ZenonT(40)
          <5> QED  BY <5>1, <5>2, ZenonT(40)
        <4> QED  BY <4>1, Zenon
      <3> QED  BY <3>1, <1>0, ZenonT(40) DEF n
    <2>5. dedup' \in SUBSET [num : Nat, ids : SUBSET Id]  BY <2>4, <1>0, <1>1, <1>4, ZenonT(40) DEF TypeOK
    <2>6. incoming' \in 1..Len(Blocks) + 1  BY <1>0, <1>1, NumFacts, SMTT(30)
    <2> QED  BY <2>1, <2>3, <2>5, <2>6, <1>0, <1>9, ZenonT(40) DEF TypeOK
  <1>19. LineInv'
    <2>1. \A k \in DOMAIN todo' : todo'[k].num < incoming'  BY <1>0, <1>1, <1>8, SMTT(30)
    <2>2. \A i \in DOMAIN mappedq : mappedq[i].num < incoming'
      <3>1. ASSUME NEW i \in DOMAIN mappedq PROVE mappedq[i].num < b + 1
        <4>1. mappedq[i].num < b  BY Zenon DEF IInv, LineInv
        <4>2. mappedq[i].num \in Nat  BY <1>0, SegAt, ZenonT(40) DEF TypeOK
        <4> QED  BY <4>1, <4>2, <1>0, SMTT(30)
      <3> QED  BY <3>1, <1>1, ZenonT(40)
    <2> QED  BY <2>1, <2>2, ZenonT(40) DEF IInv, LineInv
  <1>20. WindowInv'
    <2>0. nextBlockNum + count <= incoming /\ nextBlockNum \in Nat /\ count \in Nat  BY ZenonT(40) DEF IInv, WindowInv, TypeOK
    <2>1. nextBlockNum + count <= incoming' /\ nextBlockNum <= b  BY <2>0, <1>0, <1>1, SMTT(30)
    <2>2. \A r \in Ref : r[1] < nextBlockNum => r[1] # b
      <3>1. \A k \in Nat : k < nextBlockNum => k # b  BY <2>0, <2>1, <1>0, SMTT(30)
      <3> QED  BY <3>1, RefFacts, ZenonT(40)
    <2> QED  BY <2>1, <2>2, <1>16, ZenonT(40) DEF IInv, WindowInv
  <1>21. CountInv'
    <2>1. ASSUME NEW c \in Num PROVE pendingCount'[c] = Cardinality(Left(txStatus', c))
      <3>1. CASE c # b
        <4>1. ASSUME NEW i \in DOMAIN Blocks[c] PROVE txStatus'[<<c, i>>] = txStatus[<<c, i>>]
          <5>1. <<c, i>> \in Ref /\ <<c, i>>[1] # b  BY <3>1, RefOf, ZenonT(40)
          <5> QED  BY <5>1, <1>16, ZenonT(40)
        <4>2. Left(txStatus', c) = Left(txStatus, c)  BY <4>1, Zenon DEF Left
        <4>3. pendingCount'[c] = pendingCount[c]  BY <3>1, <1>0, <1>1, ZenonT(40) DEF TypeOK
        <4> QED  BY <4>2, <4>3, ZenonT(40) DEF IInv, CountInv
      <3>2. CASE c = b
        <4>1. ASSUME NEW i \in DOMAIN Blocks[b] PROVE txStatus'[<<b, i>>] = mappedStatus(b, known, i)
          <5>1. <<b, i>> \in Ref /\ <<b, i>>[1] = b /\ <<b, i>>[2] = i  BY RefOf, Zenon
          <5> QED  BY <5>1, <1>17, ZenonT(40)
        <4>2. ASSUME NEW i \in DOMAIN Blocks[b] PROVE mappedStatus(b, known, i) = NotYet <=> i \in A
          BY Zenon DEF mappedStatus, Accepted, NotYet
        <4>3. Left(txStatus', b) = A  BY <4>1, <4>2, <1>3, ZenonT(40) DEF Left
        <4>4. pendingCount'[b] = Cardinality(A)  BY <1>0, <1>1, ZenonT(40) DEF TypeOK
        <4> QED  BY <4>3, <4>4, <3>2, ZenonT(40)
      <3> QED  BY <3>1, <3>2, ZenonT(40)
    <2> QED  BY <2>1, Zenon DEF CountInv
  <1>22. OnceInv'
    <2>1. ASSUME NEW t \in Up' \cup Answered', NEW u \in Up' \cup Answered', t.ref = u.ref PROVE t = u
      <3>1. ~(b < b)  BY <1>0
      <3>2. CASE t \in SegTxs(todo') /\ u \in SegTxs(todo')
        BY <3>2, <2>1, <1>10, TxsOne, ZenonT(40)
      <3>3. CASE t \in Up \cup Answered /\ u \in Up \cup Answered
        BY <3>3, <2>1, ZenonT(40) DEF IInv, OnceInv
      <3>4. \A x \in SegTxs(todo') : x.ref[1] = b  BY <1>7, <1>10, ZenonT(40)
      <3> QED  BY <3>1, <3>2, <3>3, <3>4, <2>1, <1>13, <1>14, ZenonT(40)
    <2>2. /\ SegTxs(todo') \cap SegTxs(mappedq) = {} /\ segment.txs \cap (SegTxs(mappedq) \cup SegTxs(todo')) = {}
          /\ sent \cap Behind' = {} /\ Answered' \cap Up' = {}
      BY <1>10, <1>13, <1>15, ZenonT(40) DEF IInv, OnceInv, Up, Behind
    <2> QED  BY <2>1, <2>2, <1>9, ZenonT(40) DEF IInv, OnceInv
  <1>23. BarrierInv'
    <2>1. \A t \in InFlight : ~Barrier(t)  BY Zenon DEF IInv, BarrierInv
    <2>2. todo'[1].op = "queue" => \A t \in todo'[1].txs : ~Barrier(t)  BY <1>8, Zenon DEF WellBuilt
    <2> QED  BY <2>1, <2>2, <1>9, <1>12, ZenonT(40) DEF BarrierInv
  <1>24. SlotsInv'  BY <1>12, ZenonT(40) DEF IInv, SlotsInv
  <1>25. \A k \in Nat : k < b => k < incoming'  BY <1>0, <1>1
  <1>26. UpInv'
    <2>1. ASSUME NEW t \in Up' PROVE t.ref[1] < incoming' /\ Sendable(t, stored)
      <3>1. CASE t \in Up
        <4>1. t \in Tx  BY <3>1, <1>0, FlowTypes, ZenonT(40)
        <4>2. t.ref[1] \in Nat  BY <4>1, TxFacts, RefFacts, ZenonT(40)
        <4> QED  BY <4>2, <3>1, <1>25, ZenonT(40) DEF IInv, UpInv
      <3>2. CASE t \in SegTxs(todo')
        <4>1. t.ref[1] = b /\ Sendable(t, stored)  BY <3>2, <1>7, <1>10, ZenonT(40)
        <4> QED  BY <4>1, <1>0, <1>1, SMTT(30)
      <3> QED  BY <3>1, <3>2, <1>13, ZenonT(40)
    <2> QED  BY <2>1, Zenon DEF UpInv
  <1>27. StoredInv'
    <2>1. ASSUME NEW i \in Id, stored[i] # NoRef
          PROVE  stored[i][1] < incoming' /\ \A t \in Up' : t.ref # stored[i]
      <3>1. stored[i] \in Ref /\ stored[i][1] < b /\ \A t \in Up : t.ref # stored[i]
        BY <2>1, <1>0, ZenonT(40) DEF IInv, StoredInv, TypeOK
      <3>2. stored[i][1] \in Nat  BY <3>1, RefFacts, ZenonT(40)
      <3>3. \A t \in SegTxs(todo') : t.ref[1] = b  BY <1>7, <1>10, ZenonT(40)
      <3>4. ~(b < b)  BY <1>0
      <3> QED  BY <3>1, <3>2, <3>3, <3>4, <1>13, <1>25, ZenonT(40)
    <2> QED  BY <2>1, Zenon DEF IInv, StoredInv
  <1>28. AnswerInv'
    <2>1. ASSUME NEW s \in statusq PROVE s.tx.ref[1] < incoming'
      <3>1. s.tx \in Tx  BY <1>0, Zenon DEF TypeOK
      <3>2. s.tx.ref[1] \in Nat  BY <3>1, TxFacts, RefFacts, ZenonT(40)
      <3> QED  BY <3>2, <1>25, ZenonT(40) DEF IInv, AnswerInv
    <2> QED  BY <2>1, Zenon DEF IInv, AnswerInv
  <1>29. FinalInv'
    <2>1. ASSUME NEW r \in Ref, txStatus'[r] # NotYet PROVE Kept(stored, r, txStatus'[r])
      <3>1. CASE r[1] # b  BY <3>1, <2>1, <1>16, ZenonT(40) DEF IInv, FinalInv
      <3>2. CASE r[1] = b
        <4>1. r = <<b, r[2]>> /\ r[2] \in DOMAIN Blocks[b]  BY <3>2, RefFacts, ZenonT(40)
        <4>2. TxOf(r) = Blocks[b][r[2]]  BY <3>2, ZenonT(40) DEF TxOf
        <4>3. txStatus'[r] = mappedStatus(b, known, r[2])  BY <3>2, <1>17, Zenon
        <4>4. CASE TxOf(r).kind = "bad"
          BY <4>2, <4>3, <4>4, ZenonT(40) DEF mappedStatus, Kept, Expected, Unstored
        <4>5. CASE TxOf(r).kind # "bad"
          <5>1. isDuplicate(b, known, r[2]) /\ txStatus'[r] = "duplicate"  BY <4>2, <4>3, <4>5, <2>1, ZenonT(40) DEF mappedStatus
          <5>2. Repeats(r)  BY <5>1, <4>1, <1>5, DuplicatesRepeat, ZenonT(40)
          <5> QED  BY <5>1, <5>2, <4>5, ZenonT(40) DEF Kept, Expected, Unstored
        <4> QED  BY <4>4, <4>5, ZenonT(40)
      <3> QED  BY <3>1, <3>2, ZenonT(40)
    <2> QED  BY <2>1, Zenon DEF FinalInv
  <1>30. DedupInv'
    <2>1. ASSUME NEW d \in kept
          PROVE  d.num < incoming' /\ \A i \in d.ids :
            \E q \in Ref : q[1] = d.num /\ HasId(q) /\ IdOf(q) = i /\ (txStatus'[q] = NotYet \/ stored[i] # NoRef)
      <3>1. d \in dedup /\ d.num \in Nat  BY <1>0, <1>4, ZenonT(40) DEF TypeOK
      <3>2. d.num < b  BY <3>1, ZenonT(40) DEF IInv, DedupInv
      <3>3. d.num # b  BY <3>1, <3>2, <1>0, SMTT(30)
      <3> QED  BY <3>1, <3>2, <3>3, <1>16, <1>25, ZenonT(40) DEF IInv, DedupInv
    <2>2. n.num < incoming'  BY <1>0, <1>1, <1>2, SMTT(30)
    <2>3. ASSUME NEW i \in n.ids
          PROVE  \E q \in Ref : q[1] = n.num /\ HasId(q) /\ IdOf(q) = i /\ (txStatus'[q] = NotYet \/ stored[i] # NoRef)
      <3>1. PICK j \in A : i = Blocks[b][j].id  BY <1>2, Zenon
      <3>2. <<b, j>>[1] = b /\ <<b, j>>[2] = j  BY Zenon
      <3>3. Blocks[b][j].kind # "bad" /\ ~isDuplicate(b, known, j)  BY AcceptedFacts, Zenon
      <3>4. txStatus'[<<b, j>>] = NotYet  BY <3>2, <3>3, <1>3, <1>17, ZenonT(40) DEF mappedStatus
      <3> QED  BY <3>1, <3>2, <3>4, <1>2, <1>3, ZenonT(40)
    <2> QED  BY <2>1, <2>2, <2>3, <1>1, ZenonT(40) DEF DedupInv
  <1>31. KnownInv'
    <2>1. ASSUME NEW p \in Ref, p[1] < b + 1, HasId(p), stored[IdOf(p)] = NoRef
          PROVE  \E d \in dedup' : d.num >= nextBlockNum /\ IdOf(p) \in d.ids
      <3>1. n.num >= nextBlockNum  BY <1>0, <1>2 DEF IInv, WindowInv, TypeOK
      <3>2. CASE p[1] < b
        <4>1. PICK d \in dedup : d.num >= nextBlockNum /\ IdOf(p) \in d.ids  BY <3>2, <2>1, Zenon DEF IInv, KnownInv
        <4> QED  BY <4>1, <1>1, <1>4, Zenon
      <3>3. CASE ~(p[1] < b)
        <4>1. p[1] = b  BY <2>1, <3>3, <1>0, RefFacts, SMTT(30)
        <4>2. p[2] \in DOMAIN Blocks[b] /\ IdOf(p) = Blocks[b][p[2]].id /\ Blocks[b][p[2]].kind # "bad"
          BY <4>1, <2>1, RefFacts, ZenonT(40) DEF HasId, TxOf
        <4>3. CASE IdOf(p) \in known
          <5>1. PICK d \in kept : IdOf(p) \in d.ids  BY <4>3, Zenon
          <5>2. d.num >= nextBlockNum  BY Zenon DEF evictCommittedBelow
          <5> QED  BY <5>1, <5>2, <1>1, ZenonT(40)
        <4>4. CASE IdOf(p) \notin known
          <5>0. PICK i : i = p[2]  BY Zenon
          <5>1. PICK j \in A : Blocks[b][j].id = IdOf(p)
            <6>1. i \in DOMAIN Blocks[b] /\ Blocks[b][i].kind # "bad" /\ Blocks[b][i].id = IdOf(p) /\ Blocks[b][i].id \notin known
              BY <5>0, <4>2, <4>4, ZenonT(40)
            <6>2. \E j \in A : Blocks[b][j].id = Blocks[b][i].id  BY <6>1, IdsAreKept, ZenonT(40)
            <6> QED  BY <6>1, <6>2, ZenonT(40)
          <5>2. IdOf(p) \in n.ids  BY <5>1, <1>2, ZenonT(40)
          <5> QED  BY <5>2, <3>1, <1>1, ZenonT(40)
        <4> QED  BY <4>3, <4>4, ZenonT(40)
      <3> QED  BY <3>2, <3>3, ZenonT(40)
    <2> QED  BY <2>1, <1>1, ZenonT(40) DEF KnownInv
  <1> QED  BY <1>18, <1>19, <1>20, <1>21, <1>22, <1>23, <1>24, <1>26, <1>27, <1>28, <1>29, <1>30, <1>31, ZenonT(40) DEF IInv

-----------------------------------------------------------------------------
(* The theorems *)

LEMMA NextStep ==
  ASSUME IInv, [Next]_vars
  PROVE  IInv'
  <1> USE DEF flow, book
  <1>1. CASE UNCHANGED vars
    BY <1>1, IdleStep, Zenon DEF vars, mapping, window, blocks, sender, receiver, commit, committer
  <1>2. CASE MapBlock
    <2>1. CASE UNCHANGED <<mapping, blocks>>
      BY <1>2, <2>1, IdleStep, ZenonT(40) DEF MapBlock, mapping, window, blocks, sender, receiver, commit, committer
    <2>2. CASE mapBlock(incoming, evictCommittedBelow(nextBlockNum), UNION {d.ids : d \in evictCommittedBelow(nextBlockNum)})
      <3>1. /\ todo = <<>> /\ incoming \in Num
            /\ UNCHANGED <<available, processed, mappedq, segment, spc, nextBlockNum, count, statusq, lastSet, sent, stored>>
        BY <1>2, Zenon DEF MapBlock, window, sender, receiver, commit, committer
      <3> QED  BY <2>2, <3>1, MapStep, ZenonT(40)
    <2> QED  BY <1>2, <2>1, <2>2, ZenonT(40) DEF MapBlock
  <1>3. CASE WaitTillEmpty  BY <1>3, WaitStep, Zenon
  <1>4. CASE Acquire  BY <1>4, AcquireStep, ZenonT(40)
  <1>5. CASE QueueMappedBlock  BY <1>5, QueueStep, Zenon
  <1>6. CASE Register  BY <1>6, RegisterStep, Zenon
  <1>7. CASE Send  BY <1>7, SendStep, Zenon
  <1>8. ASSUME NEW s \in statusq, ProcessStatus(s) PROVE IInv'
    <2>1. /\ statusq' = statusq \ {s} /\ s.status \notin Feedback
          /\ UNCHANGED <<available, todo, mappedq, segment, sent, spc, count, lastSet, incoming, dedup, nextBlockNum, stored>>
      BY <1>8, Zenon DEF ProcessStatus, mapping, sender, window, commit, committer
    <2>2. CASE UNCHANGED <<blocks, processed>>  BY <2>1, <2>2, FeedbackStep, ZenonT(40) DEF blocks
    <2>3. CASE txStatus[s.tx.ref] = NotYet /\ setFinalStatus(s.tx.ref, s.status) /\ processed' = processed + 1
      BY <2>1, <2>3, StatusStep, ZenonT(40)
    <2> QED  BY <1>8, <2>2, <2>3, ZenonT(40) DEF ProcessStatus
  <1>9. ASSUME NEW s \in statusq, ProcessFeedback(s) PROVE IInv'
    BY <1>9, FeedbackStep, ZenonT(40) DEF ProcessFeedback, releaseCheckpointSlot, mapping, blocks, sender, window, commit, committer
  <1>10. CASE HoldEnds
    BY <1>10, IdleStep, ZenonT(40) DEF HoldEnds, mapping, window, blocks, sender, receiver, commit, committer
  <1>11. CASE Lock
    BY <1>11, IdleStep, ZenonT(40) DEF Lock, mapping, window, blocks, committer
  <1>12. CASE DropCommittedBlock  BY <1>12, DropStep, Zenon
  <1>13. CASE EmitBlock
    BY <1>13, IdleStep, ZenonT(40) DEF EmitBlock, mapping, window, blocks, sender, receiver, committer
  <1>14. CASE Unlock
    BY <1>14, IdleStep, ZenonT(40) DEF Unlock, mapping, window, blocks, committer
  <1>15. CASE setLastCommittedBlockNumber
    BY <1>15, IdleStep, ZenonT(40) DEF setLastCommittedBlockNumber, mapping, window, blocks, sender, receiver, commit, committer
  <1>16. ASSUME NEW t \in sent, NEW o \in Status \cup Feedback, Answer(t, o) PROVE IInv'  BY <1>16, AnswerStep, Zenon
  <1>17. CASE ForwardConfig
    BY <1>17, IdleStep, ZenonT(40) DEF ForwardConfig, window, blocks, sender, receiver, commit, committer
  <1>18. CASE ReleaseSlots
    BY <1>18, IdleStep, ZenonT(40) DEF ReleaseSlots, mapping, window, blocks, sender, commit, committer
  <1>19. Next \/ UNCHANGED vars  BY Zenon
  <1> HIDE DEF flow, book
  <1> QED
    BY <1>1, <1>2, <1>3, <1>4, <1>5, <1>6, <1>7, <1>8, <1>9, <1>10, <1>11, <1>12, <1>13, <1>14, <1>15, <1>16, <1>17,
       <1>18, <1>19, ZenonT(40)
    DEF Next, PreProcess, Committing, Answers, Statuses

\* The inductive invariant of a session: where transactions are, what is known about
\* their ids, and what the slots and the window count.
THEOREM Invariance == Spec => []IInv
  <1>1. Init => IInv  BY InitStep, Zenon
  <1>2. IInv /\ [Next]_vars => IInv'  BY NextStep, Zenon
  <1> QED  BY <1>1, <1>2, PTL DEF Spec

\* mapBlock, the dedup set and processStatusBatch: the status of a transaction is among
\* those the order of the blocks allows, whenever ids are evicted and statuses arrive. It
\* is the only one, but for a snapshot behind a duplicate from an earlier block.
THEOREM StatusesFollowOrder == Spec => []StatusFromOrder
  <1>1. IInv => StatusFromOrder  BY ZenonT(40) DEF IInv, FinalInv, Kept, StatusFromOrder
  <1> QED  BY <1>1, Invariance, PTL

\* submitConfigBlock and submitSnapshotBlock: a config or snapshot transaction is in flight alone.
THEOREM BarriersHold == Spec => []BarrierAlone
  <1>1. IInv => BarrierAlone  BY Zenon DEF IInv, BarrierInv, BarrierAlone
  <1> QED  BY <1>1, Invariance, PTL

\* setLastCommittedBlockNumber: the statuses of every block up to the saved number can be
\* read back from the database, or are among those that need no row.
THEOREM SavedNumberIsRecoverable == Spec => []LastSetIsRecoverable
  <1>1. ASSUME IInv PROVE LastSetIsRecoverable
    <2>1. ASSUME NEW r \in Ref, r[1] <= lastSet
          PROVE  txStatus[r] \in Unstored \/ (txStatus[r] # NotYet /\ stored[TxOf(r).id] = r)
      <3>1. r[1] < nextBlockNum  BY <1>1, <2>1, RefFacts, SMTT(30) DEF IInv, TypeOK, WindowInv
      <3>2. txStatus[r] # NotYet  BY <1>1, <3>1, Zenon DEF IInv, WindowInv
      <3> QED  BY <1>1, <3>2, ZenonT(40) DEF IInv, FinalInv, Kept, IdOf
    <2> QED  BY <2>1, Zenon DEF LastSetIsRecoverable
  <1> QED  BY <1>1, Invariance, PTL

=============================================================================
