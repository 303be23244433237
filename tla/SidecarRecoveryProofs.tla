------------------------ MODULE SidecarRecoveryProofs ------------------------
(***************************************************************************)
(* Proofs about the sessions of the sidecar and its block store, for every  *)
(* chain of blocks, every queue and any number of crashes.                  *)
(*                                                                         *)
(* The argument is that the outcome of a transaction is a function of the   *)
(* chain alone: the first transaction that records an id gets it, and every *)
(* later one is a duplicate.  The database, the relay and recovery all      *)
(* agree with that function.                                                *)
(***************************************************************************)
EXTENDS SidecarRecovery, WellFoundedInduction, TLAPS

-----------------------------------------------------------------------------
(* The outcome of a transaction, by the chain c *)

Blocks(c) == 0..Len(c) - 1
Places(c, n) == DOMAIN c[n + 1]
IdAt(c, n, i) == c[n + 1][i].id
Records(c, n, i) == c[n + 1][i].kind # "malformed"

\* Transaction i of block n is the first of the chain that records its id.
First(c, n, i) ==
  /\ Records(c, n, i)
  /\ \A m \in 0..n : \A j \in Places(c, m) :
       Records(c, m, j) /\ IdAt(c, m, j) = IdAt(c, n, i) => m = n /\ i <= j

Outcome(c, n, i) ==
  IF ~Records(c, n, i) THEN "malformed"
  ELSE IF ~First(c, n, i) THEN "duplicate"
  ELSE IF c[n + 1][i].kind = "rejected" THEN "rejected"
  ELSE "committed"

Status == {"malformed", "duplicate", "rejected", "committed", NotValidated}
Block == [num : Int, status : Seq(Status)]

\* A block with the true statuses, where recovery can reproduce them.
TrueBlock(c, b) ==
  /\ b.num \in Blocks(c) /\ DOMAIN b.status = Places(c, b.num)
  /\ \A i \in Places(c, b.num) :
       c[b.num + 1][i].kind \in {"plain", "malformed"} => b.status[i] = Outcome(c, b.num, i)

\* All ids recorded by the first k blocks are in D.
Stored(c, D, k) == \A n \in Blocks(c) : n < k => \A i \in Places(c, n) : Records(c, n, i) => IdAt(c, n, i) \in D

-----------------------------------------------------------------------------
(* The inductive invariant *)

TypeOK ==
  /\ chain \in Chains
  /\ pc \in {"wait", "height", "fetch", "start", "relay", "drain"}
  /\ lastSet \in Int /\ lastSet >= NoBlock /\ lastSet < Len(chain)
  /\ next \in 0..Len(chain) /\ recovered \in Nat
  /\ commitNum \in 0..Len(chain) /\ fetched \in 0..Len(chain)
  /\ held \in Block /\ queue \in Seq(Block) /\ appending \in Block /\ ledger \in Seq(Block)
  /\ storeNext \in Nat /\ synced \in 0..Len(ledger) /\ stopped = FALSE
  /\ stream \in [next : Nat, stop : Int]

\* A stored transaction is the first that records its id.
Exact(c, rows) == \A id \in DOMAIN rows : \E n \in Blocks(c) : \E i \in Places(c, n) :
  /\ First(c, n, i) /\ IdAt(c, n, i) = id
  /\ rows[id] = [ref |-> <<n, i>>, status |-> Outcome(c, n, i)]

DbInv == Exact(chain, db)

\* A transaction is sent only when no other can take its id before it.
SentInv == \A ref \in sent \cup stray : \E n \in Blocks(chain) : \E i \in Places(chain, n) :
  /\ ref = <<n, i>> /\ Records(chain, n, i)
  /\ IdAt(chain, n, i) \in DOMAIN db \/ First(chain, n, i)

\* The blocks that the database and the relay count have all their ids stored.
CountInv ==
  /\ Stored(chain, DOMAIN db, commitNum) /\ Stored(chain, DOMAIN db, next)
  /\ Stored(chain, DOMAIN db, lastSet + 1)

\* Block n is in flight with the statuses f, when D is stored and k is to be committed: a
\* final status is the true one, and an id is stored, or recorded by an earlier block in
\* flight, or waits for its own status.
Flying(c, D, k, n, f) ==
  /\ f \in Seq(Status) /\ DOMAIN f = Places(c, n)
  /\ \A i \in Places(c, n) : f[i] \in {NotValidated, Outcome(c, n, i)}
  /\ \A i \in Places(c, n) : Records(c, n, i) =>
       \/ IdAt(c, n, i) \in D
       \/ \E m \in k..n - 1 : \E j \in Places(c, m) : Records(c, m, j) /\ IdAt(c, m, j) = IdAt(c, n, i)
       \/ \E j \in Places(c, n) : IdAt(c, n, j) = IdAt(c, n, i) /\ f[j] = NotValidated

FlightInv ==
  /\ DOMAIN inFlight = IF pc = "relay" THEN commitNum..fetched - 1 ELSE {}
  /\ pc = "relay" => commitNum <= fetched
  /\ \A n \in DOMAIN inFlight : Flying(chain, DOMAIN db, commitNum, n, inFlight[n])

\* Every block on its way to the ledger or read from it is a true one.
BlocksInv ==
  /\ held # None => TrueBlock(chain, held)
  /\ \A k \in DOMAIN queue : TrueBlock(chain, queue[k])
  /\ appending # None => TrueBlock(chain, appending)
  /\ \A k \in DOMAIN ledger : ledger[k].num = k - 1 /\ TrueBlock(chain, ledger[k])
  /\ \A n \in DOMAIN seen : TrueBlock(chain, seen[n])
  /\ \A n \in DOMAIN emitted : n \in Blocks(chain) /\ \A i \in Places(chain, n) : emitted[n][i] = Outcome(chain, n, i)

\* The next block to enter the queue.
Incoming == IF pc = "fetch" THEN recovered ELSE IF held # None THEN held.num ELSE commitNum

\* The queue is a run of blocks that ends before the incoming one, and nothing is left in
\* it when a session starts.
OrderInv ==
  /\ storeNext = Len(ledger) + (IF appending = None THEN 0 ELSE 1)
  /\ appending # None => appending.num = Len(ledger)
  /\ \A k \in DOMAIN queue : queue[k].num = queue[1].num + k - 1
  /\ queue # <<>> => queue[1].num <= storeNext
  /\ held # None => pc = "relay" /\ commitNum = held.num + 1
  /\ pc \in {"wait", "height", "start"} => queue = <<>>
  /\ pc = "start" => next <= Len(ledger)
  /\ pc \in {"fetch", "relay"} =>
       IF queue = <<>> THEN Incoming <= storeNext ELSE Incoming = queue[1].num + Len(queue)
  /\ pc = "fetch" => recovered <= next

IInv == TypeOK /\ DbInv /\ SentInv /\ CountInv /\ FlightInv /\ BlocksInv /\ OrderInv

-----------------------------------------------------------------------------
(* Facts about the chain *)

LEMMA ChainType ==
  ASSUME NEW c \in Chains
  PROVE  /\ Len(c) \in Nat /\ Blocks(c) \subseteq Nat
         /\ \A n \in Blocks(c) : n + 1 \in DOMAIN c
         /\ \A n \in Blocks(c) : Len(c[n + 1]) \in Nat /\ Places(c, n) = 1..Len(c[n + 1]) /\ Places(c, n) \subseteq Nat
         /\ \A n \in Blocks(c) : \A i \in Places(c, n) : c[n + 1][i].kind \in Kinds
  <1>1. Len(c) \in Nat /\ DOMAIN c = 1..Len(c)  BY RecoveryAssumption, Zenon
  <1>2. ASSUME NEW n \in Blocks(c)
        PROVE  /\ n \in Nat /\ n + 1 \in DOMAIN c
               /\ Len(c[n + 1]) \in Nat /\ Places(c, n) = 1..Len(c[n + 1]) /\ Places(c, n) \subseteq Nat
               /\ \A i \in Places(c, n) : c[n + 1][i].kind \in Kinds
    <2>1. n \in Nat /\ n + 1 \in DOMAIN c  BY <1>1 DEF Blocks
    <2>2. /\ Len(c[n + 1]) \in Nat /\ DOMAIN c[n + 1] = 1..Len(c[n + 1])
          /\ \A i \in DOMAIN c[n + 1] : c[n + 1][i].kind \in Kinds
      BY <2>1, RecoveryAssumption, Zenon
    <2> QED  BY <2>1, <2>2 DEF Places
  <1> QED  BY <1>1, <1>2, Zenon

\* An id has one first transaction.
LEMMA FirstUnique ==
  ASSUME NEW c \in Chains, NEW n \in Blocks(c), NEW i \in Places(c, n), First(c, n, i),
         NEW m \in Blocks(c), NEW j \in Places(c, m), First(c, m, j),
         IdAt(c, n, i) = IdAt(c, m, j)
  PROVE  n = m /\ i = j
  <1>1. n \in Nat /\ m \in Nat /\ i \in Nat /\ j \in Nat  BY ChainType, Zenon
  <1>2. Records(c, n, i) /\ Records(c, m, j)  BY Zenon DEF First
  <1>3. n <= m => n = m /\ j <= i  BY <1>1, <1>2 DEF First
  <1>4. m <= n => n = m /\ i <= j  BY <1>1, <1>2 DEF First
  <1> QED  BY <1>1, <1>3, <1>4

LEMMA OutcomeStatus ==
  ASSUME NEW c, NEW n, NEW i
  PROVE  Outcome(c, n, i) \in Status /\ Outcome(c, n, i) # NotValidated
  BY Zenon DEF Outcome, Status, NotValidated

\* A transaction whose id an earlier one records is a duplicate.
LEMMA NotFirst ==
  ASSUME NEW c \in Chains, NEW n \in Blocks(c), NEW i \in Places(c, n), Records(c, n, i),
         NEW m \in Blocks(c), NEW j \in Places(c, m), Records(c, m, j),
         IdAt(c, m, j) = IdAt(c, n, i), m < n \/ (m = n /\ j < i)
  PROVE  Outcome(c, n, i) = "duplicate"
  <1>1. n \in Nat /\ m \in Nat /\ i \in Nat /\ j \in Nat  BY ChainType, Zenon
  <1>2. ~First(c, n, i)  BY <1>1 DEF First
  <1> QED  BY <1>2, Zenon DEF Outcome

LEMMA StoredGrows ==
  ASSUME NEW c, NEW D, NEW E, D \subseteq E, NEW k, Stored(c, D, k)
  PROVE  Stored(c, E, k)
  BY Zenon DEF Stored

\* Every set of naturals with an element has a least one.
LEMMA Least ==
  ASSUME NEW T \in SUBSET Nat, T # {}
  PROVE  \E x \in T : \A y \in T : x <= y
  <1> DEFINE R == OpToRel(<, Nat)
  <1>1. IsWellFoundedOn(R, Nat)  BY NatLessThanWellFounded, Zenon
  <1>2. PICK x \in T : \A y \in T : ~(<<y, x>> \in R)  BY <1>1, WFMin, Zenon
  <1>3. ASSUME NEW y \in T PROVE x <= y
    <2>1. ~(y < x)  BY <1>2, Zenon DEF OpToRel
    <2> QED  BY <2>1
  <1> QED  BY <1>2, <1>3, Zenon

LEMMA SeqElements ==
  ASSUME NEW S, NEW s \in Seq(S)
  PROVE  /\ DOMAIN s = 1..Len(s) /\ Len(s) \in Nat /\ \A i \in DOMAIN s : s[i] \in S
         /\ (s = <<>> <=> Len(s) = 0)
  OBVIOUS

LEMMA SeqAppend ==
  ASSUME NEW S, NEW s \in Seq(S), NEW e \in S, NEW u, u = Append(s, e)
  PROVE  /\ u \in Seq(S) /\ Len(u) = Len(s) + 1 /\ u[Len(s) + 1] = e /\ u # <<>>
         /\ DOMAIN u = DOMAIN s \cup {Len(s) + 1} /\ \A j \in DOMAIN s : u[j] = s[j]
  <1>1. u \in Seq(S) /\ Len(u) = Len(s) + 1 /\ u[Len(s) + 1] = e /\ \A j \in DOMAIN s : u[j] = s[j]
    OBVIOUS
  <1>2. DOMAIN u = 1..(Len(s) + 1) /\ DOMAIN s = 1..Len(s) /\ Len(s) \in Nat  BY <1>1, SeqElements, Zenon
  <1> QED  BY <1>1, <1>2

LEMMA SeqTail ==
  ASSUME NEW S, NEW s \in Seq(S), s # <<>>, NEW u, u = Tail(s)
  PROVE  /\ u \in Seq(S) /\ Len(u) = Len(s) - 1 /\ Len(s) \in Nat \ {0} /\ Head(s) = s[1] /\ Head(s) \in S
         /\ \A j \in DOMAIN u : j \in Nat \ {0} /\ j + 1 \in DOMAIN s /\ u[j] = s[j + 1]
         /\ (u = <<>> <=> Len(s) = 1)
  <1>1. Len(s) \in Nat \ {0} /\ Head(s) = s[1] /\ 1 \in DOMAIN s  OBVIOUS
  <1>2. u \in Seq(S) /\ Len(u) = Len(s) - 1  OBVIOUS
  <1>3. \A j \in 1..Len(u) : u[j] = s[j + 1]  OBVIOUS
  <1>4. DOMAIN u = 1..Len(u) /\ DOMAIN s = 1..Len(s) /\ s[1] \in S  BY <1>1, <1>2, SeqElements, Zenon
  <1>5. u = <<>> <=> Len(u) = 0  BY <1>2, SeqElements, Zenon
  <1> QED  BY <1>1, <1>2, <1>3, <1>4, <1>5

-----------------------------------------------------------------------------
LEMMA IInvInit == Init => IInv
  <1> SUFFICES ASSUME Init PROVE IInv  BY Zenon
  <1>1. chain \in Chains /\ Len(chain) \in Nat  BY ChainType, Zenon DEF Init
  <1>2. None \in Block  BY DEF None, Block
  <1>3. TypeOK  BY <1>1, <1>2 DEF Init, TypeOK, NoBlock, Idle
  <1>4. DOMAIN empty = {}  BY Zenon DEF empty
  <1>5. DbInv /\ SentInv /\ FlightInv  BY <1>4, Zenon DEF Init, DbInv, Exact, SentInv, FlightInv
  <1>6. CountInv
    <2>1. \A n \in Blocks(chain) : ~(n < 0)  BY <1>1, ChainType
    <2> QED  BY <2>1 DEF Init, CountInv, Stored, NoBlock
  <1>7. BlocksInv  BY <1>4 DEF Init, BlocksInv
  <1>8. OrderInv  BY DEF Init, OrderInv
  <1> QED  BY <1>3, <1>5, <1>6, <1>7, <1>8, Zenon DEF IInv

-----------------------------------------------------------------------------
(* What a step leaves of the invariant when it does not touch its variables *)

LEMMA CoordinatorFrame ==
  ASSUME IInv, UNCHANGED <<chain, db>>, sent' \cup stray' \subseteq sent \cup stray
  PROVE  DbInv' /\ SentInv'
  <1>1. DbInv'  BY Zenon DEF IInv, DbInv
  <1>2. SentInv'  BY Zenon DEF IInv, SentInv
  <1> QED  BY <1>1, <1>2, Zenon

LEMMA FlightFrame ==
  ASSUME IInv, UNCHANGED <<chain, db, fetched, inFlight, commitNum>>, pc' = "relay" <=> pc = "relay"
  PROVE  FlightInv'
  BY Zenon DEF IInv, FlightInv

LEMMA NoFlight ==
  ASSUME inFlight' = empty, pc' # "relay"
  PROVE  FlightInv'
  BY Zenon DEF FlightInv, empty

LEMMA CountFrame ==
  ASSUME IInv, UNCHANGED <<chain, db, commitNum, next, lastSet>>
  PROVE  CountInv'
  BY Zenon DEF IInv, CountInv

LEMMA BlocksFrame ==
  ASSUME IInv, UNCHANGED <<chain, held, queue, appending, ledger, seen, emitted>>
  PROVE  BlocksInv'
  BY Zenon DEF IInv, BlocksInv

\* The facts about the numbers that the steps use.
LEMMA Numbers ==
  ASSUME IInv
  PROVE  /\ chain \in Chains /\ Len(chain) \in Nat /\ Blocks(chain) \subseteq Nat
         /\ lastSet \in Int /\ next \in Nat /\ recovered \in Nat /\ commitNum \in Nat /\ fetched \in Nat
         /\ storeNext \in Nat /\ Len(ledger) \in Nat /\ Len(queue) \in Nat
         /\ Len(ledger) <= storeNext
  <1>1. chain \in Chains /\ queue \in Seq(Block) /\ ledger \in Seq(Block)  BY Zenon DEF IInv, TypeOK
  <1>2. Len(chain) \in Nat /\ Blocks(chain) \subseteq Nat  BY <1>1, ChainType, Zenon
  <1>3. Len(ledger) \in Nat /\ Len(queue) \in Nat  BY <1>1
  <1>4. /\ lastSet \in Int /\ next \in Nat /\ recovered \in Nat /\ commitNum \in Nat /\ fetched \in Nat
        /\ storeNext \in Nat
    BY <1>2 DEF IInv, TypeOK
  <1>5. Len(ledger) <= storeNext  BY <1>3, <1>4 DEF IInv, OrderInv
  <1> QED  BY <1>1, <1>2, <1>3, <1>4, <1>5, Zenon

-----------------------------------------------------------------------------
(* recover *)

LEMMA WaitIdleStep == ASSUME IInv, WaitIdle, UNCHANGED chain PROVE IInv'
  <1>1. /\ pc = "wait" /\ pc' = "height" /\ next' = getNextBlockNumberToCommit
        /\ UNCHANGED <<db, lastSet, sent, stray, recovered, fetched, inFlight, commitNum, held, queue,
                       storeNext, appending, ledger, synced, stopped, emitted, stream, seen>>
    BY Zenon DEF WaitIdle, coordinator, relay, store, client
  <1>2. next' \in 0..Len(chain) /\ next' = lastSet + 1
    BY <1>1, Numbers DEF getNextBlockNumberToCommit, NoBlock, IInv, TypeOK
  <1>3. TypeOK'  BY <1>1, <1>2, Zenon DEF IInv, TypeOK
  <1>4. DbInv' /\ SentInv'  BY <1>1, CoordinatorFrame, Zenon
  <1>5. CountInv'  BY <1>1, <1>2, Zenon DEF IInv, CountInv
  <1>6. FlightInv'  BY <1>1, FlightFrame, Zenon
  <1>7. BlocksInv'  BY <1>1, BlocksFrame, Zenon
  <1>8. OrderInv'  BY <1>1, Zenon DEF IInv, OrderInv
  <1> QED  BY <1>3, <1>4, <1>5, <1>6, <1>7, <1>8, Zenon DEF IInv

LEMMA CheckHeightStep == ASSUME IInv, CheckHeight, UNCHANGED chain PROVE IInv'
  <1>1. /\ pc = "height"
        /\ UNCHANGED <<db, lastSet, sent, stray, next, fetched, inFlight, commitNum, held, queue,
                       storeNext, appending, ledger, synced, stopped, emitted, stream, seen>>
    BY Zenon DEF CheckHeight, coordinator, relay, store, client
  <1>2. \/ pc' = "start" /\ recovered' = recovered /\ next <= Len(ledger)
        \/ pc' = "fetch" /\ recovered' = Len(ledger) /\ Len(ledger) < next
    BY Numbers DEF CheckHeight, storeCovers, Height, firstMissing
  <1>3. TypeOK'  BY <1>1, <1>2, Numbers, Zenon DEF IInv, TypeOK
  <1>4. DbInv' /\ SentInv'  BY <1>1, CoordinatorFrame, Zenon
  <1>5. CountInv'  BY <1>1, CountFrame, Zenon
  <1>6. FlightInv'  BY <1>1, <1>2, FlightFrame, Zenon
  <1>7. BlocksInv'  BY <1>1, BlocksFrame, Zenon
  <1>8. OrderInv'
    <2>1. queue = <<>> /\ held = None  BY <1>1, Zenon DEF IInv, OrderInv
    <2> QED  BY <1>1, <1>2, <2>1, Numbers DEF IInv, OrderInv, Incoming
  <1> QED  BY <1>3, <1>4, <1>5, <1>6, <1>7, <1>8, Zenon DEF IInv

LEMMA EndAttemptStep == ASSUME IInv, RecoveryFails \/ Recovered \/ Drain, UNCHANGED chain PROVE IInv'
  <1>1. /\ pc \in {"fetch", "drain"} /\ pc' \in {"drain", "wait"} /\ (pc' = "wait" => queue = <<>>)
        /\ UNCHANGED <<db, lastSet, sent, stray, next, recovered, fetched, inFlight, commitNum, held, queue,
                       storeNext, appending, ledger, synced, stopped, emitted, stream, seen>>
    BY Zenon DEF RecoveryFails, Recovered, Drain, coordinator, relay, store, client
  <1>2. TypeOK'  BY <1>1, Zenon DEF IInv, TypeOK
  <1>3. DbInv' /\ SentInv'  BY <1>1, CoordinatorFrame, Zenon
  <1>4. CountInv'  BY <1>1, CountFrame, Zenon
  <1>5. FlightInv'  BY <1>1, FlightFrame, Zenon
  <1>6. BlocksInv'  BY <1>1, BlocksFrame, Zenon
  <1>7. OrderInv'  BY <1>1, Zenon DEF IInv, OrderInv
  <1> QED  BY <1>2, <1>3, <1>4, <1>5, <1>6, <1>7, Zenon DEF IInv

LEMMA StartRelayStep == ASSUME IInv, StartRelay, UNCHANGED chain PROVE IInv'
  <1>1. /\ pc = "start" /\ pc' = "relay" /\ fetched' = next /\ commitNum' = next /\ inFlight' = empty /\ held' = None
        /\ UNCHANGED <<db, lastSet, sent, stray, next, recovered, queue,
                       storeNext, appending, ledger, synced, stopped, emitted, stream, seen>>
    BY Zenon DEF StartRelay, coordinator, store, client, reset
  <1>2. None \in Block  BY DEF None, Block
  <1>3. TypeOK'  BY <1>1, <1>2, Zenon DEF IInv, TypeOK
  <1>4. DbInv' /\ SentInv'  BY <1>1, CoordinatorFrame, Zenon
  <1>5. CountInv'  BY <1>1, Zenon DEF IInv, CountInv
  <1>6. FlightInv'
    <2>1. DOMAIN inFlight' = {} /\ (commitNum'..fetched' - 1) = {} /\ commitNum' <= fetched'
      BY <1>1, Numbers DEF empty
    <2> QED  BY <1>1, <2>1, Zenon DEF FlightInv
  <1>7. BlocksInv'  BY <1>1, Zenon DEF IInv, BlocksInv
  <1>8. OrderInv'
    <2>1. queue = <<>> /\ held = None /\ next <= Len(ledger)  BY <1>1, Zenon DEF IInv, OrderInv
    <2> QED  BY <1>1, <2>1, Numbers DEF IInv, OrderInv, Incoming
  <1> QED  BY <1>3, <1>4, <1>5, <1>6, <1>7, <1>8, Zenon DEF IInv

\* The status that mapBlock gives by itself is the true one.
LEMMA MappedTrue ==
  ASSUME NEW c \in Chains, c = chain, NEW n \in Blocks(c), NEW i \in Places(c, n), NEW ids, NEW s, s = mapped(n, ids)
  PROVE  /\ DOMAIN s = Places(c, n)
         /\ s[i] \in {"malformed", "duplicate", NotValidated}
         /\ s[i] = "malformed" <=> ~Records(c, n, i)
         /\ s[i] = NotValidated <=> Records(c, n, i) /\ ~taken(n, i, ids)
         /\ s[i] = "malformed" => Outcome(c, n, i) = "malformed"
         /\ taken(n, i, ids) <=>
              \/ IdAt(c, n, i) \in ids
              \/ \E j \in 1..i - 1 : IdAt(c, n, j) = IdAt(c, n, i) /\ Records(c, n, j)
  <1>1. Txs(n) = c[n + 1]  BY Zenon DEF Txs
  <1>2. s = [k \in Places(c, n) |-> IF c[n + 1][k].kind = "malformed" THEN "malformed"
                                   ELSE IF taken(n, k, ids) THEN "duplicate" ELSE NotValidated]
    BY <1>1, Zenon DEF mapped, Places
  <1>3. taken(n, i, ids) <=>
              \/ IdAt(c, n, i) \in ids
              \/ \E j \in 1..i - 1 : IdAt(c, n, j) = IdAt(c, n, i) /\ Records(c, n, j)
    BY <1>1, Zenon DEF taken, IdAt, Records
  <1> QED  BY <1>2, <1>3, Zenon DEF Records, Outcome, NotValidated

\* An id that is in the database belongs to its first transaction.
LEMMA StoredFirst ==
  ASSUME NEW c \in Chains, NEW rows, Exact(c, rows), NEW n \in Blocks(c), NEW i \in Places(c, n), Records(c, n, i),
         NEW row, IdAt(c, n, i) \in DOMAIN rows, row = rows[IdAt(c, n, i)]
  PROVE  Outcome(c, n, i) = IF row.ref = <<n, i>> THEN row.status ELSE "duplicate"
  <1>0. PICK m \in Blocks(c) : \E j \in Places(c, m) :
          /\ First(c, m, j) /\ IdAt(c, m, j) = IdAt(c, n, i)
          /\ row = [ref |-> <<m, j>>, status |-> Outcome(c, m, j)]
    BY Zenon DEF Exact
  <1>1. PICK j \in Places(c, m) :
          /\ First(c, m, j) /\ IdAt(c, m, j) = IdAt(c, n, i)
          /\ row = [ref |-> <<m, j>>, status |-> Outcome(c, m, j)]
    BY <1>0, Zenon
  <1>3. CASE m = n /\ j = i  BY <1>1, <1>3
  <1>4. CASE ~(m = n /\ j = i)
    <2>1. ~First(c, n, i)  BY <1>1, <1>4, FirstUnique, Zenon
    <2>2. Outcome(c, n, i) = "duplicate"  BY <2>1, Zenon DEF Outcome
    <2>3. row.ref # <<n, i>>  BY <1>1, <1>4
    <2> QED  BY <2>2, <2>3, Zenon
  <1> QED  BY <1>3, <1>4, Zenon

LEMMA MissingTrue ==
  ASSUME IInv, NEW n \in Blocks(chain), ~refused(n), NEW b, b = missingBlock(n)
  PROVE  b \in Block /\ b.num = n /\ TrueBlock(chain, b)
  <1>1. PICK c \in Chains : c = chain  BY Zenon DEF IInv, TypeOK
  <1>2. PICK s : s = mapped(n, {})  BY Zenon
  <1>3. Txs(n) = c[n + 1] /\ DOMAIN Txs(n) = Places(c, n)  BY <1>1, Zenon DEF Txs, Places
  <1>4. PICK f : f = [i \in Places(c, n) |->
                  IF i \in asked(n) THEN fillStatuses(n, i, GetTransactionsStatus(askedIDs(n))) ELSE s[i]]
    BY Zenon
  <1>5. b = [num |-> n, status |-> f]  BY <1>2, <1>3, <1>4, Zenon DEF missingBlock
  <1>6. ASSUME NEW i \in Places(c, n)
        PROVE  /\ f[i] \in Status
               /\ c[n + 1][i].kind \in {"plain", "malformed"} => f[i] = Outcome(c, n, i)
    <2>1. /\ s[i] \in {"malformed", "duplicate", NotValidated}
          /\ s[i] = "malformed" <=> ~Records(c, n, i)
          /\ s[i] = NotValidated <=> Records(c, n, i) /\ ~taken(n, i, {})
          /\ s[i] = "malformed" => Outcome(c, n, i) = "malformed"
          /\ taken(n, i, {}) => \E j \in 1..i - 1 : IdAt(c, n, j) = IdAt(c, n, i) /\ Records(c, n, j)
      BY <1>1, <1>2, MappedTrue
    <2>2. i \in asked(n) <=> s[i] = NotValidated /\ c[n + 1][i].kind = "plain"
      BY <1>2, <1>3, Zenon DEF asked
    <2>3. CASE i \in asked(n)
      <3>1. IdAt(c, n, i) \in askedIDs(n)  BY <1>3, <2>3, Zenon DEF askedIDs, IdAt
      <3>2. askedIDs(n) \subseteq DOMAIN GetTransactionsStatus(askedIDs(n))  BY Zenon DEF refused
      <3>3. IdAt(c, n, i) \in DOMAIN db  BY <3>1, <3>2, Zenon DEF GetTransactionsStatus
      <3>4. PICK row : row = db[IdAt(c, n, i)]  BY Zenon
      <3>5. GetTransactionsStatus(askedIDs(n))[IdAt(c, n, i)] = row
        BY <3>1, <3>3, <3>4, Zenon DEF GetTransactionsStatus
      <3>6. f[i] = IF row.ref = <<n, i>> THEN row.status ELSE "duplicate"
        <4>1. Txs(n)[i].id = IdAt(c, n, i)  BY <1>3, Zenon DEF IdAt
        <4>2. f[i] = fillStatuses(n, i, GetTransactionsStatus(askedIDs(n)))  BY <1>4, <2>3, Zenon
        <4> QED  BY <4>1, <4>2, <3>5, Zenon DEF fillStatuses
      <3>7. Records(c, n, i)  BY <2>1, <2>2, <2>3, Zenon
      <3>8. f[i] = Outcome(c, n, i)  BY <1>1, <3>3, <3>4, <3>6, <3>7, StoredFirst, Zenon DEF IInv, DbInv
      <3> QED  BY <3>8, OutcomeStatus, Zenon
    <2>4. CASE i \notin asked(n)
      <3>1. f[i] = s[i]  BY <1>4, <2>4, Zenon
      <3>2. f[i] \in Status  BY <2>1, <3>1, Zenon DEF Status
      <3>3. ASSUME c[n + 1][i].kind \in {"plain", "malformed"} PROVE f[i] = Outcome(c, n, i)
        <4>1. CASE s[i] = "malformed"  BY <2>1, <3>1, <4>1, Zenon
        <4>2. CASE s[i] # "malformed"
          <5>1. Records(c, n, i) /\ c[n + 1][i].kind = "plain"  BY <2>1, <3>3, <4>2, Zenon DEF Records
          <5>2. s[i] = "duplicate" /\ taken(n, i, {})  BY <2>1, <2>2, <2>4, <4>2, <5>1, Zenon
          <5>3. PICK j \in 1..i - 1 : IdAt(c, n, j) = IdAt(c, n, i) /\ Records(c, n, j)  BY <2>1, <5>2, Zenon
          <5>4. i \in Nat /\ j \in Places(c, n) /\ j < i
            <6>1. Places(c, n) = 1..Len(c[n + 1]) /\ Len(c[n + 1]) \in Nat  BY <1>1, ChainType, Zenon
            <6> QED  BY <6>1
          <5>5. Outcome(c, n, i) = "duplicate"  BY <1>1, <5>1, <5>3, <5>4, NotFirst, Zenon
          <5> QED  BY <3>1, <5>2, <5>5, Zenon
        <4> QED  BY <4>1, <4>2, Zenon
      <3> QED  BY <3>2, <3>3, Zenon
    <2> QED  BY <2>3, <2>4, Zenon
  <1>7. DOMAIN f = Places(c, n) /\ f \in Seq(Status)
    <2>1. Places(c, n) = 1..Len(c[n + 1]) /\ Len(c[n + 1]) \in Nat  BY <1>1, ChainType, Zenon
    <2>2. DOMAIN f = Places(c, n)  BY <1>4, Zenon
    <2>3. PICK l \in Nat : Places(c, n) = 1..l  BY <2>1, Zenon
    <2>4. f = [i \in 1..l |-> f[i]] /\ \A i \in 1..l : f[i] \in Status  BY <1>4, <1>6, <2>2, <2>3, Zenon
    <2>5. f \in Seq(Status)  BY <2>4
    <2> QED  BY <2>2, <2>5, Zenon
  <1>8. n \in Int  BY Numbers
  <1>9. b \in Block  BY <1>5, <1>7, <1>8 DEF Block
  <1> QED  BY <1>1, <1>5, <1>6, <1>7, <1>9 DEF TrueBlock

\* A block that follows the run enters the queue.
LEMMA Enqueue ==
  ASSUME IInv, NEW b \in Block, TrueBlock(chain, b), queue' = Append(queue, b),
         b.num = Incoming, pc \in {"fetch", "relay"}, UNCHANGED <<chain, storeNext>>
  PROVE  /\ queue' \in Seq(Block) /\ queue' # <<>> /\ \A k \in DOMAIN queue' : TrueBlock(chain, queue'[k])
         /\ \A k \in DOMAIN queue' : queue'[k].num = queue'[1].num + k - 1
         /\ queue'[1].num <= storeNext /\ b.num + 1 = queue'[1].num + Len(queue')
  <1>1. queue \in Seq(Block)  BY Zenon DEF IInv, TypeOK
  <1>2. PICK q : q = queue'  BY Zenon
  <1>3. /\ q \in Seq(Block) /\ Len(q) = Len(queue) + 1 /\ q[Len(queue) + 1] = b /\ q # <<>>
        /\ DOMAIN q = DOMAIN queue \cup {Len(queue) + 1} /\ \A j \in DOMAIN queue : q[j] = queue[j]
    BY <1>1, <1>2, SeqAppend
  <1>4. DOMAIN queue = 1..Len(queue) /\ Len(queue) \in Nat /\ (queue = <<>> <=> Len(queue) = 0)
    BY <1>1, SeqElements, Zenon
  <1>5. \A k \in DOMAIN q : TrueBlock(chain, q[k])  BY <1>3, Zenon DEF IInv, BlocksInv
  <1>6. /\ \A k \in DOMAIN queue : queue[k].num = queue[1].num + k - 1
        /\ queue # <<>> => queue[1].num <= storeNext
        /\ IF queue = <<>> THEN b.num <= storeNext ELSE b.num = queue[1].num + Len(queue)
    BY Zenon DEF IInv, OrderInv
  <1>7. b.num \in Int /\ storeNext \in Nat  BY Numbers, Zenon DEF Block
  <1>8. CASE queue = <<>>
    <2>1. Len(q) = 1 /\ q[1] = b /\ DOMAIN q = {1}  BY <1>3, <1>4, <1>8
    <2> QED  BY <1>2, <1>3, <1>5, <1>6, <1>7, <1>8, <2>1
  <1>9. CASE queue # <<>>
    <2>1. 1 \in DOMAIN queue /\ q[1] = queue[1] /\ queue[1].num \in Int
      <3>1. 1 \in DOMAIN queue  BY <1>4, <1>9
      <3>2. queue[1] \in Block  BY <1>1, <3>1, SeqElements, Zenon
      <3> QED  BY <1>3, <3>1, <3>2, Zenon DEF Block
    <2>2. PICK x \in Int : x = queue[1].num  BY <2>1, Zenon
    <2>3. PICK l \in Nat : l = Len(queue)  BY <1>4, Zenon
    <2>4. b.num = x + l /\ x <= storeNext  BY <1>6, <1>9, <2>2, <2>3, Zenon
    <2>5. ASSUME NEW k \in DOMAIN q PROVE q[k].num = x + k - 1
      <3>1. CASE k \in DOMAIN queue  BY <1>3, <1>6, <2>2, <3>1, Zenon
      <3>2. CASE k = l + 1
        <4>1. q[k] = b /\ b.num = x + k - 1  BY <1>3, <2>3, <2>4, <3>2
        <4> QED  BY <4>1, Zenon
      <3> QED  BY <1>3, <2>3, <3>1, <3>2, Zenon
    <2>6. q[1].num = x /\ b.num + 1 = x + Len(q)  BY <1>3, <2>1, <2>2, <2>3, <2>4, SMTT(30)
    <2> QED  BY <1>2, <1>3, <1>5, <2>4, <2>5, <2>6, Zenon
  <1> QED  BY <1>8, <1>9, Zenon

LEMMA AppendMissingStep == ASSUME IInv, AppendMissing, UNCHANGED chain PROVE IInv'
  <1>1. /\ pc = "fetch" /\ pc' = "fetch" /\ recovered < next /\ recovered' = recovered + 1
        /\ UNCHANGED <<db, lastSet, sent, stray, next, fetched, inFlight, commitNum, held,
                       storeNext, appending, ledger, synced, stopped, emitted, stream, seen>>
    BY Zenon DEF AppendMissing, coordinator, relay, store, client
  <1>2. recovered \in Blocks(chain)  BY <1>1, Numbers DEF AppendMissing, Blocks, IInv, TypeOK
  <1>3. PICK b : b = missingBlock(recovered)  BY Zenon
  <1>4. b \in Block /\ b.num = recovered /\ TrueBlock(chain, b)  BY <1>2, <1>3, MissingTrue, Zenon DEF AppendMissing
  <1>5. /\ queue' \in Seq(Block) /\ queue' # <<>> /\ \A k \in DOMAIN queue' : TrueBlock(chain, queue'[k])
        /\ \A k \in DOMAIN queue' : queue'[k].num = queue'[1].num + k - 1
        /\ queue'[1].num <= storeNext /\ b.num + 1 = queue'[1].num + Len(queue')
    BY <1>1, <1>3, <1>4, Enqueue, Zenon DEF AppendMissing, Incoming
  <1>6. TypeOK'  BY <1>1, <1>5, Numbers DEF IInv, TypeOK
  <1>7. DbInv' /\ SentInv'  BY <1>1, CoordinatorFrame, Zenon
  <1>8. CountInv'  BY <1>1, CountFrame, Zenon
  <1>9. FlightInv'  BY <1>1, FlightFrame, Zenon
  <1>10. BlocksInv'  BY <1>1, <1>5, Zenon DEF IInv, BlocksInv
  <1>11. OrderInv'
    <2>1. Incoming' = b.num + 1  BY <1>1, <1>4, Zenon DEF Incoming
    <2>2. held = None  BY <1>1, Zenon DEF IInv, OrderInv
    <2>3. recovered' <= next'  BY <1>1, Numbers
    <2> QED  BY <1>1, <1>5, <2>1, <2>2, <2>3, Zenon DEF IInv, OrderInv
  <1> QED  BY <1>6, <1>7, <1>8, <1>9, <1>10, <1>11, Zenon DEF IInv

-----------------------------------------------------------------------------
(* The relay *)

LEMMA MapBlockStep == ASSUME IInv, MapBlock, UNCHANGED chain PROVE IInv'
  <1>1. /\ pc = "relay" /\ pc' = "relay" /\ fetched <= Last /\ fetched' = fetched + 1
        /\ UNCHANGED <<db, lastSet, stray, next, recovered, commitNum, held, queue,
                       storeNext, appending, ledger, synced, stopped, emitted, stream, seen>>
    BY Zenon DEF MapBlock, session, store, client
  <1>2. PICK c \in Chains : c = chain  BY Zenon DEF IInv, TypeOK
  <1>3. PICK n : n = fetched  BY Zenon
  <1>4. n \in Blocks(c) /\ n \in Nat /\ n + 1 \in 0..Len(c) /\ Blocks(c) \subseteq Nat
    BY <1>1, <1>2, <1>3, Numbers DEF Blocks, Last
  <1>5. PICK s : s = mapped(n, dedupIDs)  BY Zenon
  <1>6. DOMAIN s = Places(c, n) /\ Places(c, n) \subseteq Nat
    <2>1. Txs(n) = c[n + 1]  BY <1>2, Zenon DEF Txs
    <2> QED  BY <1>2, <1>4, <1>5, <2>1, ChainType, Zenon DEF mapped, Places
  <1>7. /\ inFlight' = [k \in DOMAIN inFlight \cup {n} |-> IF k = n THEN s ELSE inFlight[k]]
        /\ sent' = sent \cup {<<n, i>> : i \in {j \in Places(c, n) : s[j] = NotValidated}}
    BY <1>3, <1>5, <1>6, Zenon DEF MapBlock
  <1>8. ASSUME NEW i \in Places(c, n)
        PROVE  /\ s[i] \in {"malformed", "duplicate", NotValidated}
               /\ s[i] = "malformed" <=> ~Records(c, n, i)
               /\ s[i] = NotValidated <=> Records(c, n, i) /\ ~taken(n, i, dedupIDs)
               /\ s[i] = "malformed" => Outcome(c, n, i) = "malformed"
               /\ taken(n, i, dedupIDs) <=>
                    \/ IdAt(c, n, i) \in dedupIDs
                    \/ \E j \in 1..i - 1 : IdAt(c, n, j) = IdAt(c, n, i) /\ Records(c, n, j)
    BY <1>2, <1>4, <1>5, MappedTrue
  <1>9. \A id : id \in dedupIDs <=>
          \E m \in commitNum..n - 1 : \E j \in Places(c, m) : Records(c, m, j) /\ IdAt(c, m, j) = id
    <2>1. dedupIDs = UNION {{IdAt(c, m, i) : i \in {j \in Places(c, m) : Records(c, m, j)}} : m \in commitNum..n - 1}
      BY <1>2, <1>3 DEF dedupIDs, Txs, Places, Records, IdAt
    <2>2. ASSUME NEW m \in commitNum..n - 1, NEW j \in Places(c, m), Records(c, m, j)
          PROVE  IdAt(c, m, j) \in dedupIDs
      BY <2>1, <2>2
    <2>3. ASSUME NEW id \in dedupIDs
          PROVE  \E m \in commitNum..n - 1 : \E j \in Places(c, m) : Records(c, m, j) /\ IdAt(c, m, j) = id
      BY <2>1, Zenon
    <2> QED  BY <2>2, <2>3, Zenon
  <1>10. \A m \in commitNum..n - 1 : m \in Blocks(c) /\ m < n  BY <1>2, <1>4, Numbers DEF Blocks
  <1>11. commitNum \in Nat /\ commitNum <= n  BY <1>1, <1>3, Numbers, Zenon DEF IInv, FlightInv
  <1>12. ASSUME NEW i \in Places(c, n), s[i] = NotValidated
         PROVE  Records(c, n, i) /\ (IdAt(c, n, i) \in DOMAIN db \/ First(c, n, i))
    <2>1. Records(c, n, i) /\ ~taken(n, i, dedupIDs)  BY <1>8, <1>12, Zenon
    <2>2. SUFFICES ASSUME IdAt(c, n, i) \notin DOMAIN db PROVE First(c, n, i)  BY <2>1, Zenon
    <2>3. ASSUME NEW m \in 0..n, NEW j \in Places(c, m), Records(c, m, j), IdAt(c, m, j) = IdAt(c, n, i)
          PROVE  m = n /\ i <= j
      <3>1. m \in Nat /\ m \in Blocks(c)  BY <1>2, <1>4, Numbers DEF Blocks
      <3>2. ~(m < commitNum)  BY <1>2, <2>2, <2>3, <3>1, Zenon DEF IInv, CountInv, Stored
      <3>3. m \notin commitNum..n - 1  BY <1>8, <1>9, <2>1, <2>3, Zenon
      <3>4. m = n  BY <1>4, <1>11, <3>1, <3>2, <3>3
      <3>5. j \notin 1..i - 1  BY <1>8, <2>1, <2>3, <3>4, Zenon
      <3>6. i \in Nat \ {0} /\ j \in Nat \ {0}
        <4>1. Places(c, n) = 1..Len(c[n + 1]) /\ Len(c[n + 1]) \in Nat  BY <1>2, <1>4, ChainType, Zenon
        <4> QED  BY <3>4, <4>1
      <3> QED  BY <3>4, <3>5, <3>6
    <2> QED  BY <2>1, <2>3, Zenon DEF First
  <1>13. ASSUME NEW i \in Places(c, n) PROVE s[i] \in {NotValidated, Outcome(c, n, i)}
    <2>1. CASE s[i] = "malformed"  BY <1>8, <2>1, Zenon
    <2>2. CASE s[i] = "duplicate"
      <3>1. Records(c, n, i) /\ taken(n, i, dedupIDs)  BY <1>8, <2>2, Zenon DEF NotValidated
      <3>2. CASE IdAt(c, n, i) \in dedupIDs
        <4>1. PICK m \in commitNum..n - 1 : \E j \in Places(c, m) : Records(c, m, j) /\ IdAt(c, m, j) = IdAt(c, n, i)
          BY <1>9, <3>2, Zenon
        <4>2. PICK j \in Places(c, m) : Records(c, m, j) /\ IdAt(c, m, j) = IdAt(c, n, i)  BY <4>1, Zenon
        <4>3. Outcome(c, n, i) = "duplicate"  BY <1>2, <1>4, <1>10, <3>1, <4>2, NotFirst, Zenon
        <4> QED  BY <2>2, <4>3, Zenon
      <3>3. CASE IdAt(c, n, i) \notin dedupIDs
        <4>1. PICK j \in 1..i - 1 : IdAt(c, n, j) = IdAt(c, n, i) /\ Records(c, n, j)  BY <1>8, <3>1, <3>3, Zenon
        <4>2. Places(c, n) = 1..Len(c[n + 1]) /\ Len(c[n + 1]) \in Nat  BY <1>2, <1>4, ChainType, Zenon
        <4>3. j \in Places(c, n) /\ j < i  BY <4>2
        <4>4. Outcome(c, n, i) = "duplicate"  BY <1>2, <1>4, <3>1, <4>1, <4>3, NotFirst, Zenon
        <4> QED  BY <2>2, <4>4, Zenon
      <3> QED  BY <3>2, <3>3, Zenon
    <2> QED  BY <1>8, <2>1, <2>2, Zenon
  <1>14. ASSUME NEW i \in Places(c, n), Records(c, n, i)
         PROVE  \/ IdAt(c, n, i) \in dedupIDs
                \/ \E j \in Places(c, n) : IdAt(c, n, j) = IdAt(c, n, i) /\ s[j] = NotValidated
    <2>1. SUFFICES ASSUME IdAt(c, n, i) \notin dedupIDs
                   PROVE  \E j \in Places(c, n) : IdAt(c, n, j) = IdAt(c, n, i) /\ s[j] = NotValidated
      BY Zenon
    <2> DEFINE T == {j \in Places(c, n) : Records(c, n, j) /\ IdAt(c, n, j) = IdAt(c, n, i)}
    <2>2. T \in SUBSET Nat /\ i \in T  BY <1>6, <1>14, Zenon
    <2>3. PICK j \in T : \A k \in T : j <= k
      <3> HIDE DEF T
      <3> QED  BY <2>2, Least, Zenon
    <2>4. Places(c, n) = 1..Len(c[n + 1]) /\ Len(c[n + 1]) \in Nat  BY <1>2, <1>4, ChainType, Zenon
    <2>5. j \in Places(c, n) /\ Records(c, n, j) /\ IdAt(c, n, j) = IdAt(c, n, i)  BY Zenon
    <2>6. ASSUME NEW k \in 1..j - 1, IdAt(c, n, k) = IdAt(c, n, j), Records(c, n, k) PROVE FALSE
      <3>1. k \in Places(c, n) /\ k < j /\ j \in Nat /\ k \in Nat  BY <2>4, <2>5
      <3>2. k \in T  BY <2>5, <2>6, <3>1, Zenon
      <3> QED  BY <2>3, <3>1, <3>2
    <2>7. ~taken(n, j, dedupIDs)  BY <1>8, <2>1, <2>5, <2>6, Zenon
    <2>8. s[j] = NotValidated  BY <1>8, <2>5, <2>7, Zenon
    <2> QED  BY <2>5, <2>8, Zenon
  <1>15. s \in Seq(Status)
    <2>1. PICK l \in Nat : Places(c, n) = 1..l  BY <1>2, <1>4, ChainType, Zenon
    <2>2. s = [i \in 1..l |-> s[i]]  BY <1>5, <1>6, <2>1, Zenon DEF mapped
    <2>3. \A i \in 1..l : s[i] \in Status  BY <1>8, <2>1, Zenon DEF Status
    <2> QED  BY <2>2, <2>3
  <1>16. TypeOK'  BY <1>1, <1>2, <1>3, <1>4, Zenon DEF IInv, TypeOK
  <1>17. DbInv'  BY <1>1, Zenon DEF IInv, DbInv
  <1>18. SentInv'
    <2>1. ASSUME NEW ref \in sent' \cup stray'
          PROVE  \E k \in Blocks(c) : \E i \in Places(c, k) :
                   ref = <<k, i>> /\ Records(c, k, i) /\ (IdAt(c, k, i) \in DOMAIN db \/ First(c, k, i))
      <3>1. CASE ref \in sent \cup stray  BY <1>2, <3>1, Zenon DEF IInv, SentInv
      <3>2. ASSUME NEW i \in Places(c, n), s[i] = NotValidated, ref = <<n, i>>
            PROVE  \E k \in Blocks(c) : \E j \in Places(c, k) :
                     ref = <<k, j>> /\ Records(c, k, j) /\ (IdAt(c, k, j) \in DOMAIN db \/ First(c, k, j))
        BY <1>4, <1>12, <3>2, Zenon
      <3> QED  BY <1>1, <1>7, <3>1, <3>2, Zenon
    <2> QED  BY <1>1, <1>2, <2>1, Zenon DEF SentInv
  <1>19. CountInv'  BY <1>1, CountFrame, Zenon
  <1>20. FlightInv'
    <2>1. DOMAIN inFlight = commitNum..n - 1  BY <1>1, <1>3, Zenon DEF IInv, FlightInv
    <2>2. DOMAIN inFlight' = commitNum..n /\ (commitNum..n) = commitNum..(n + 1) - 1
      BY <1>4, <1>7, <1>11, <2>1
    <2>3. ASSUME NEW k \in DOMAIN inFlight' PROVE Flying(c, DOMAIN db, commitNum, k, inFlight'[k])
      <3>1. CASE k = n
        <4>1. inFlight'[k] = s  BY <1>7, <3>1, Zenon
        <4>2. Flying(c, DOMAIN db, commitNum, n, s)  BY <1>6, <1>9, <1>13, <1>14, <1>15, Zenon DEF Flying
        <4> QED  BY <3>1, <4>1, <4>2, Zenon
      <3>2. CASE k # n
        <4>1. k \in DOMAIN inFlight /\ inFlight'[k] = inFlight[k]  BY <1>7, <3>2, Zenon
        <4> QED  BY <1>2, <4>1, Zenon DEF IInv, FlightInv
      <3> QED  BY <3>1, <3>2, Zenon
    <2>4. commitNum' <= fetched' /\ DOMAIN inFlight' = commitNum'..fetched' - 1
      BY <1>1, <1>3, <1>4, <1>11, <2>2
    <2> QED  BY <1>1, <1>2, <2>3, <2>4, Zenon DEF FlightInv
  <1>21. BlocksInv'  BY <1>1, BlocksFrame, Zenon
  <1>22. OrderInv'  BY <1>1, Zenon DEF IInv, OrderInv, Incoming
  <1> QED  BY <1>16, <1>17, <1>18, <1>19, <1>20, <1>21, <1>22, Zenon DEF IInv

\* More stored ids, and the outcome of one transaction of the block.
LEMMA FlyingCommit ==
  ASSUME NEW c, NEW D, NEW E, D \subseteq E, NEW k, NEW n, NEW f, Flying(c, D, k, n, f),
         NEW i \in Places(c, n), IdAt(c, n, i) \in E, NEW g, g = [f EXCEPT ![i] = Outcome(c, n, i)]
  PROVE  Flying(c, E, k, n, f) /\ Flying(c, E, k, n, g)
  <1>1. Flying(c, E, k, n, f)  BY Zenon DEF Flying
  <1>2. f \in Seq(Status) /\ DOMAIN f = Places(c, n) /\ Outcome(c, n, i) \in Status  BY OutcomeStatus, Zenon DEF Flying
  <1>3. g \in Seq(Status) /\ DOMAIN g = DOMAIN f /\ \A j \in DOMAIN f : g[j] = IF j = i THEN Outcome(c, n, i) ELSE f[j]
    BY <1>2
  <1>4. \A j \in Places(c, n) : g[j] \in {NotValidated, Outcome(c, n, j)}  BY <1>2, <1>3, Zenon DEF Flying
  <1>5. ASSUME NEW j \in Places(c, n), IdAt(c, n, j) \notin E, f[j] = NotValidated PROVE g[j] = NotValidated
    BY <1>2, <1>3, <1>5, Zenon
  <1>6. ASSUME NEW j \in Places(c, n), Records(c, n, j)
        PROVE  \/ IdAt(c, n, j) \in E
               \/ \E m \in k..n - 1 : \E l \in Places(c, m) : Records(c, m, l) /\ IdAt(c, m, l) = IdAt(c, n, j)
               \/ \E l \in Places(c, n) : IdAt(c, n, l) = IdAt(c, n, j) /\ g[l] = NotValidated
    BY <1>1, <1>5, <1>6, Zenon DEF Flying
  <1> QED  BY <1>1, <1>2, <1>3, <1>4, <1>6, ZenonT(30) DEF Flying

LEMMA CommitStep == ASSUME IInv, NEW ref \in sent \cup stray, Commit(ref), UNCHANGED chain PROVE IInv'
  <1>1. /\ sent' \cup stray' \subseteq sent \cup stray
        /\ UNCHANGED <<lastSet, pc, next, recovered, fetched, commitNum, held, queue,
                       storeNext, appending, ledger, synced, stopped, emitted, stream, seen>>
    BY Zenon DEF Commit, session, store, client
  <1>2. PICK c \in Chains : c = chain  BY Zenon DEF IInv, TypeOK
  <1>3. PICK n \in Blocks(c) : \E i \in Places(c, n) :
          ref = <<n, i>> /\ Records(c, n, i) /\ (IdAt(c, n, i) \in DOMAIN db \/ First(c, n, i))
    BY <1>2, Zenon DEF IInv, SentInv
  <1>4. PICK i \in Places(c, n) :
          ref = <<n, i>> /\ Records(c, n, i) /\ (IdAt(c, n, i) \in DOMAIN db \/ First(c, n, i))
    BY <1>3, Zenon
  <1>5. PICK id : id = IdAt(c, n, i)  BY Zenon
  <1>6. PICK new : new = [ref |-> <<n, i>>, status |-> IF c[n + 1][i].kind = "rejected" THEN "rejected" ELSE "committed"]
    BY Zenon
  <1>7. PICK rows : rows = [x \in DOMAIN db \cup {id} |-> IF x \in DOMAIN db THEN db[x] ELSE new]  BY ZenonT(30)
  <1>8. ref[1] = n /\ ref[2] = i /\ Txs(n)[i].id = id /\ Txs(n)[i].kind = c[n + 1][i].kind
    BY <1>2, <1>4, <1>5, Zenon DEF Txs, IdAt
  <1>9. /\ db' = rows
        /\ inFlight' = IF ref \in sent /\ n \in DOMAIN inFlight
                       THEN [inFlight EXCEPT ![n] = [inFlight[n] EXCEPT
                               ![i] = IF rows[id].ref = ref THEN rows[id].status ELSE "duplicate"]]
                       ELSE inFlight
    BY <1>4, <1>6, <1>7, <1>8, Zenon DEF Commit
  <1>10. DOMAIN rows = DOMAIN db \cup {id} /\ id \in DOMAIN rows  BY <1>7, Zenon
  <1>11. Exact(c, rows)
    <2>1. ASSUME NEW x \in DOMAIN rows, x \in DOMAIN db
          PROVE  \E m \in Blocks(c) : \E j \in Places(c, m) :
                   /\ First(c, m, j) /\ IdAt(c, m, j) = x
                   /\ rows[x] = [ref |-> <<m, j>>, status |-> Outcome(c, m, j)]
      <3>1. rows[x] = db[x]  BY <1>7, <2>1, Zenon
      <3> QED  BY <1>2, <2>1, <3>1, Zenon DEF IInv, DbInv, Exact
    <2>2. ASSUME id \notin DOMAIN db
          PROVE  First(c, n, i) /\ rows[id] = [ref |-> <<n, i>>, status |-> Outcome(c, n, i)]
      <3>1. First(c, n, i) /\ rows[id] = new  BY <1>4, <1>5, <1>7, <2>2, Zenon
      <3> QED  BY <1>4, <1>6, <3>1, Zenon DEF Outcome
    <2> QED  BY <1>5, <1>10, <2>1, <2>2, ZenonT(30) DEF Exact
  <1>12. Outcome(c, n, i) = IF rows[id].ref = ref THEN rows[id].status ELSE "duplicate"
    BY <1>4, <1>5, <1>10, <1>11, StoredFirst, Zenon
  <1>13. DbInv'  BY <1>2, <1>9, <1>11, Zenon DEF DbInv
  <1>14. SentInv'  BY <1>1, <1>9, <1>10, Zenon DEF IInv, SentInv
  <1>15. CountInv'
    <2>1. \A k : Stored(chain, DOMAIN db, k) => Stored(chain, DOMAIN rows, k)  BY <1>10, StoredGrows, Zenon
    <2> QED  BY <1>1, <1>9, <2>1, Zenon DEF IInv, CountInv
  <1>16. FlightInv'
    <2>1. DOMAIN inFlight' = DOMAIN inFlight  BY <1>9, Zenon
    <2>2. ASSUME NEW k \in DOMAIN inFlight PROVE Flying(c, DOMAIN rows, commitNum, k, inFlight'[k])
      <3>1. Flying(c, DOMAIN db, commitNum, k, inFlight[k])  BY <1>2, Zenon DEF IInv, FlightInv
      <3>2. CASE inFlight'[k] = inFlight[k]
        <4>1. Flying(c, DOMAIN rows, commitNum, k, inFlight[k])  BY <1>10, <3>1, ZenonT(30) DEF Flying
        <4> QED  BY <3>2, <4>1, ZenonT(30)
      <3>3. CASE k = n /\ inFlight'[k] = [inFlight[k] EXCEPT ![i] = Outcome(c, n, i)]
        BY <1>5, <1>10, <3>1, <3>3, FlyingCommit
      <3> QED  BY <1>9, <1>12, <3>2, <3>3, Zenon
    <2> QED  BY <1>1, <1>2, <1>9, <2>1, <2>2, Zenon DEF IInv, FlightInv
  <1>17. TypeOK'  BY <1>1, Zenon DEF IInv, TypeOK
  <1>18. BlocksInv'  BY <1>1, BlocksFrame, Zenon
  <1>19. OrderInv'  BY <1>1, Zenon DEF IInv, OrderInv, Incoming
  <1> QED  BY <1>13, <1>14, <1>15, <1>16, <1>17, <1>18, <1>19, Zenon DEF IInv

\* The first block in flight, when its statuses are final, has all its ids stored.
LEMMA FlyingStored ==
  ASSUME NEW c \in Chains, NEW D, NEW n \in Blocks(c), Stored(c, D, n), NEW f, Flying(c, D, n, n, f),
         \A i \in DOMAIN f : f[i] # NotValidated
  PROVE  Stored(c, D, n + 1) /\ \A i \in Places(c, n) : f[i] = Outcome(c, n, i)
  <1>1. n \in Nat /\ Blocks(c) \subseteq Nat /\ (n..n - 1) = {}  BY ChainType
  <1>2. DOMAIN f = Places(c, n) /\ \A i \in Places(c, n) : f[i] = Outcome(c, n, i)  BY Zenon DEF Flying
  <1>3. \A i \in Places(c, n) : Records(c, n, i) => IdAt(c, n, i) \in D  BY <1>1, <1>2, Zenon DEF Flying
  <1>4. \A m \in Blocks(c) : m < n + 1 => m < n \/ m = n  BY <1>1
  <1> QED  BY <1>2, <1>3, <1>4, Zenon DEF Stored

LEMMA TakeCommittedStep == ASSUME IInv, TakeCommitted, UNCHANGED chain PROVE IInv'
  <1>1. PICK n : n = commitNum  BY Zenon
  <1>2. PICK f : f = inFlight[n]  BY Zenon
  <1>3. /\ pc = "relay" /\ pc' = "relay" /\ held = None /\ n \in DOMAIN inFlight
        /\ \A i \in DOMAIN f : f[i] # NotValidated
        /\ held' = [num |-> n, status |-> f] /\ commitNum' = n + 1
        /\ inFlight' = [k \in DOMAIN inFlight \ {n} |-> inFlight[k]]
        /\ emitted' = [k \in DOMAIN emitted \cup {n} |-> IF k \in DOMAIN emitted THEN emitted[k] ELSE f]
        /\ UNCHANGED <<db, lastSet, sent, stray, next, recovered, fetched, queue,
                       storeNext, appending, ledger, synced, stopped, stream, seen>>
    BY <1>1, <1>2, Zenon DEF TakeCommitted, coordinator, session, store, client
  <1>4. PICK c \in Chains : c = chain  BY Zenon DEF IInv, TypeOK
  <1>5. DOMAIN inFlight = n..fetched - 1 /\ n <= fetched  BY <1>1, <1>3, Zenon DEF IInv, FlightInv
  <1>6. n \in Nat /\ fetched \in 0..Len(c) /\ Len(c) \in Nat
    BY <1>1, <1>4, Numbers, Zenon DEF IInv, TypeOK
  <1>7. n \in Blocks(c) /\ n + 1 \in 0..Len(c) /\ n + 1 <= fetched
    BY <1>3, <1>5, <1>6 DEF Blocks
  <1>8. Flying(c, DOMAIN db, n, n, f)  BY <1>1, <1>2, <1>3, <1>4, ZenonT(40) DEF IInv, FlightInv
  <1>9. Stored(c, DOMAIN db, n + 1) /\ \A i \in Places(c, n) : f[i] = Outcome(c, n, i)
    BY <1>1, <1>3, <1>4, <1>7, <1>8, FlyingStored DEF IInv, CountInv
  <1>10. f \in Seq(Status) /\ DOMAIN f = Places(c, n)  BY <1>8, Zenon DEF Flying
  <1>11. PICK h : h = held'  BY Zenon
  <1>12. h \in Block /\ h # None /\ h.num = n /\ TrueBlock(c, h)
    BY <1>3, <1>6, <1>7, <1>9, <1>10, <1>11 DEF Block, None, TrueBlock
  <1>13. TypeOK'  BY <1>3, <1>4, <1>7, <1>11, <1>12, Zenon DEF IInv, TypeOK
  <1>14. DbInv' /\ SentInv'  BY <1>3, CoordinatorFrame, Zenon
  <1>15. CountInv'  BY <1>3, <1>4, <1>9, Zenon DEF IInv, CountInv
  <1>16. FlightInv'
    <2>1. DOMAIN inFlight' = (n + 1)..fetched - 1  BY <1>3, <1>5, <1>6
    <2>2. ASSUME NEW k \in DOMAIN inFlight' PROVE Flying(c, DOMAIN db, n + 1, k, inFlight'[k])
      <3>1. k \in DOMAIN inFlight /\ inFlight'[k] = inFlight[k]  BY <1>3, Zenon
      <3>2. PICK g : g = inFlight[k]  BY Zenon
      <3>3. Flying(c, DOMAIN db, n, k, g)  BY <1>1, <1>4, <3>1, <3>2, Zenon DEF IInv, FlightInv
      <3>4. k \in Nat  BY <1>5, <1>6, <3>1
      <3>5. ASSUME NEW i \in Places(c, k), NEW m \in n..k - 1, NEW j \in Places(c, m), Records(c, m, j),
                   IdAt(c, m, j) = IdAt(c, k, i)
            PROVE  m \in (n + 1)..k - 1 \/ IdAt(c, k, i) \in DOMAIN db
        <4>1. m = n \/ m \in (n + 1)..k - 1  BY <1>6, <3>4
        <4>2. m = n => IdAt(c, m, j) \in DOMAIN db
          <5>1. n < n + 1  BY <1>6
          <5> QED  BY <1>7, <1>9, <3>5, <5>1, Zenon DEF Stored
        <4> QED  BY <3>5, <4>1, <4>2, Zenon
      <3>6. Flying(c, DOMAIN db, n + 1, k, g)
        <4>1. g \in Seq(Status) /\ DOMAIN g = Places(c, k) /\ \A i \in Places(c, k) : g[i] \in {NotValidated, Outcome(c, k, i)}
          BY <3>3, Zenon DEF Flying
        <4>2. ASSUME NEW i \in Places(c, k), Records(c, k, i)
              PROVE  \/ IdAt(c, k, i) \in DOMAIN db
                     \/ \E m \in (n + 1)..k - 1 : \E j \in Places(c, m) : Records(c, m, j) /\ IdAt(c, m, j) = IdAt(c, k, i)
                     \/ \E j \in Places(c, k) : IdAt(c, k, j) = IdAt(c, k, i) /\ g[j] = NotValidated
          <5>1. \/ IdAt(c, k, i) \in DOMAIN db
                \/ \E m \in n..k - 1 : \E j \in Places(c, m) : Records(c, m, j) /\ IdAt(c, m, j) = IdAt(c, k, i)
                \/ \E j \in Places(c, k) : IdAt(c, k, j) = IdAt(c, k, i) /\ g[j] = NotValidated
            BY <3>3, <4>2, Zenon DEF Flying
          <5> QED  BY <3>5, <5>1, Zenon
        <4> QED  BY <4>1, <4>2, Zenon DEF Flying
      <3> QED  BY <3>1, <3>2, <3>6, Zenon
    <2> QED  BY <1>3, <1>4, <1>7, <2>1, <2>2, Zenon DEF FlightInv
  <1>17. BlocksInv'
    <2>1. \A k \in DOMAIN emitted' : k \in Blocks(c) /\ \A i \in Places(c, k) : emitted'[k][i] = Outcome(c, k, i)
      <3>1. \A k \in DOMAIN emitted : k \in Blocks(c) /\ \A i \in Places(c, k) : emitted[k][i] = Outcome(c, k, i)
        BY <1>4, ZenonT(30) DEF IInv, BlocksInv
      <3>2. DOMAIN emitted' = DOMAIN emitted \cup {n}
            /\ \A k \in DOMAIN emitted' : emitted'[k] = IF k \in DOMAIN emitted THEN emitted[k] ELSE f
        BY <1>3, Zenon
      <3> QED  BY <1>7, <1>9, <3>1, <3>2, ZenonT(30)
    <2>2. TrueBlock(c, held')  BY <1>11, <1>12, Zenon
    <2> QED  BY <1>3, <1>4, <2>1, <2>2, ZenonT(30) DEF IInv, BlocksInv
  <1>18. OrderInv'
    <2>1. Incoming' = n /\ Incoming = n  BY <1>1, <1>3, <1>11, <1>12, Zenon DEF Incoming
    <2>2. commitNum' = held'.num + 1  BY <1>3, Zenon
    <2> QED  BY <1>3, <2>1, <2>2, Zenon DEF IInv, OrderInv
  <1> QED  BY <1>13, <1>14, <1>15, <1>16, <1>17, <1>18, Zenon DEF IInv

LEMMA WriteCommittedStep == ASSUME IInv, WriteCommitted, UNCHANGED chain PROVE IInv'
  <1>1. /\ pc = "relay" /\ pc' = "relay" /\ held # None /\ held' = None
        /\ UNCHANGED <<db, lastSet, sent, stray, next, recovered, fetched, inFlight, commitNum,
                       storeNext, appending, ledger, synced, stopped, emitted, stream, seen>>
    BY Zenon DEF WriteCommitted, coordinator, session, store, client
  <1>2. held \in Block /\ TrueBlock(chain, held) /\ commitNum = held.num + 1
    BY <1>1, ZenonT(30) DEF IInv, TypeOK, BlocksInv, OrderInv
  <1>3. /\ queue' \in Seq(Block) /\ queue' # <<>> /\ \A k \in DOMAIN queue' : TrueBlock(chain, queue'[k])
        /\ \A k \in DOMAIN queue' : queue'[k].num = queue'[1].num + k - 1
        /\ queue'[1].num <= storeNext /\ held.num + 1 = queue'[1].num + Len(queue')
    BY <1>1, <1>2, Enqueue, ZenonT(30) DEF WriteCommitted, Incoming
  <1>4. None \in Block  BY DEF None, Block
  <1>5. TypeOK'  BY <1>1, <1>3, <1>4, Zenon DEF IInv, TypeOK
  <1>6. DbInv' /\ SentInv'  BY <1>1, CoordinatorFrame, Zenon
  <1>7. CountInv'  BY <1>1, CountFrame, Zenon
  <1>8. FlightInv'  BY <1>1, FlightFrame, Zenon
  <1>9. BlocksInv'  BY <1>1, <1>3, ZenonT(30) DEF IInv, BlocksInv
  <1>10. OrderInv'
    <2>1. Incoming' = held.num + 1  BY <1>1, <1>2, Zenon DEF Incoming
    <2> QED  BY <1>1, <1>3, <2>1, Zenon DEF IInv, OrderInv
  <1> QED  BY <1>5, <1>6, <1>7, <1>8, <1>9, <1>10, Zenon DEF IInv

LEMMA SetLastStep == ASSUME IInv, SetLast, UNCHANGED chain PROVE IInv'
  <1>1. /\ lastSet' = commitNum - 1
        /\ UNCHANGED <<db, sent, stray, pc, next, recovered, fetched, inFlight, commitNum, held, queue,
                       storeNext, appending, ledger, synced, stopped, emitted, stream, seen>>
    BY Zenon DEF SetLast, session, relay, store, client, setLastCommittedBlockNumber
  <1>2. commitNum \in 0..Len(chain) /\ Len(chain) \in Nat  BY Numbers, Zenon DEF IInv, TypeOK
  <1>3. lastSet' \in Int /\ lastSet' >= NoBlock /\ lastSet' < Len(chain) /\ lastSet' + 1 = commitNum
    BY <1>1, <1>2 DEF NoBlock
  <1>4. TypeOK'  BY <1>1, <1>3, Zenon DEF IInv, TypeOK
  <1>5. DbInv' /\ SentInv'  BY <1>1, CoordinatorFrame, Zenon
  <1>6. CountInv'  BY <1>1, <1>3, Zenon DEF IInv, CountInv
  <1>7. FlightInv'  BY <1>1, FlightFrame, Zenon
  <1>8. BlocksInv'  BY <1>1, BlocksFrame, Zenon
  <1>9. OrderInv'  BY <1>1, Zenon DEF IInv, OrderInv, Incoming
  <1> QED  BY <1>4, <1>5, <1>6, <1>7, <1>8, <1>9, Zenon DEF IInv

-----------------------------------------------------------------------------
(* The block store *)

LEMMA TakeBlockStep == ASSUME IInv, TakeBlock, UNCHANGED chain PROVE IInv'
  <1>1. /\ appending = None /\ queue # <<>> /\ queue' = Tail(queue)
        /\ UNCHANGED <<db, lastSet, sent, stray, pc, next, recovered, fetched, inFlight, commitNum, held,
                       ledger, synced, emitted, stream, seen>>
    BY Zenon DEF TakeBlock, coordinator, session, relay, client
  <1>2. queue \in Seq(Block)  BY Zenon DEF IInv, TypeOK
  <1>3. PICK q : q = queue'  BY Zenon
  <1>4. PICK b : b = Head(queue)  BY Zenon
  <1>5. /\ q \in Seq(Block) /\ Len(q) = Len(queue) - 1 /\ Len(queue) \in Nat \ {0} /\ b = queue[1] /\ b \in Block
        /\ \A j \in DOMAIN q : j \in Nat \ {0} /\ j + 1 \in DOMAIN queue /\ q[j] = queue[j + 1]
        /\ (q = <<>> <=> Len(queue) = 1)
    BY <1>1, <1>2, <1>3, <1>4, SeqTail, SMTT(30)
  <1>6. 1 \in DOMAIN queue  BY <1>2, <1>5
  <1>7. TrueBlock(chain, b)  BY <1>5, <1>6, Zenon DEF IInv, BlocksInv
  <1>8. PICK x \in Nat : x = b.num
    <2>1. b.num \in Nat  BY <1>7, Numbers, Zenon DEF TrueBlock
    <2> QED  BY <2>1, Zenon
  <1>9. x <= storeNext /\ \A k \in DOMAIN queue : queue[k].num = x + k - 1
    BY <1>1, <1>5, <1>8, Zenon DEF IInv, OrderInv
  <1>10. storeNext = Len(ledger) /\ storeNext \in Nat  BY <1>1, Numbers DEF IInv, OrderInv
  <1>11. /\ stopped' = stopped /\ storeNext' \in Nat /\ x + 1 <= storeNext' /\ appending' \in Block
         /\ \/ storeNext' = storeNext /\ appending' = None
            \/ storeNext' = storeNext + 1 /\ appending' = b /\ x = storeNext
    <2>1. CASE x < storeNext
      <3>1. UNCHANGED <<storeNext, appending, stopped>>  BY <1>4, <1>8, <2>1, Zenon DEF TakeBlock
      <3> QED  BY <1>1, <1>8, <1>10, <2>1, <3>1, SMTT(30) DEF IInv, TypeOK
    <2>2. CASE x = storeNext
      <3>1. storeNext' = storeNext + 1 /\ appending' = b /\ UNCHANGED stopped
        BY <1>4, <1>8, <1>10, <2>2 DEF TakeBlock, accepts
      <3> QED  BY <1>5, <1>10, <2>2, <3>1
    <2> QED  BY <1>8, <1>9, <1>10, <2>1, <2>2
  <1>12. b # None  BY <1>8 DEF None
  <1>13. \A k \in DOMAIN q : q[k].num = x + k /\ TrueBlock(chain, q[k])
    <2>1. ASSUME NEW k \in DOMAIN q PROVE q[k].num = x + k /\ TrueBlock(chain, q[k])
      <3>1. k \in Nat /\ k + 1 \in DOMAIN queue /\ q[k] = queue[k + 1]  BY <1>5, Zenon
      <3>2. TrueBlock(chain, queue[k + 1])  BY <3>1, ZenonT(30) DEF IInv, BlocksInv
      <3>3. queue[k + 1].num = x + (k + 1) - 1  BY <1>9, <3>1, Zenon
      <3> QED  BY <1>8, <3>1, <3>2, <3>3
    <2> QED  BY <2>1, Zenon
  <1>14. TypeOK'  BY <1>1, <1>3, <1>5, <1>11, Zenon DEF IInv, TypeOK
  <1>15. DbInv' /\ SentInv'  BY <1>1, CoordinatorFrame, Zenon
  <1>16. CountInv'  BY <1>1, CountFrame, Zenon
  <1>17. FlightInv'  BY <1>1, FlightFrame, Zenon
  <1>18. BlocksInv'  BY <1>1, <1>3, <1>7, <1>11, <1>13, ZenonT(30) DEF IInv, BlocksInv
  <1>19. OrderInv'
    <2>1. storeNext' = Len(ledger') + (IF appending' = None THEN 0 ELSE 1)
      BY <1>1, <1>10, <1>11, <1>12
    <2>2. appending' # None => appending'.num = Len(ledger')  BY <1>1, <1>8, <1>10, <1>11, Zenon
    <2>3. q # <<>> => 1 \in DOMAIN q /\ q[1].num = x + 1
      <3>1. q # <<>> => 1 \in DOMAIN q  BY <1>5
      <3> QED  BY <1>13, <3>1, Zenon
    <2>4. \A k \in DOMAIN q : q[k].num = q[1].num + k - 1
      <3>1. ASSUME NEW k \in DOMAIN q PROVE q[k].num = q[1].num + k - 1
        <4>1. q # <<>> /\ k \in Nat  BY <1>5
        <4>2. q[k].num = x + k /\ q[1].num = x + 1  BY <1>13, <2>3, <4>1, Zenon
        <4>3. PICK y, z : y = q[k].num /\ z = q[1].num  BY Zenon
        <4>4. y = z + k - 1
          <5>1. y = x + k /\ z = x + 1  BY <4>2, <4>3, Zenon
          <5> QED  BY <1>8, <4>1, <5>1, SMTT(30)
        <4> QED  BY <4>3, <4>4, Zenon
      <3> QED  BY <3>1, Zenon
    <2>5. q # <<>> => q[1].num <= storeNext'  BY <1>11, <2>3, Zenon
    <2>6. pc \notin {"wait", "height", "start"}  BY <1>1, Zenon DEF IInv, OrderInv
    <2>7. Incoming' = Incoming  BY <1>1, Zenon DEF Incoming
    <2>8. pc \in {"fetch", "relay"} => Incoming = x + Len(queue)  BY <1>1, <1>5, <1>8, Zenon DEF IInv, OrderInv
    <2>9. pc \in {"fetch", "relay"} => IF q = <<>> THEN Incoming <= storeNext' ELSE Incoming = q[1].num + Len(q)
      <3>1. PICK z : z = Len(q) /\ z \in Nat /\ Len(queue) = z + 1  BY <1>5
      <3>2. CASE q = <<>>
        <4>1. Len(queue) = 1  BY <1>5, <3>2, Zenon
        <4> QED  BY <1>8, <1>11, <2>8, <3>2, <4>1, Zenon
      <3>3. CASE q # <<>>
        <4>1. q[1].num + Len(q) = x + 1 + z  BY <2>3, <3>1, <3>3, Zenon
        <4>2. x + (z + 1) = x + 1 + z  BY <1>8, <3>1
        <4> QED  BY <2>8, <3>1, <3>3, <4>1, <4>2, Zenon
      <3> QED  BY <3>2, <3>3, Zenon
    <2> QED  BY <1>1, <1>3, <2>1, <2>2, <2>4, <2>5, <2>6, <2>7, <2>9, ZenonT(40) DEF IInv, OrderInv
  <1> QED  BY <1>14, <1>15, <1>16, <1>17, <1>18, <1>19, Zenon DEF IInv

LEMMA AppendBlockStep == ASSUME IInv, AppendBlock, UNCHANGED chain PROVE IInv'
  <1>1. /\ appending # None /\ appending' = None /\ ledger' = Append(ledger, appending)
        /\ synced' \in {synced, Len(ledger) + 1}
        /\ UNCHANGED <<db, lastSet, sent, stray, pc, next, recovered, fetched, inFlight, commitNum, held, queue,
                       storeNext, stopped, emitted, stream, seen>>
    BY Zenon DEF AppendBlock, coordinator, session, relay, client
  <1>2. ledger \in Seq(Block) /\ appending \in Block /\ synced \in 0..Len(ledger)  BY Zenon DEF IInv, TypeOK
  <1>3. PICK l : l = ledger'  BY Zenon
  <1>4. /\ l \in Seq(Block) /\ Len(l) = Len(ledger) + 1 /\ l[Len(ledger) + 1] = appending
        /\ DOMAIN l = DOMAIN ledger \cup {Len(ledger) + 1} /\ \A j \in DOMAIN ledger : l[j] = ledger[j]
    BY <1>1, <1>2, <1>3, SeqAppend
  <1>5. appending.num = Len(ledger) /\ storeNext = Len(ledger) + 1 /\ Len(ledger) \in Nat
    BY <1>1, Numbers, Zenon DEF IInv, OrderInv
  <1>6. None \in Block  BY DEF None, Block
  <1>7. synced' \in 0..Len(l)  BY <1>1, <1>2, <1>4, <1>5
  <1>8. TypeOK'  BY <1>1, <1>3, <1>4, <1>6, <1>7, Zenon DEF IInv, TypeOK
  <1>9. DbInv' /\ SentInv'  BY <1>1, CoordinatorFrame, Zenon
  <1>10. CountInv'  BY <1>1, CountFrame, Zenon
  <1>11. FlightInv'  BY <1>1, FlightFrame, Zenon
  <1>12. BlocksInv'
    <2>1. ASSUME NEW k \in DOMAIN l PROVE l[k].num = k - 1 /\ TrueBlock(chain, l[k])
      <3>1. CASE k \in DOMAIN ledger  BY <1>4, <3>1, Zenon DEF IInv, BlocksInv
      <3>2. CASE k = Len(ledger) + 1
        <4>1. l[k] = appending /\ k - 1 = Len(ledger)  BY <1>4, <1>5, <3>2
        <4> QED  BY <1>1, <1>5, <4>1, Zenon DEF IInv, BlocksInv
      <3> QED  BY <1>4, <3>1, <3>2, Zenon
    <2> QED  BY <1>1, <1>3, <2>1, ZenonT(30) DEF IInv, BlocksInv
  <1>13. OrderInv'
    <2>1. storeNext' = Len(ledger')  BY <1>1, <1>3, <1>4, <1>5, ZenonT(40)
    <2>2. pc = "start" => next <= Len(ledger')  BY <1>3, <1>4, <1>5, Numbers DEF IInv, OrderInv
    <2>3. Incoming' = Incoming  BY <1>1, Zenon DEF Incoming
    <2>4. storeNext' = Len(ledger') + (IF appending' = None THEN 0 ELSE 1)  BY <1>1, <2>1, <1>5
    <2> QED  BY <1>1, <2>2, <2>3, <2>4, Zenon DEF IInv, OrderInv
  <1> QED  BY <1>8, <1>9, <1>10, <1>11, <1>12, <1>13, Zenon DEF IInv

-----------------------------------------------------------------------------
(* The clients, and the failures *)

\* What a client reads from the ledger is a true block.
LEMMA ReadStep ==
  ASSUME IInv, NEW n \in Nat, n < Len(ledger),
         seen' = [k \in DOMAIN seen \cup {n} |-> IF k = n THEN ledger[k + 1] ELSE seen[k]],
         stream' \in [next : Nat, stop : Int],
         UNCHANGED <<chain, coordinator, session, relay, queue, store, emitted>>
  PROVE  IInv'
  <1>1. UNCHANGED <<chain, db, lastSet, sent, stray, pc, next, recovered, fetched, inFlight, commitNum, held, queue,
                    storeNext, appending, ledger, synced, stopped, emitted>>
    BY Zenon DEF coordinator, session, relay, store
  <1>2. ledger \in Seq(Block)  BY Zenon DEF IInv, TypeOK
  <1>3. n + 1 \in DOMAIN ledger  BY <1>2
  <1>4. TrueBlock(chain, ledger[n + 1])  BY <1>3, Zenon DEF IInv, BlocksInv
  <1>5. \A k \in DOMAIN seen' : TrueBlock(chain, seen'[k])
    <2>1. ASSUME NEW k \in DOMAIN seen' PROVE TrueBlock(chain, seen'[k])
      <3>1. CASE k = n
        <4>1. seen'[k] = ledger[n + 1]  BY <3>1, Zenon
        <4> QED  BY <1>4, <4>1, Zenon
      <3>2. CASE k # n
        <4>1. k \in DOMAIN seen /\ seen'[k] = seen[k]  BY <3>2, Zenon
        <4> QED  BY <4>1, ZenonT(30) DEF IInv, BlocksInv
      <3> QED  BY <3>1, <3>2, Zenon
    <2> QED  BY <2>1, Zenon
  <1>6. BlocksInv'  BY <1>1, <1>5, ZenonT(30) DEF IInv, BlocksInv
  <1>7. TypeOK'  BY <1>1, Zenon DEF IInv, TypeOK
  <1>8. DbInv' /\ SentInv'  BY <1>1, CoordinatorFrame, Zenon
  <1>9. CountInv'  BY <1>1, CountFrame, Zenon
  <1>10. FlightInv'  BY <1>1, FlightFrame, Zenon
  <1>11. OrderInv'  BY <1>1, Zenon DEF IInv, OrderInv, Incoming
  <1> QED  BY <1>6, <1>7, <1>8, <1>9, <1>10, <1>11, Zenon DEF IInv

\* A step of the stream alone.
LEMMA StreamStep ==
  ASSUME IInv, stream' \in [next : Nat, stop : Int],
         UNCHANGED <<chain, coordinator, session, relay, queue, store, emitted, seen>>
  PROVE  IInv'
  <1>1. UNCHANGED <<chain, db, lastSet, sent, stray, pc, next, recovered, fetched, inFlight, commitNum, held, queue,
                    storeNext, appending, ledger, synced, stopped, emitted, seen>>
    BY Zenon DEF coordinator, session, relay, store
  <1>2. TypeOK'  BY <1>1, Zenon DEF IInv, TypeOK
  <1>3. DbInv' /\ SentInv'  BY <1>1, CoordinatorFrame, Zenon
  <1>4. CountInv'  BY <1>1, CountFrame, Zenon
  <1>5. FlightInv'  BY <1>1, FlightFrame, Zenon
  <1>6. BlocksInv'  BY <1>1, BlocksFrame, Zenon
  <1>7. OrderInv'  BY <1>1, Zenon DEF IInv, OrderInv, Incoming
  <1> QED  BY <1>2, <1>3, <1>4, <1>5, <1>6, <1>7, Zenon DEF IInv

LEMMA ClientStep ==
  ASSUME IInv, UNCHANGED chain,
         \/ SendBlock
         \/ \E seek \in Seeks : Deliver(seek)
         \/ \E n \in Queries.numbers : GetBlockByNumber(n)
         \/ \E id \in Queries.ids : GetBlockByTxID(id)
  PROVE  IInv'
  <1>1. stream \in [next : Nat, stop : Int]  BY Zenon DEF IInv, TypeOK
  <1>2. CASE SendBlock
    <2>1. stream.next \in Nat /\ stream.next < Len(ledger)  BY <1>1, <1>2, Zenon DEF SendBlock
    <2>2. stream' \in [next : Nat, stop : Int]
      BY <1>1, <1>2 DEF SendBlock, Idle
    <2>3. PICK n \in Nat : n = stream.next  BY <2>1, Zenon
    <2>4. seen' = [k \in DOMAIN seen \cup {n} |-> IF k = n THEN ledger[k + 1] ELSE seen[k]]
      BY <1>2, <2>3, Zenon DEF SendBlock
    <2> QED  BY <1>2, <2>1, <2>2, <2>3, <2>4, ReadStep, Zenon DEF SendBlock
  <1>3. ASSUME NEW seek \in Seeks, Deliver(seek) PROVE IInv'
    <2>1. Len(ledger) \in Nat \ {0}  BY <1>3 DEF Deliver, IInv, TypeOK
    <2>2. \A p \in Nat \cup {Oldest, Newest} : startOf(p) \in Nat  BY <2>1 DEF startOf, Oldest, Newest
    <2>3. seek.start \in Nat \cup {Oldest, Newest} /\ seek.stop \in Nat \cup {Oldest, Newest}
      BY RecoveryAssumption, Zenon
    <2>4. startOf(seek.start) \in Nat /\ startOf(seek.stop) \in Nat  BY <2>2, <2>3, ZenonT(30)
    <2>5. stream' \in [next : Nat, stop : Int]  BY <1>3, <2>4 DEF Deliver, getCursor
    <2> QED  BY <1>3, <2>5, StreamStep, ZenonT(30) DEF Deliver
  <1>4. ASSUME NEW n \in Nat, n < Len(ledger), Found(n) PROVE IInv'
    <2>1. seen' = [k \in DOMAIN seen \cup {n} |-> IF k = n THEN ledger[k + 1] ELSE seen[k]]
      BY <1>4, ZenonT(30) DEF Found
    <2> QED  BY <1>1, <1>4, <2>1, ReadStep, ZenonT(30) DEF Found
  <1>5. ASSUME NEW n \in Queries.numbers, GetBlockByNumber(n) PROVE IInv'
    <2>1. n \in Nat  BY RecoveryAssumption, Zenon
    <2> QED  BY <1>4, <1>5, <2>1, Zenon DEF GetBlockByNumber
  <1>6. ASSUME NEW id \in Queries.ids, GetBlockByTxID(id) PROVE IInv'
    <2>1. PICK n \in 0..Len(ledger) - 1 : Found(n)  BY <1>6, Zenon DEF GetBlockByTxID
    <2>2. n \in Nat /\ n < Len(ledger)  BY Numbers
    <2> QED  BY <1>4, <2>1, <2>2, Zenon
  <1> QED  BY <1>2, <1>3, <1>5, <1>6, Zenon

LEMMA SessionEndStep ==
  ASSUME IInv, SessionFails \/ CoordinatorCrash, UNCHANGED chain PROVE IInv'
  <1>1. /\ pc' = "drain" /\ held' = None /\ inFlight' = empty /\ sent' \cup stray' \subseteq sent \cup stray
        /\ UNCHANGED <<db, lastSet, next, recovered, fetched, commitNum, queue,
                       storeNext, appending, ledger, synced, stopped, emitted, stream, seen>>
    BY Zenon DEF SessionFails, CoordinatorCrash, coordinator, store, client
  <1>2. None \in Block  BY DEF None, Block
  <1>3. TypeOK'  BY <1>1, <1>2, Zenon DEF IInv, TypeOK
  <1>4. DbInv' /\ SentInv'  BY <1>1, CoordinatorFrame, Zenon
  <1>5. CountInv'  BY <1>1, CountFrame, Zenon
  <1>6. FlightInv'  BY <1>1, NoFlight, Zenon
  <1>7. BlocksInv'  BY <1>1, ZenonT(30) DEF IInv, BlocksInv
  <1>8. OrderInv'  BY <1>1, Zenon DEF IInv, OrderInv
  <1> QED  BY <1>3, <1>4, <1>5, <1>6, <1>7, <1>8, Zenon DEF IInv

LEMMA SidecarCrashStep == ASSUME IInv, SidecarCrash, UNCHANGED chain PROVE IInv'
  <1>1. PICK kept \in synced..Len(ledger) :
          ledger' = SubSeq(ledger, 1, kept) /\ storeNext' = kept /\ synced' = kept
    BY Zenon DEF SidecarCrash, newBlockStore
  <1>2. /\ pc' = "wait" /\ held' = None /\ inFlight' = empty /\ queue' = <<>> /\ appending' = None
        /\ stopped' = FALSE /\ stream' = Idle
        /\ UNCHANGED <<db, lastSet, sent, stray, next, recovered, fetched, commitNum, emitted, seen>>
    BY Zenon DEF SidecarCrash, coordinator
  <1>3. ledger \in Seq(Block) /\ kept \in Nat /\ kept <= Len(ledger)
    BY <1>1, Numbers DEF IInv, TypeOK
  <1>4. PICK l : l = ledger'  BY Zenon
  <1>5. l \in Seq(Block) /\ Len(l) = kept /\ \A k \in DOMAIN l : k \in DOMAIN ledger /\ l[k] = ledger[k]
    BY <1>1, <1>3, <1>4
  <1>6. None \in Block /\ Idle \in [next : Nat, stop : Int]  BY DEF None, Block, Idle
  <1>7. TypeOK'  BY <1>1, <1>2, <1>3, <1>4, <1>5, <1>6 DEF IInv, TypeOK
  <1>8. DbInv' /\ SentInv'  BY <1>2, CoordinatorFrame, Zenon
  <1>9. CountInv'  BY <1>2, CountFrame, Zenon
  <1>10. FlightInv'  BY <1>2, NoFlight, ZenonT(40)
  <1>11. BlocksInv'
    <2>1. \A k \in DOMAIN l : l[k].num = k - 1 /\ TrueBlock(chain, l[k])  BY <1>5, Zenon DEF IInv, BlocksInv
    <2> QED  BY <1>2, <1>4, <2>1 DEF IInv, BlocksInv
  <1>12. OrderInv'
    <2>1. storeNext' = Len(ledger') + (IF appending' = None THEN 0 ELSE 1)  BY <1>1, <1>2, <1>3, <1>4, <1>5
    <2> QED  BY <1>2, <2>1 DEF OrderInv
  <1> QED  BY <1>7, <1>8, <1>9, <1>10, <1>11, <1>12, Zenon DEF IInv

-----------------------------------------------------------------------------
LEMMA IInvStep == IInv /\ [Next]_vars => IInv'
  <1> SUFFICES ASSUME IInv, [Next]_vars PROVE IInv'  BY Zenon
  <1>1. CASE UNCHANGED vars
    BY <1>1, StreamStep, ZenonT(30) DEF vars, client, IInv, TypeOK
  <1>2. CASE Next
    <2>1. UNCHANGED chain  BY <1>2, Zenon DEF Next
    <2>2. CASE Internal
      BY <2>1, <2>2, WaitIdleStep, CheckHeightStep, AppendMissingStep, EndAttemptStep, StartRelayStep, MapBlockStep,
         TakeCommittedStep, WriteCommittedStep, SetLastStep, CommitStep, TakeBlockStep, AppendBlockStep, ClientStep,
         ZenonT(30)
         DEF Internal
    <2>3. CASE \E ref \in stray : Commit(ref)  BY <2>1, <2>3, CommitStep, Zenon
    <2>4. CASE SessionFails \/ CoordinatorCrash  BY <2>1, <2>4, SessionEndStep, Zenon
    <2>5. CASE SidecarCrash  BY <2>1, <2>5, SidecarCrashStep, Zenon
    <2> QED  BY <1>2, <2>1, <2>2, <2>3, <2>4, <2>5, ClientStep, Zenon DEF Next
  <1> QED  BY <1>1, <1>2, Zenon

\* What is proved of fillStatusesOfMissingBlock, mapBlock and the block store: whatever is
\* lost in crashes, recovered from the database or relayed again, the ledger holds the
\* blocks in order, each with the statuses it was first committed with, and so does
\* every block a client was sent.
THEOREM LedgerNeverChanges == Spec => []LedgerStable
  <1>1. IInv => LedgerStable
    <2> SUFFICES ASSUME IInv PROVE LedgerStable  BY Zenon
    <2>1. ASSUME NEW b, TrueBlock(chain, b) PROVE agrees(b)
      <3>1. ASSUME b.num \in DOMAIN emitted, NEW i \in DOMAIN b.status, Recoverable(b.num, i)
            PROVE  b.status[i] = emitted[b.num][i]
        <4>1. PICK n : n = b.num  BY Zenon
        <4>2. i \in Places(chain, n) /\ chain[n + 1][i].kind \in {"plain", "malformed"}
          BY <2>1, <3>1, <4>1, ZenonT(30) DEF TrueBlock, Recoverable, Txs
        <4>3. b.status[i] = Outcome(chain, n, i)  BY <2>1, <4>1, <4>2, Zenon DEF TrueBlock
        <4>4. emitted[n][i] = Outcome(chain, n, i)  BY <3>1, <4>1, <4>2, ZenonT(30) DEF IInv, BlocksInv
        <4> QED  BY <4>1, <4>3, <4>4, Zenon
      <3> QED  BY <3>1, Zenon DEF agrees
    <2> QED  BY <2>1, Zenon DEF IInv, BlocksInv, LedgerStable
  <1> QED  BY <1>1, IInvInit, IInvStep, PTL DEF Spec

\* What is proved of the block store: it never meets a block ahead of it, so it never
\* stops the sidecar with an error.
THEOREM StoreIsNeverBehind == Spec => []StoreNotAhead
  <1>1. IInv => StoreNotAhead
    <2> SUFFICES ASSUME IInv PROVE StoreNotAhead  BY Zenon
    <2>1. ASSUME NEW k \in DOMAIN queue PROVE queue[k].num <= storeNext + k - 1
      <3>1. queue \in Seq(Block)  BY Zenon DEF IInv, TypeOK
      <3>2. k \in Nat /\ 1 \in DOMAIN queue /\ queue # <<>>  BY <3>1
      <3>3. queue[1] \in Block  BY <3>1, <3>2, SeqElements, Zenon
      <3>4. PICK x \in Int : x = queue[1].num  BY <3>3, Zenon DEF Block
      <3>5. x <= storeNext /\ queue[k].num = x + k - 1  BY <3>2, <3>4, Zenon DEF IInv, OrderInv
      <3>6. storeNext \in Nat  BY Numbers, Zenon
      <3>7. x + k - 1 <= storeNext + k - 1  BY <3>2, <3>4, <3>5, <3>6
      <3> QED  BY <3>5, <3>7, Zenon
    <2> QED  BY <2>1, Zenon DEF IInv, TypeOK, StoreNotAhead
  <1> QED  BY <1>1, IInvInit, IInvStep, PTL DEF Spec

=============================================================================
