--------------------------- MODULE NotifierProofs ----------------------------
(***************************************************************************)
(* Proofs about the notifier, for any streams, requests, status batches,   *)
(* blocks, filters and limits: slots are exact, an accepted id is answered *)
(* once and never waits without a timer, and block streams have no gap     *)
(* before their cancellation.                                              *)
(***************************************************************************)
EXTENDS Notifier, FiniteSetTheorems, TLAPS

Answer == {"status", "timeout", "lost"}

Req == [stream : Stream, ids : Seq(TxID), pending : Int, timer : {"none", "armed", "fired", "stopped"},
        accepted : SUBSET TxID, told : SUBSET (TxID \X (Answer \cup {"rejected"}))]

Events == [stream : Stream, kind : {"status", "timeout", "rejected"},
           pairs : SUBSET ((DOMAIN req) \X TxID), patient : BOOLEAN]

Works == [writes : SUBSET Events, arm : {0} \cup DOMAIN req, block : Nat,
          streams : Seq(BlockStream), slow : BOOLEAN]

TypeOK ==
  /\ req \in Seq(Req) /\ requestQueue \in Seq(DOMAIN req)
  /\ subs \in [TxID -> SUBSET DOMAIN req] /\ availableSlots \in Int
  /\ statusQueue \in Seq(SUBSET TxID) /\ timeoutQueue \subseteq DOMAIN req
  /\ work \in Works

-----------------------------------------------------------------------------
(* The inductive invariant of requests *)

\* The goroutine is at one thing at a time.
WorkInv ==
  /\ work.streams # <<>> => work.writes = {} /\ work.arm = 0
  /\ work.slow => work.streams # <<>>
  /\ \A e \in work.writes : e.patient <=> e.kind = "rejected"

\* A request waits in the queue once, and nothing was accepted of it before.
Fresh(q, arm, r) == q[r].accepted = {} /\ q[r].timer = "none" /\ arm # r
QueueInv ==
  /\ \A i, j \in DOMAIN requestQueue : requestQueue[i] = requestQueue[j] => i = j
  /\ \A i \in DOMAIN requestQueue : Fresh(req, work.arm, requestQueue[i])

\* Subscribed ids were accepted, and accepted ids were asked for.
SubsInv == \A r \in DOMAIN req :
  Subscribed(r) \subseteq req[r].accepted /\ req[r].accepted \subseteq Elements(req[r].ids)

\* What was told, and what waits to be written, of an id of a request.
ToldOf(r, id) == {k \in Answer : <<id, k>> \in req[r].told}
WritesOf(r, id) == {e \in work.writes : <<r, id>> \in e.pairs /\ e.kind # "rejected"}

AnswerInv == \A r \in DOMAIN req : \A id \in TxID :
  IF id \in req[r].accepted \ Subscribed(r)
  THEN \/ WritesOf(r, id) = {} /\ \E k \in Answer : ToldOf(r, id) = {k}
       \/ ToldOf(r, id) = {} /\ \E e \in work.writes : WritesOf(r, id) = {e}
  ELSE ToldOf(r, id) = {} /\ WritesOf(r, id) = {}

SlotsInv == IsFiniteSet(ended(TxID)) /\ SlotsExact

\* A request that waits for an id has a timer: it runs, fired and waits in the queue,
\* or is about to be started.  Its pending counter says how many ids it waits for.
TimedInv == \A r \in DOMAIN req :
  /\ IsFiniteSet(Subscribed(r))
  /\ Subscribed(r) # {} =>
       /\ req[r].pending = Cardinality(Subscribed(r))
       /\ req[r].timer = "armed" \/ r \in timeoutQueue \/ work.arm = r

ReqInv == TypeOK /\ WorkInv /\ QueueInv /\ SubsInv /\ AnswerInv /\ SlotsInv /\ TimedInv

-----------------------------------------------------------------------------
(* The inductive invariant of block streams *)

Gots == [number : 1..Len(Blocks),
         events : {filterAndBuildEvents(b, Blocks[n]) : b \in BlockStream, n \in 1..Len(Blocks)}]

StreamRec == [st : {"new", "open", "cancelled", "stopping", "ended"}, from : Nat,
              queue : Seq(1..Len(Blocks)), got : Seq(Gots), late : BOOLEAN]

BlockType ==
  /\ next \in 1..Len(Blocks) + 1 /\ blockStreams \in Seq(BlockStream)
  /\ bs \in [BlockStream -> StreamRec]
  /\ work.streams # <<>> => work.block = next - 1 /\ next > 1

\* A registered stream is registered once.
Distinct(q) == \A i, j \in DOMAIN q : q[i] = q[j] => i = j
RegisteredInv ==
  /\ Distinct(blockStreams) /\ Distinct(work.streams)
  /\ \A b \in BlockStream : b \in Elements(blockStreams) <=> bs[b].st \in {"open", "cancelled", "stopping"}

\* The next block the queue of a stream is to get.
expected(b) == IF b \in Elements(work.streams) THEN next - 1 ELSE next

\* What a client got: a run from its first block on, but for a late last block.
GotOK(b, from, late, got) == \A i \in DOMAIN got :
  /\ IF late /\ i = Len(got) THEN got[i].number >= from + i - 1 ELSE got[i].number = from + i - 1
  /\ got[i].events = filterAndBuildEvents(b, Blocks[got[i].number])

\* What a stream got and has in its queue, when its queue is to get block e next.
RunOK(b, x, e) ==
  /\ x.st = "new" => x.from = 0
  /\ x.from = 0 => x.got = <<>> /\ x.queue = <<>>
  /\ x.st \in {"new", "open", "cancelled"} => ~x.late
  /\ x.st = "open" /\ x.from # 0 =>
       /\ x.from + Len(x.got) + Len(x.queue) = e
       /\ \A i \in DOMAIN x.queue : x.queue[i] = x.from + Len(x.got) + i - 1
  /\ x.st = "cancelled" =>
       /\ x.from # 0 /\ x.from + Len(x.got) <= e
       /\ \A i \in DOMAIN x.queue : x.queue[i] >= x.from + Len(x.got)
  /\ GotOK(b, x.from, x.late, x.got)

RunInv == \A b \in BlockStream :
  RunOK(b, bs[b], expected(b)) /\ (bs[b].from = 0 => b \notin Elements(work.streams))

BlockInv == BlockType /\ RegisteredInv /\ RunInv

-----------------------------------------------------------------------------
(* Sequences and finite sets *)

LEMMA SeqFun ==
  ASSUME NEW S, NEW n \in Nat, NEW f \in [1..n -> S]
  PROVE  f \in Seq(S) /\ Len(f) = n
  BY SMT

LEMMA SeqAt ==
  ASSUME NEW S, NEW q \in Seq(S)
  PROVE  Len(q) \in Nat /\ DOMAIN q = 1..Len(q) /\ q \in [1..Len(q) -> S]
  BY SMT

LEMMA SeqWider ==
  ASSUME NEW S, NEW T, S \subseteq T, NEW q \in Seq(S)
  PROVE  q \in Seq(T)
  BY SMT

LEMMA SeqAppend ==
  ASSUME NEW S, NEW q \in Seq(S), NEW x \in S
  PROVE  /\ Append(q, x) \in Seq(S) /\ Len(Append(q, x)) = Len(q) + 1
         /\ DOMAIN Append(q, x) = (DOMAIN q) \cup {Len(q) + 1}
         /\ \A i \in DOMAIN q : Append(q, x)[i] = q[i]
         /\ Append(q, x)[Len(q) + 1] = x
  BY SMT

LEMMA SeqTail ==
  ASSUME NEW S, NEW q \in Seq(S), q # <<>>
  PROVE  /\ Tail(q) \in Seq(S) /\ Len(Tail(q)) = Len(q) - 1 /\ (Len(q) = 1 => Tail(q) = <<>>)
         /\ Head(q) = q[1] /\ 1 \in DOMAIN q /\ Head(q) \in S
         /\ \A i \in DOMAIN Tail(q) : i + 1 \in DOMAIN q /\ Tail(q)[i] = q[i + 1]
  BY SMT

\* A record of a sequence changes at one place.
LEMMA SeqExcept ==
  ASSUME NEW S, NEW q \in Seq(S), NEW i \in DOMAIN q, NEW x \in S
  PROVE  /\ [q EXCEPT ![i] = x] \in Seq(S) /\ DOMAIN [q EXCEPT ![i] = x] = DOMAIN q
         /\ [q EXCEPT ![i] = x][i] = x
         /\ \A j \in DOMAIN q : j # i => [q EXCEPT ![i] = x][j] = q[j]
  BY SMT

LEMMA FiniteInt ==
  ASSUME NEW S, IsFiniteSet(S)
  PROVE  Cardinality(S) \in Int /\ Cardinality(S) >= 0
  BY FS_CardinalityType

LEMMA CardMinus ==
  ASSUME NEW S, NEW T, IsFiniteSet(S), T \subseteq S
  PROVE  /\ IsFiniteSet(T) /\ IsFiniteSet(S \ T)
         /\ Cardinality(S \ T) = Cardinality(S) - Cardinality(T)
  <1>1. IsFiniteSet(T)  BY FS_Subset, Zenon
  <1>2. IsFiniteSet(S \ T)  BY FS_Subset, Zenon
  <1>3. (S \ T) \cup T = S /\ (S \ T) \cap T = {}  BY Zenon
  <1>4. Cardinality(S) = Cardinality(S \ T) + Cardinality(T) - Cardinality({})  BY <1>1, <1>2, <1>3, FS_Union, Zenon
  <1>5. Cardinality(S \ T) \in Int /\ Cardinality(T) \in Int  BY <1>1, <1>2, FiniteInt, Zenon
  <1> QED  BY <1>1, <1>2, <1>4, <1>5, FS_EmptySet

LEMMA CardPlus ==
  ASSUME NEW S, NEW T, IsFiniteSet(S), IsFiniteSet(T), S \cap T = {}
  PROVE  IsFiniteSet(S \cup T) /\ Cardinality(S \cup T) = Cardinality(S) + Cardinality(T)
  <1>1. Cardinality(S) \in Int /\ Cardinality(T) \in Int  BY FiniteInt, Zenon
  <1> QED  BY <1>1, FS_Union, FS_EmptySet

\* The subscriptions of a request to a set of ids.
LEMMA PairsOf ==
  ASSUME NEW r, NEW ids, IsFiniteSet(ids)
  PROVE  /\ IsFiniteSet({<<r, id>> : id \in ids})
         /\ Cardinality({<<r, id>> : id \in ids}) = Cardinality(ids)
  <1> DEFINE P == {<<r, id>> : id \in ids}
             f == [id \in ids |-> <<r, id>>]
  <1>1. f \in Bijection(ids, P)
    <2>1. f \in [ids -> P]  BY Zenon
    <2>2. \A x, y \in ids : f[x] = f[y] => x = y  BY Zenon
    <2>3. \A p \in P : \E x \in ids : f[x] = p  BY Zenon
    <2> QED  BY <2>1, <2>2, <2>3, Zenon DEF Bijection, Injection, Surjection, IsInjective
  <1> QED  BY <1>1, FS_Bijection, Zenon DEF ExistsBijection

-----------------------------------------------------------------------------
(* Requests: the steps that leave them alone *)

LEMMA WorkRecord ==
  ASSUME NEW w \in SUBSET Events, NEW a \in {0} \cup DOMAIN req, NEW k,
         k = [writes |-> w, arm |-> a, block |-> 0, streams |-> <<>>, slow |-> FALSE]
  PROVE  k \in Works /\ k.writes = w /\ k.arm = a /\ k.streams = <<>> /\ ~k.slow
  BY DEF Works

LEMMA ReqInit == Init => ReqInv
  <1> SUFFICES ASSUME Init PROVE ReqInv  BY Zenon
  <1>0. /\ req = <<>> /\ requestQueue = <<>> /\ subs = [id \in TxID |-> {}] /\ availableSlots = MaxActiveTxIDs
        /\ statusQueue = <<>> /\ timeoutQueue = {} /\ work = Idle
    BY Zenon DEF Init
  <1>1. MaxActiveTxIDs \in Int  BY NotifierAssumption
  <1>2. req \in Seq(Req) /\ requestQueue \in Seq(DOMAIN req) /\ statusQueue \in Seq(SUBSET TxID) /\ DOMAIN req = {}
    BY <1>0
  <1>3. work \in Works
    BY <1>0 DEF Idle, Works
  <1>4. TypeOK  BY <1>0, <1>1, <1>2, <1>3, Zenon DEF TypeOK
  <1>5. WorkInv  BY <1>0, Zenon DEF WorkInv, Idle
  <1>6. QueueInv  BY <1>0 DEF QueueInv
  <1>7. SubsInv /\ AnswerInv /\ TimedInv  BY <1>2, Zenon DEF SubsInv, AnswerInv, TimedInv
  <1>8. ended(TxID) = {}  BY <1>0, Zenon DEF ended
  <1>9. SlotsInv  BY <1>0, <1>1, <1>8, FS_EmptySet DEF SlotsInv, SlotsExact
  <1> QED  BY <1>4, <1>5, <1>6, <1>7, <1>9, Zenon DEF ReqInv

\* Nothing of a request changes, nor what the goroutine has to do for it.
LEMMA Untouched ==
  ASSUME ReqInv, UNCHANGED <<req, requestQueue, subscriptions, timeoutQueue>>,
         work'.writes = work.writes, work'.arm = work.arm, TypeOK', WorkInv'
  PROVE  ReqInv'
  <1>0. UNCHANGED <<req, requestQueue, subs, availableSlots, timeoutQueue>>  BY Zenon DEF subscriptions
  <1>1. QueueInv'  BY <1>0, Zenon DEF ReqInv, QueueInv, Fresh
  <1>2. SubsInv'  BY <1>0, Zenon DEF ReqInv, SubsInv, Subscribed
  <1>3. AnswerInv'
    <2>1. \A r, id : /\ ToldOf(r, id)' = ToldOf(r, id) /\ WritesOf(r, id)' = WritesOf(r, id)
                    /\ Subscribed(r)' = Subscribed(r)
      BY <1>0, Zenon DEF ToldOf, WritesOf, Subscribed
    <2> QED  BY <1>0, <2>1 DEF ReqInv, AnswerInv
  <1>4. SlotsInv'  BY <1>0 DEF ReqInv, SlotsInv, SlotsExact, ended
  <1>5. TimedInv'  BY <1>0, Zenon DEF ReqInv, TimedInv, Subscribed
  <1> QED  BY <1>1, <1>2, <1>3, <1>4, <1>5, Zenon DEF ReqInv

LEMMA TypeAlone ==
  ASSUME TypeOK, UNCHANGED <<req, requestQueue, subscriptions, timeoutQueue>>,
         statusQueue' \in Seq(SUBSET TxID),
         work' \in Works
  PROVE  TypeOK'
  BY Zenon DEF TypeOK, subscriptions, Events, Works

LEMMA OthersStep ==
  ASSUME ReqInv, UNCHANGED <<req, requestQueue, subscriptions, timeoutQueue, work>>,
         statusQueue' \in Seq(SUBSET TxID)
  PROVE  ReqInv'
  <1>1. TypeOK'  BY TypeAlone, Zenon DEF ReqInv, TypeOK
  <1>2. WorkInv'  BY Zenon DEF ReqInv, WorkInv
  <1> QED  BY <1>1, <1>2, Untouched, Zenon

LEMMA ReportStep ==
  ASSUME ReqInv, NEW ids \in Batches, Report(ids)
  PROVE  ReqInv'
  <1>1. ids \in SUBSET TxID  BY NotifierAssumption, Zenon
  <1>2. statusQueue' \in Seq(SUBSET TxID)  BY <1>1 DEF Report, ReqInv, TypeOK
  <1> QED  BY <1>2, OthersStep, Zenon DEF Report, clients

\* The steps of the loop over the block streams.
LEMMA WorkStep ==
  ASSUME ReqInv, UNCHANGED <<req, requestQueue, subscriptions, timeoutQueue, statusQueue>>,
         work.writes = {}, work.arm = 0, work'.writes = {}, work'.arm = 0,
         work' \in Works,
         work'.slow => work'.streams # <<>>
  PROVE  ReqInv'
  <1>1. TypeOK'  BY TypeAlone, Zenon DEF ReqInv, TypeOK
  <1>2. WorkInv'  BY Zenon DEF WorkInv
  <1> QED  BY <1>1, <1>2, Untouched, Zenon

LEMMA NextStreamStep ==
  ASSUME ReqInv, work.streams # <<>>, NextStream
  PROVE  /\ work.writes = {} /\ work.arm = 0 /\ work'.writes = {} /\ work'.arm = 0 /\ ~work'.slow
         /\ work'.streams = Tail(work.streams) /\ (work'.streams # <<>> => work'.block = work.block)
         /\ work' \in Works
  <1>1. work.writes = {} /\ work.arm = 0  BY Zenon DEF ReqInv, WorkInv
  <1>2. work \in Works
    BY Zenon DEF ReqInv, TypeOK
  <1>3. Tail(work.streams) \in Seq(BlockStream) /\ (Len(work.streams) = 1 => Tail(work.streams) = <<>>)
    BY <1>2, SeqTail, Zenon DEF Works
  <1>4. CASE Len(work.streams) = 1
    <2>1. work' = Idle  BY <1>4, Zenon DEF NextStream
    <2> QED  BY <1>1, <1>3, <1>4, <2>1, Zenon DEF Idle, Works
  <1>5. CASE Len(work.streams) # 1
    <2>1. work' = [work EXCEPT !.streams = Tail(@), !.slow = FALSE]  BY <1>5, Zenon DEF NextStream
    <2> QED  BY <1>1, <1>2, <1>3, <2>1, Zenon DEF Works
  <1> QED  BY <1>4, <1>5, Zenon

LEMMA DispatchStep ==
  ASSUME ReqInv, BlockInv, dispatchBlockToStreams
  PROVE  ReqInv'
  <1>1. /\ work = Idle /\ work' = [Idle EXCEPT !.block = IF blockStreams = <<>> THEN 0 ELSE next,
                                               !.streams = blockStreams]
        /\ UNCHANGED <<req, requestQueue, subscriptions, timeoutQueue, statusQueue>>
    BY Zenon DEF dispatchBlockToStreams, clients
  <1>2. next \in Nat /\ blockStreams \in Seq(BlockStream)
    <2>1. Len(Blocks) \in Nat  BY NotifierAssumption
    <2> QED  BY <2>1 DEF BlockInv, BlockType
  <1>3. work'.writes = {} /\ work'.arm = 0 /\ work'.slow = FALSE /\ work.writes = {} /\ work.arm = 0
    BY <1>1, Zenon DEF Idle
  <1>4. work' \in Works
    BY <1>1, <1>2, Zenon DEF Idle, Works
  <1> QED  BY <1>1, <1>3, <1>4, WorkStep, Zenon

LEMMA LoopStep ==
  ASSUME ReqInv, SendBlock \/ SendBlockTimesOut \/ CancelSlowStream
  PROVE  ReqInv'
  <1>1. UNCHANGED <<req, requestQueue, subscriptions, timeoutQueue, statusQueue>> /\ work.streams # <<>>
    BY Zenon DEF SendBlock, SendBlockTimesOut, CancelSlowStream, clients, ReqInv, WorkInv
  <1>2. CASE SendBlockTimesOut
    <2>1. work' = [work EXCEPT !.slow = TRUE]  BY <1>2, Zenon DEF SendBlockTimesOut
    <2>2. work \in Works
      BY Zenon DEF ReqInv, TypeOK
    <2>3. work.writes = {} /\ work.arm = 0  BY <1>1, Zenon DEF ReqInv, WorkInv
    <2> QED  BY <1>1, <2>1, <2>2, <2>3, WorkStep, Zenon DEF Works
  <1>3. CASE NextStream
    BY <1>1, <1>3, NextStreamStep, WorkStep, Zenon
  <1> QED  BY <1>2, <1>3, Zenon DEF SendBlock, CancelSlowStream

-----------------------------------------------------------------------------
(* Requests are received and handled *)

LEMMA ReqAt ==
  ASSUME TypeOK, NEW r \in DOMAIN req
  PROVE  /\ req[r] \in Req /\ r \in Nat \ {0} /\ r <= Len(req) /\ Len(req) \in Nat
         /\ req[r].ids \in Seq(TxID) /\ req[r].stream \in Stream /\ req[r].pending \in Int
         /\ req[r].accepted \subseteq TxID
  <1>1. req \in Seq(Req)  BY Zenon DEF TypeOK
  <1>2. req[r] \in Req /\ r \in Nat \ {0} /\ r <= Len(req) /\ Len(req) \in Nat  BY <1>1, SeqAt
  <1> QED  BY <1>2, Zenon DEF Req

LEMMA RequestStep ==
  ASSUME ReqInv, NEW s \in Stream, NEW ids \in Asks, Request(s, ids)
  PROVE  ReqInv'
  <1> DEFINE x == [stream |-> s, ids |-> ids, pending |-> 0, timer |-> "none", accepted |-> {}, told |-> {}]
  <1>0. TypeOK /\ WorkInv /\ QueueInv  BY Zenon DEF ReqInv
  <1>1. /\ req' = Append(req, x) /\ requestQueue' = Append(requestQueue, Len(req) + 1)
        /\ UNCHANGED <<subs, availableSlots, statusQueue, timeoutQueue, work>>
    BY Zenon DEF Request, subscriptions
  <1>2. x \in Req  BY NotifierAssumption DEF Req
  <1> HIDE DEF x
  <1>3. PICK n \in Nat : n = Len(req) + 1 /\ n \notin DOMAIN req /\ n # 0
    <2>1. Len(req) \in Nat /\ DOMAIN req = 1..Len(req)  BY <1>0, SeqAt, Zenon DEF TypeOK
    <2> QED  BY <2>1
  <1>4. /\ req' \in Seq(Req) /\ DOMAIN req' = (DOMAIN req) \cup {n} /\ req'[n] = x
        /\ \A r \in DOMAIN req : req'[r] = req[r]
    BY <1>0, <1>1, <1>2, <1>3, SeqAppend DEF TypeOK
  <1>5. /\ x.accepted = {} /\ x.told = {} /\ x.timer = "none"  BY Zenon DEF x
  <1>6. \A id \in TxID : n \notin subs[id]  BY <1>0, <1>3, Zenon DEF TypeOK
  <1>7. \A r : Subscribed(r)' = Subscribed(r)  BY <1>1, Zenon DEF Subscribed
  <1>8. Subscribed(n) = {}  BY <1>6, Zenon DEF Subscribed
  <1>9. /\ requestQueue \in Seq(DOMAIN req') /\ requestQueue' = Append(requestQueue, n)
        /\ requestQueue' \in Seq(DOMAIN req')
    <2>1. requestQueue \in Seq(DOMAIN req')  BY <1>0, <1>4, SeqWider, Zenon DEF TypeOK
    <2>2. n \in DOMAIN req'  BY <1>4, Zenon
    <2>3. Append(requestQueue, n) \in Seq(DOMAIN req')  BY <2>1, <2>2, SeqAppend, Zenon
    <2> QED  BY <1>1, <1>3, <2>1, <2>3, Zenon
  <1>10. Events \subseteq Events'  BY <1>4, Zenon DEF Events
  <1>11. TypeOK'
    <2>1. subs' \in [TxID -> SUBSET DOMAIN req'] /\ timeoutQueue' \subseteq DOMAIN req'
      BY <1>0, <1>1, <1>4, Zenon DEF TypeOK
    <2>2. work' \in Works'
      BY <1>0, <1>1, <1>4, <1>10, Zenon DEF TypeOK, Works
    <2> QED  BY <1>0, <1>1, <1>4, <1>9, <2>1, <2>2, Zenon DEF TypeOK
  <1>12. WorkInv'  BY <1>0, <1>1, Zenon DEF WorkInv
  <1>13. QueueInv'
    <2>1. \A i \in DOMAIN requestQueue : requestQueue[i] \in DOMAIN req /\ requestQueue[i] # n
      BY <1>0, <1>3, SeqAt DEF TypeOK
    <2>2. work.arm # n  BY <1>0, <1>3, Zenon DEF TypeOK, Works
    <2>3. Fresh(req', work'.arm, n)  BY <1>1, <1>4, <1>5, <2>2, Zenon DEF Fresh
    <2>4. \A i \in DOMAIN requestQueue : Fresh(req', work'.arm, requestQueue[i])
      BY <1>0, <1>1, <1>4, <2>1, Zenon DEF QueueInv, Fresh
    <2>5. PICK m : m = Len(requestQueue) + 1 /\ m \notin DOMAIN requestQueue
                   /\ DOMAIN requestQueue' = (DOMAIN requestQueue) \cup {m} /\ requestQueue'[m] = n
                   /\ \A i \in DOMAIN requestQueue : requestQueue'[i] = requestQueue[i]
      BY <1>4, <1>9, SeqAppend, SeqAt
    <2>6. \A i \in DOMAIN requestQueue' : Fresh(req', work'.arm, requestQueue'[i])  BY <2>3, <2>4, <2>5, Zenon
    <2>7. \A i, j \in DOMAIN requestQueue' : requestQueue'[i] = requestQueue'[j] => i = j
      BY <1>0, <2>1, <2>5, Zenon DEF QueueInv
    <2> QED  BY <2>6, <2>7, Zenon DEF QueueInv
  <1>14. SubsInv'  BY <1>4, <1>5, <1>7, <1>8, Zenon DEF ReqInv, SubsInv
  <1>15. AnswerInv'
    <2>1. ASSUME NEW id \in TxID PROVE ToldOf(n, id)' = {} /\ WritesOf(n, id)' = {}
      <3>1. \A e \in work.writes : <<n, id>> \notin e.pairs  BY <1>0, <1>3, Zenon DEF TypeOK, Events, Works
      <3> QED  BY <1>1, <1>4, <1>5, <3>1, Zenon DEF ToldOf, WritesOf
    <2>2. \A r \in DOMAIN req : \A id \in TxID : ToldOf(r, id)' = ToldOf(r, id) /\ WritesOf(r, id)' = WritesOf(r, id)
      BY <1>1, <1>4, Zenon DEF ToldOf, WritesOf
    <2> QED  BY <1>1, <1>4, <1>5, <1>7, <2>1, <2>2, SMTT(30) DEF ReqInv, AnswerInv
  <1>16. SlotsInv'  BY <1>1 DEF ReqInv, SlotsInv, SlotsExact, ended
  <1>17. TimedInv'
    BY <1>1, <1>4, <1>7, <1>8, FS_EmptySet, Zenon DEF ReqInv, TimedInv
  <1> QED  BY <1>11, <1>12, <1>13, <1>14, <1>15, <1>16, <1>17, Zenon DEF ReqInv

\* Each position that takes a slot has an id of its own.
LEMMA TakenFacts ==
  ASSUME TypeOK, NEW r \in DOMAIN req
  PROVE  LET added == {req[r].ids[i] : i \in taken(r)}
         IN /\ IsFiniteSet(added) /\ IsFiniteSet(taken(r)) /\ Cardinality(added) = Cardinality(taken(r))
            /\ added \subseteq Elements(req[r].ids) /\ added \subseteq TxID
  <1> DEFINE ids == req[r].ids
             T == taken(r)
             A == {ids[i] : i \in T}
             f == [i \in T |-> ids[i]]
  <1>1. ids \in Seq(TxID) /\ DOMAIN ids = 1..Len(ids) /\ Len(ids) \in Nat  BY ReqAt, SeqAt, Zenon
  <1>2. T \subseteq DOMAIN ids  BY Zenon DEF taken, newIn
  <1>3. IsFiniteSet(T)
    <2>1. \A n \in Nat : IsFiniteSet(1..n)  BY FS_Interval
    <2> QED  BY <1>1, <1>2, <2>1, FS_Subset, Zenon
  <1>4. \A i, j \in T : ids[i] = ids[j] => i = j
    <2>1. \A i \in T : i \in Nat /\ \A j \in 1..(i - 1) : ids[j] # ids[i]
      BY <1>1, <1>2 DEF taken, newIn, isNew
    <2> QED  BY <2>1, <1>1, <1>2
  <1>5. f \in Bijection(T, A)
    <2>1. f \in [T -> A]  BY Zenon
    <2>2. \A x, y \in T : f[x] = f[y] => x = y  BY <1>4, Zenon
    <2>3. \A a \in A : \E x \in T : f[x] = a  BY Zenon
    <2> QED  BY <2>1, <2>2, <2>3, Zenon DEF Bijection, Injection, Surjection, IsInjective
  <1>6. IsFiniteSet(A) /\ Cardinality(A) = Cardinality(T)  BY <1>3, <1>5, FS_Bijection, Zenon DEF ExistsBijection
  <1>7. A \subseteq Elements(ids) /\ A \subseteq TxID  BY <1>1, <1>2 DEF Elements
  <1> QED  BY <1>3, <1>6, <1>7, Zenon

\* The request at the head of the queue waits nowhere else.
LEMMA HeadFacts ==
  ASSUME ReqInv, requestQueue # <<>>
  PROVE  LET r == Head(requestQueue)
         IN /\ r \in DOMAIN req /\ Fresh(req, work.arm, r) /\ Subscribed(r) = {}
            /\ Tail(requestQueue) \in Seq(DOMAIN req)
            /\ \A i, j \in DOMAIN Tail(requestQueue) : Tail(requestQueue)[i] = Tail(requestQueue)[j] => i = j
            /\ \A i \in DOMAIN Tail(requestQueue) :
                 Tail(requestQueue)[i] # r /\ Fresh(req, work.arm, Tail(requestQueue)[i])
  <1>1. requestQueue \in Seq(DOMAIN req) /\ QueueInv  BY Zenon DEF ReqInv, TypeOK
  <1>2. PICK t : t = Tail(requestQueue)  BY Zenon
  <1>3. /\ t \in Seq(DOMAIN req) /\ Head(requestQueue) = requestQueue[1] /\ 1 \in DOMAIN requestQueue
        /\ Head(requestQueue) \in DOMAIN req
        /\ \A i \in DOMAIN t : i + 1 \in DOMAIN requestQueue /\ t[i] = requestQueue[i + 1]
    BY <1>1, <1>2, SeqTail, Zenon
  <1>4. DOMAIN t \subseteq Nat \ {0}  BY <1>3, SeqAt
  <1>5. \A i, j \in DOMAIN t : t[i] = t[j] => i = j
    <2> TAKE i, j \in DOMAIN t
    <2>1. t[i] = t[j] => i + 1 = j + 1  BY <1>1, <1>3, ZenonT(40) DEF QueueInv
    <2> QED  BY <1>4, <2>1
  <1>6. \A i \in DOMAIN t : t[i] # Head(requestQueue) /\ Fresh(req, work.arm, t[i])
    <2> TAKE i \in DOMAIN t
    <2>1. i + 1 # 1  BY <1>4
    <2> QED  BY <1>1, <1>3, <2>1, Zenon DEF QueueInv
  <1>7. Fresh(req, work.arm, Head(requestQueue))  BY <1>1, <1>3 DEF QueueInv
  <1>8. Subscribed(Head(requestQueue)) = {}  BY <1>3, <1>7, Zenon DEF ReqInv, SubsInv, Fresh
  <1> QED  BY <1>2, <1>3, <1>5, <1>6, <1>7, <1>8, Zenon

LEMMA RejectionType ==
  ASSUME TypeOK, NEW r \in DOMAIN req, NEW ids \in SUBSET TxID
  PROVE  /\ rejection(r, ids) \in Events /\ rejection(r, ids).kind = "rejected"
         /\ rejection(r, ids).patient
  <1>1. req[r].stream \in Stream  BY ReqAt, Zenon
  <1> QED  BY <1>1 DEF rejection, Event, Events

\* A request over its own limit is rejected as a whole.
LEMMA RejectStep ==
  ASSUME ReqInv, HandleRequest, Len(req[Head(requestQueue)].ids) > MaxTxIDsPerRequest
  PROVE  ReqInv'
  <1>1. PICK r : r = Head(requestQueue)  BY Zenon
  <1>2. PICK e : e = rejection(r, Elements(req[r].ids))  BY Zenon
  <1>3. /\ work = Idle /\ requestQueue # <<>> /\ requestQueue' = Tail(requestQueue)
        /\ work' = [Idle EXCEPT !.writes = {e}]
        /\ UNCHANGED <<req, subs, availableSlots, statusQueue, timeoutQueue>>
    BY <1>1, <1>2, Zenon DEF HandleRequest, subscriptions
  <1>4. TypeOK /\ r \in DOMAIN req  BY <1>1, <1>3, HeadFacts, Zenon DEF ReqInv
  <1>5. Elements(req[r].ids) \subseteq TxID  BY <1>4, ReqAt, SeqAt DEF Elements
  <1>6. e \in Events /\ e.kind = "rejected" /\ e.patient  BY <1>2, <1>4, <1>5, RejectionType, Zenon
  <1>7. /\ work'.writes = {e} /\ work'.arm = 0 /\ work'.streams = <<>> /\ ~work'.slow
        /\ work.writes = {} /\ work.arm = 0 /\ work' \in Works
    <2>0. PICK w \in SUBSET Events : w = {e}  BY <1>6, Zenon
    <2>1. work' = [writes |-> w, arm |-> 0, block |-> 0, streams |-> <<>>, slow |-> FALSE]
      BY <1>3, <2>0, Zenon DEF Idle
    <2>2. work.writes = {} /\ work.arm = 0  BY <1>3, Zenon DEF Idle
    <2>3. 0 \in {0} \cup DOMAIN req  BY Zenon
    <2>4. work' \in Works /\ work'.writes = w /\ work'.arm = 0 /\ work'.streams = <<>> /\ ~work'.slow
      BY <2>1, <2>3, WorkRecord
    <2> QED  BY <2>0, <2>2, <2>4, Zenon
  <1>8. TypeOK'  BY <1>1, <1>3, <1>4, <1>7, HeadFacts, Zenon DEF TypeOK, Events, Works
  <1>9. WorkInv'  BY <1>6, <1>7, Zenon DEF WorkInv
  <1>10. QueueInv'  BY <1>3, <1>7, HeadFacts, Zenon DEF QueueInv
  <1>11. SubsInv'  BY <1>3, Zenon DEF ReqInv, SubsInv, Subscribed
  <1>12. AnswerInv'
    <2>1. \A q, id : /\ ToldOf(q, id)' = ToldOf(q, id) /\ WritesOf(q, id)' = {} /\ WritesOf(q, id) = {}
                     /\ Subscribed(q)' = Subscribed(q)
      BY <1>3, <1>6, <1>7, Zenon DEF ToldOf, WritesOf, Subscribed
    <2> QED  BY <1>3, <1>7, <2>1 DEF ReqInv, AnswerInv
  <1>13. SlotsInv'  BY <1>3 DEF ReqInv, SlotsInv, SlotsExact, ended
  <1>14. TimedInv'  BY <1>3, <1>7, <1>4, Zenon DEF ReqInv, TimedInv, Subscribed, TypeOK
  <1> QED  BY <1>8, <1>9, <1>10, <1>11, <1>12, <1>13, <1>14, ZenonT(40) DEF ReqInv

\* A request gets the slots there are.
LEMMA AcceptStep ==
  ASSUME ReqInv, HandleRequest, ~(Len(req[Head(requestQueue)].ids) > MaxTxIDsPerRequest)
  PROVE  ReqInv'
  <1>1. PICK r : r = Head(requestQueue)  BY Zenon
  <1>2. PICK T : T = taken(r)  BY Zenon
  <1>3. PICK A : A = {req[r].ids[i] : i \in taken(r)}  BY Zenon
  <1>4. PICK c : c = Cardinality(T)  BY Zenon
  <1>5. /\ work = Idle /\ requestQueue # <<>> /\ requestQueue' = Tail(requestQueue)
        /\ UNCHANGED <<statusQueue, timeoutQueue>>
    BY Zenon DEF HandleRequest
  <1>6. /\ subs' = [id \in TxID |-> IF id \in A THEN subs[id] \cup {r} ELSE subs[id]]
        /\ availableSlots' = availableSlots - c
        /\ req' = [req EXCEPT ![r].pending = c, ![r].accepted = {id \in TxID : r \in subs'[id]}]
        /\ work' = [Idle EXCEPT !.arm = IF c > 0 THEN r ELSE 0,
                                !.writes = IF rejected(r) = {} THEN {} ELSE {rejection(r, rejected(r))}]
    <2>1. PICK a : a = addRequest(r)  BY Zenon
    <2>2. /\ subs' = a.subs /\ availableSlots' = a.slots
          /\ req' = [req EXCEPT ![r].pending = a.pending, ![r].accepted = {id \in TxID : r \in a.subs[id]}]
          /\ work' = [Idle EXCEPT !.arm = armed(r, a),
                                  !.writes = IF a.rejected = {} THEN {} ELSE {rejection(r, a.rejected)}]
      BY <1>1, <2>1, Zenon DEF HandleRequest
    <2>3. /\ a.subs = [id \in TxID |-> IF id \in A THEN subs[id] \cup {r} ELSE subs[id]]
          /\ a.slots = availableSlots - c /\ a.pending = c /\ a.rejected = rejected(r)
      BY <1>2, <1>3, <1>4, <2>1, Zenon DEF addRequest
    <2>4. armed(r, a) = IF c > 0 THEN r ELSE 0  BY <2>3, Zenon DEF armed
    <2> QED  BY <2>2, <2>3, <2>4, Zenon
  <1>7. /\ TypeOK /\ r \in DOMAIN req /\ Subscribed(r) = {} /\ req[r].timer = "none"
        /\ req[r].accepted = {}
    BY <1>1, <1>5, HeadFacts, Zenon DEF ReqInv, Fresh
  <1>8. /\ IsFiniteSet(A) /\ Cardinality(A) = c /\ c \in Int /\ c >= 0
        /\ A \subseteq Elements(req[r].ids) /\ A \subseteq TxID /\ (A = {} <=> c = 0)
    BY <1>2, <1>3, <1>4, <1>7, TakenFacts, FiniteInt, FS_EmptySet, ZenonT(40)
  <1>9. \A id \in TxID : r \notin subs[id] /\ subs[id] \subseteq DOMAIN req
    BY <1>7, Zenon DEF Subscribed, TypeOK
  <1>10. /\ Subscribed(r)' = A /\ \A q \in DOMAIN req : q # r => Subscribed(q)' = Subscribed(q)
         /\ {id \in TxID : r \in subs'[id]} = A
    BY <1>6, <1>8, <1>9, Zenon DEF Subscribed
  <1>11. PICK x : x = [req[r] EXCEPT !.pending = c, !.accepted = A]  BY Zenon
  <1>12. /\ x \in Req /\ x.accepted = A /\ x.pending = c /\ x.ids = req[r].ids
         /\ x.told = req[r].told /\ x.timer = "none"
    BY <1>7, <1>8, <1>11, ReqAt, Zenon DEF Req
  <1>13. req' = [req EXCEPT ![r] = x]  BY <1>6, <1>10, <1>11, Zenon
  <1>14. /\ req' \in Seq(Req) /\ DOMAIN req' = DOMAIN req /\ req'[r] = x
         /\ \A q \in DOMAIN req : q # r => req'[q] = req[q]
    BY <1>7, <1>12, <1>13, SeqExcept, Zenon DEF TypeOK
  <1>15. rejected(r) \subseteq TxID  BY <1>7, ReqAt, SeqAt DEF rejected
  <1>16. /\ work' \in Works
         /\ work'.arm = (IF c > 0 THEN r ELSE 0) /\ work'.streams = <<>> /\ ~work'.slow
         /\ \A e \in work'.writes : e.kind = "rejected" /\ e.patient
         /\ work.writes = {} /\ work.arm = 0
    <2>1. PICK w : w = IF rejected(r) = {} THEN {} ELSE {rejection(r, rejected(r))}  BY Zenon
    <2>2. w \subseteq Events /\ \A e \in w : e.kind = "rejected" /\ e.patient
      BY <1>7, <1>15, <2>1, RejectionType, ZenonT(40)
    <2>3. work' = [writes |-> w, arm |-> IF c > 0 THEN r ELSE 0, block |-> 0, streams |-> <<>>, slow |-> FALSE]
      BY <1>6, <2>1, Zenon DEF Idle
    <2>4. (IF c > 0 THEN r ELSE 0) \in {0} \cup DOMAIN req  BY <1>7, Zenon
    <2>5. work.writes = {} /\ work.arm = 0  BY <1>5, Zenon DEF Idle
    <2>6. /\ work' \in Works /\ work'.writes = w /\ work'.arm = (IF c > 0 THEN r ELSE 0)
          /\ work'.streams = <<>> /\ ~work'.slow
      BY <2>2, <2>3, <2>4, WorkRecord, Zenon
    <2> QED  BY <2>2, <2>5, <2>6, Zenon
  <1>17. TypeOK'
    <2>1. subs' \in [TxID -> SUBSET DOMAIN req']
      <3>1. \A id \in TxID : (IF id \in A THEN subs[id] \cup {r} ELSE subs[id]) \subseteq DOMAIN req'
        BY <1>7, <1>9, <1>14, Zenon
      <3> QED  BY <1>6, <3>1, Zenon
    <2>2. availableSlots' \in Int
      <3>1. availableSlots \in Int  BY <1>7, Zenon DEF TypeOK
      <3> QED  BY <1>6, <1>8, <3>1
    <2>3. requestQueue' \in Seq(DOMAIN req')  BY <1>5, <1>14, HeadFacts, Zenon
    <2>4. Events' = Events  BY <1>14, Zenon DEF Events
    <2> QED  BY <1>5, <1>7, <1>14, <1>16, <2>1, <2>2, <2>3, <2>4, ZenonT(40) DEF TypeOK, Works
  <1>18. WorkInv'  BY <1>16, Zenon DEF WorkInv
  <1>19. QueueInv'
    <2>1. \A i \in DOMAIN requestQueue' : requestQueue'[i] # r /\ requestQueue'[i] \in DOMAIN req
      BY <1>1, <1>5, HeadFacts, SeqAt, ZenonT(40)
    <2>2. \A i \in DOMAIN requestQueue' : Fresh(req, work.arm, requestQueue'[i])  BY <1>5, HeadFacts, Zenon
    <2>3. \A i \in DOMAIN requestQueue' : Fresh(req', work'.arm, requestQueue'[i])
      BY <1>14, <1>16, <2>1, <2>2, Zenon DEF Fresh
    <2>4. \A i, j \in DOMAIN requestQueue' : requestQueue'[i] = requestQueue'[j] => i = j  BY <1>5, HeadFacts, Zenon
    <2> QED  BY <2>3, <2>4, Zenon DEF QueueInv
  <1>20. SubsInv'
    <2>1. SubsInv  BY Zenon DEF ReqInv
    <2> QED  BY <1>8, <1>10, <1>12, <1>14, <2>1, ZenonT(40) DEF SubsInv
  <1>21. AnswerInv'
    <2>1. \A q \in DOMAIN req : \A id : /\ ToldOf(q, id)' = ToldOf(q, id)
                                        /\ WritesOf(q, id)' = {} /\ WritesOf(q, id) = {}
      BY <1>12, <1>14, <1>16, Zenon DEF ToldOf, WritesOf
    <2>2. \A id \in TxID : ToldOf(r, id) = {}  BY <1>7, Zenon DEF ReqInv, AnswerInv
    <2>3. AnswerInv  BY Zenon DEF ReqInv
    <2> QED  BY <1>10, <1>12, <1>14, <1>16, <2>1, <2>2, <2>3 DEF AnswerInv
  <1>22. SlotsInv'
    <2>1. PICK P : P = {<<r, id>> : id \in A}  BY Zenon
    <2>2. ended(TxID)' = ended(TxID) \cup P  BY <1>6, <1>8, <2>1 DEF ended
    <2>3. ended(TxID) \cap P = {}  BY <1>9, <2>1 DEF ended
    <2>4. IsFiniteSet(P) /\ Cardinality(P) = c  BY <1>8, <2>1, PairsOf, Zenon
    <2>5. IsFiniteSet(ended(TxID)) /\ availableSlots + Cardinality(ended(TxID)) = MaxActiveTxIDs
      BY Zenon DEF ReqInv, SlotsInv, SlotsExact
    <2>6. IsFiniteSet(ended(TxID)') /\ Cardinality(ended(TxID)') = Cardinality(ended(TxID)) + c
      BY <2>2, <2>3, <2>4, <2>5, CardPlus, ZenonT(40)
    <2>7. availableSlots \in Int /\ Cardinality(ended(TxID)) \in Int  BY <1>7, <2>5, FiniteInt, Zenon DEF TypeOK
    <2>8. availableSlots' + Cardinality(ended(TxID)') = MaxActiveTxIDs  BY <1>6, <1>8, <2>5, <2>6, <2>7, SMTT(30)
    <2> QED  BY <2>6, <2>8, Zenon DEF SlotsInv, SlotsExact
  <1>23. TimedInv'
    <2>1. TimedInv  BY Zenon DEF ReqInv
    <2>2. r # 0 /\ \A q \in DOMAIN req : q # 0  BY <1>7, ReqAt, Zenon
    <2> QED  BY <1>5, <1>8, <1>10, <1>12, <1>14, <1>16, <2>1, <2>2, SMTT(30) DEF TimedInv
  <1> QED  BY <1>17, <1>18, <1>19, <1>20, <1>21, <1>22, <1>23, ZenonT(40) DEF ReqInv

LEMMA HandleStep ==
  ASSUME ReqInv, HandleRequest
  PROVE  ReqInv'
  BY RejectStep, AcceptStep, Zenon

-----------------------------------------------------------------------------
(* Timers *)

\* Timers and counters change, and nothing else of the requests.
LEMMA AnswersKept ==
  ASSUME ReqInv, DOMAIN req' = DOMAIN req, UNCHANGED <<subs, availableSlots>>, work'.writes = work.writes,
         \A r \in DOMAIN req : /\ req'[r].accepted = req[r].accepted /\ req'[r].ids = req[r].ids
                               /\ req'[r].told = req[r].told
  PROVE  SubsInv' /\ AnswerInv' /\ SlotsInv'
  <1>1. \A r : Subscribed(r)' = Subscribed(r)  BY Zenon DEF Subscribed
  <1>2. SubsInv'  BY <1>1, Zenon DEF ReqInv, SubsInv
  <1>3. \A r \in DOMAIN req : \A id : ToldOf(r, id)' = ToldOf(r, id) /\ WritesOf(r, id)' = WritesOf(r, id)
    BY Zenon DEF ToldOf, WritesOf
  <1>4. AnswerInv'  BY <1>1, <1>3 DEF ReqInv, AnswerInv
  <1>5. SlotsInv'  BY DEF ReqInv, SlotsInv, SlotsExact, ended
  <1> QED  BY <1>2, <1>4, <1>5, Zenon

LEMMA WithTimer ==
  ASSUME NEW y \in Req, NEW t \in {"armed", "fired"}, NEW x, x = [y EXCEPT !.timer = t]
  PROVE  /\ x \in Req /\ x.timer = t /\ x.accepted = y.accepted /\ x.ids = y.ids
         /\ x.told = y.told /\ x.pending = y.pending
  BY Zenon DEF Req

LEMMA TimerFacts ==
  ASSUME TypeOK, NEW r \in DOMAIN req, NEW x \in Req, req' = [req EXCEPT ![r] = x],
         x.accepted = req[r].accepted, x.ids = req[r].ids, x.told = req[r].told, x.pending = req[r].pending
  PROVE  /\ req' \in Seq(Req) /\ DOMAIN req' = DOMAIN req /\ req'[r] = x
         /\ \A q \in DOMAIN req : q # r => req'[q] = req[q]
         /\ \A q \in DOMAIN req : /\ req'[q].accepted = req[q].accepted /\ req'[q].ids = req[q].ids
                                  /\ req'[q].told = req[q].told /\ req'[q].pending = req[q].pending
  <1>1. req \in Seq(Req)  BY Zenon DEF TypeOK
  <1>2. /\ req' \in Seq(Req) /\ DOMAIN req' = DOMAIN req /\ req'[r] = x
        /\ \A q \in DOMAIN req : q # r => req'[q] = req[q]
    BY <1>1, SeqExcept, Zenon
  <1> QED  BY <1>2, Zenon

LEMMA StartTimerStep ==
  ASSUME ReqInv, StartTimer
  PROVE  ReqInv'
  <1>1. PICK r : r = work.arm  BY Zenon
  <1>2. /\ r # 0 /\ work.writes = {} /\ work' = Idle /\ req' = [req EXCEPT ![r].timer = "armed"]
        /\ UNCHANGED <<requestQueue, subs, availableSlots, statusQueue, timeoutQueue>>
    BY <1>1, Zenon DEF StartTimer, clients, subscriptions
  <1>3. TypeOK /\ QueueInv /\ TimedInv  BY Zenon DEF ReqInv
  <1>4. r \in DOMAIN req  BY <1>1, <1>2, <1>3, Zenon DEF TypeOK, Works
  <1>5. /\ req' \in Seq(Req) /\ DOMAIN req' = DOMAIN req /\ req'[r].timer = "armed"
        /\ \A q \in DOMAIN req : q # r => req'[q] = req[q]
        /\ \A q \in DOMAIN req : /\ req'[q].accepted = req[q].accepted /\ req'[q].ids = req[q].ids
                                 /\ req'[q].told = req[q].told /\ req'[q].pending = req[q].pending
    <2>1. PICK x : x = [req[r] EXCEPT !.timer = "armed"]  BY Zenon
    <2>2. /\ x \in Req /\ x.timer = "armed" /\ x.accepted = req[r].accepted /\ x.ids = req[r].ids
          /\ x.told = req[r].told /\ x.pending = req[r].pending
      BY <1>3, <1>4, <2>1, ReqAt, WithTimer
    <2>3. req' = [req EXCEPT ![r] = x]  BY <1>2, <2>1, Zenon
    <2> QED  BY <1>3, <1>4, <2>2, <2>3, TimerFacts, Zenon
  <1>6. work'.writes = {} /\ work'.arm = 0 /\ work'.streams = <<>> /\ ~work'.slow /\ work' \in Works
    BY <1>2 DEF Idle, Works
  <1>7. TypeOK'
    <2>1. Works' = Works  BY <1>5, Zenon DEF Works, Events
    <2> QED  BY <1>2, <1>3, <1>5, <1>6, <2>1, Zenon DEF TypeOK
  <1>8. WorkInv'  BY <1>6, Zenon DEF WorkInv
  <1>9. QueueInv'
    <2>1. \A i \in DOMAIN requestQueue : requestQueue[i] # r /\ requestQueue[i] # 0 /\ requestQueue[i] \in DOMAIN req
      BY <1>1, <1>3, SeqAt, ReqAt DEF QueueInv, Fresh, TypeOK
    <2> QED  BY <1>2, <1>3, <1>5, <1>6, <2>1 DEF QueueInv, Fresh
  <1>10. SubsInv' /\ AnswerInv' /\ SlotsInv'  BY <1>2, <1>5, <1>6, AnswersKept, ZenonT(40)
  <1>11. TimedInv'
    <2>1. \A q : Subscribed(q)' = Subscribed(q)  BY <1>2, Zenon DEF Subscribed
    <2> QED  BY <1>1, <1>2, <1>3, <1>5, <2>1 DEF TimedInv
  <1> QED  BY <1>7, <1>8, <1>9, <1>10, <1>11, Zenon DEF ReqInv

LEMMA FireTimerStep ==
  ASSUME ReqInv, NEW r \in DOMAIN req, FireTimer(r)
  PROVE  ReqInv'
  <1>2. /\ req[r].timer = "armed" /\ req' = [req EXCEPT ![r].timer = "fired"]
        /\ timeoutQueue' = timeoutQueue \cup {r}
        /\ UNCHANGED <<requestQueue, subs, availableSlots, statusQueue, work>>
    BY Zenon DEF FireTimer, clients, subscriptions
  <1>3. TypeOK /\ QueueInv /\ TimedInv /\ WorkInv  BY Zenon DEF ReqInv
  <1>5. /\ req' \in Seq(Req) /\ DOMAIN req' = DOMAIN req
        /\ \A q \in DOMAIN req : q # r => req'[q] = req[q]
        /\ \A q \in DOMAIN req : /\ req'[q].accepted = req[q].accepted /\ req'[q].ids = req[q].ids
                                 /\ req'[q].told = req[q].told /\ req'[q].pending = req[q].pending
    <2>1. PICK x : x = [req[r] EXCEPT !.timer = "fired"]  BY Zenon
    <2>2. /\ x \in Req /\ x.accepted = req[r].accepted /\ x.ids = req[r].ids
          /\ x.told = req[r].told /\ x.pending = req[r].pending
      BY <1>3, <2>1, ReqAt, WithTimer
    <2>3. req' = [req EXCEPT ![r] = x]  BY <1>2, <2>1, Zenon
    <2> QED  BY <1>3, <2>2, <2>3, TimerFacts, Zenon
  <1>7. TypeOK'
    <2>1. Works' = Works  BY <1>5, Zenon DEF Works, Events
    <2> QED  BY <1>2, <1>3, <1>5, <2>1, Zenon DEF TypeOK
  <1>8. WorkInv'  BY <1>2, <1>3, Zenon DEF WorkInv
  <1>9. QueueInv'
    <2>1. \A i \in DOMAIN requestQueue : requestQueue[i] # r /\ requestQueue[i] \in DOMAIN req
      BY <1>2, <1>3, SeqAt DEF QueueInv, Fresh, TypeOK
    <2> QED  BY <1>2, <1>3, <1>5, <2>1, ZenonT(40) DEF QueueInv, Fresh
  <1>10. SubsInv' /\ AnswerInv' /\ SlotsInv'  BY <1>2, <1>5, AnswersKept, Zenon
  <1>11. TimedInv'
    <2>1. \A q : Subscribed(q)' = Subscribed(q)  BY <1>2, Zenon DEF Subscribed
    <2> QED  BY <1>2, <1>3, <1>5, <2>1, ZenonT(40) DEF TimedInv
  <1> QED  BY <1>7, <1>8, <1>9, <1>10, <1>11, ZenonT(40) DEF ReqInv

-----------------------------------------------------------------------------
(* Events are written *)

\* An event leaves the goroutine, and its requests are told of it.
LEMMA ToldStep ==
  ASSUME ReqInv, NEW e \in work.writes, NEW kind \in Answer \cup {"rejected"},
         kind = "rejected" <=> e.kind = "rejected",
         req' = Told(e, kind), work' = [work EXCEPT !.writes = @ \ {e}],
         UNCHANGED <<requestQueue, subscriptions, statusQueue, timeoutQueue>>
  PROVE  ReqInv'
  <1>0. UNCHANGED <<requestQueue, subs, availableSlots, statusQueue, timeoutQueue>>  BY Zenon DEF subscriptions
  <1>1. TypeOK /\ WorkInv /\ QueueInv /\ SubsInv /\ AnswerInv /\ SlotsInv /\ TimedInv  BY Zenon DEF ReqInv
  <1>2. e \in Events /\ work \in Works  BY <1>1, Zenon DEF TypeOK, Works
  <1>3. /\ work' \in Works /\ work'.writes = work.writes \ {e} /\ work'.arm = work.arm
        /\ work'.streams = work.streams /\ work'.slow = work.slow
    BY <1>2, Zenon DEF Works
  <1>4. /\ DOMAIN req' = DOMAIN req
        /\ \A r \in DOMAIN req :
             req'[r] = [req[r] EXCEPT !.told = @ \cup {<<p[2], kind>> : p \in OfRequest(r, e.pairs)}]
    BY Zenon DEF Told
  <1>5. ASSUME NEW r \in DOMAIN req
        PROVE  /\ req'[r] \in Req /\ req'[r].accepted = req[r].accepted /\ req'[r].ids = req[r].ids
               /\ req'[r].pending = req[r].pending /\ req'[r].timer = req[r].timer
               /\ req'[r].told = req[r].told \cup {<<p[2], kind>> : p \in OfRequest(r, e.pairs)}
    <2>1. {<<p[2], kind>> : p \in OfRequest(r, e.pairs)} \subseteq TxID \X (Answer \cup {"rejected"})
      BY <1>2 DEF OfRequest, Events
    <2>2. req[r] \in Req  BY <1>1, ReqAt, Zenon
    <2> QED  BY <1>4, <2>1, <2>2, SMTT(30) DEF Req
  <1>6. req' \in Seq(Req)
    <2>1. PICK n \in Nat : DOMAIN req = 1..n  BY <1>1, SeqAt, Zenon DEF TypeOK
    <2>2. req' = [r \in 1..n |-> req'[r]]  BY <2>1, Zenon DEF Told
    <2>3. req' \in [1..n -> Req]  BY <1>5, <2>1, <2>2, Zenon
    <2> QED  BY <2>3, SeqFun, Zenon
  <1>7. TypeOK'
    <2>1. Works' = Works  BY <1>4, Zenon DEF Works, Events
    <2> QED  BY <1>0, <1>1, <1>3, <1>4, <1>6, <2>1, ZenonT(40) DEF TypeOK
  <1>8. WorkInv'  BY <1>1, <1>3, Zenon DEF WorkInv
  <1>9. QueueInv'
    <2>1. \A i \in DOMAIN requestQueue : requestQueue[i] \in DOMAIN req  BY <1>1, SeqAt DEF TypeOK
    <2> QED  BY <1>0, <1>1, <1>3, <1>5, <2>1 DEF QueueInv, Fresh
  <1>10. \A r : Subscribed(r)' = Subscribed(r)  BY <1>0, Zenon DEF Subscribed
  <1>11. SubsInv'  BY <1>1, <1>4, <1>5, <1>10, Zenon DEF SubsInv
  <1>12. AnswerInv'
    <2>1. ASSUME NEW r \in DOMAIN req, NEW id \in TxID
          PROVE  /\ WritesOf(r, id)' = WritesOf(r, id) \ {e}
                 /\ ToldOf(r, id)' = ToldOf(r, id) \cup
                      (IF <<r, id>> \in e.pairs /\ kind # "rejected" THEN {kind} ELSE {})
                 /\ e \in WritesOf(r, id) <=> <<r, id>> \in e.pairs /\ kind # "rejected"
      <3>1. WritesOf(r, id)' = WritesOf(r, id) \ {e}  BY <1>3, Zenon DEF WritesOf
      <3>2. e \in WritesOf(r, id) <=> <<r, id>> \in e.pairs /\ kind # "rejected"  BY Zenon DEF WritesOf
      <3>3. ASSUME NEW k
            PROVE  <<id, k>> \in {<<p[2], kind>> : p \in OfRequest(r, e.pairs)} <=> k = kind /\ <<r, id>> \in e.pairs
        BY <1>2 DEF OfRequest, Events
      <3>4. \A k \in Answer : k # "rejected"  BY Zenon DEF Answer
      <3>5. kind # "rejected" => kind \in Answer  BY Zenon
      <3>6. ToldOf(r, id)' = ToldOf(r, id) \cup
                      (IF <<r, id>> \in e.pairs /\ kind # "rejected" THEN {kind} ELSE {})
        BY <1>5, <3>3, <3>4, <3>5, ZenonT(40) DEF ToldOf
      <3> QED  BY <3>1, <3>2, <3>6, Zenon
    <2>2. ASSUME NEW r \in DOMAIN req, NEW id \in TxID
          PROVE  IF id \in req'[r].accepted \ Subscribed(r)'
                 THEN \/ WritesOf(r, id)' = {} /\ \E k \in Answer : ToldOf(r, id)' = {k}
                      \/ ToldOf(r, id)' = {} /\ \E f \in work'.writes : WritesOf(r, id)' = {f}
                 ELSE ToldOf(r, id)' = {} /\ WritesOf(r, id)' = {}
      <3>1. IF id \in req[r].accepted \ Subscribed(r)
            THEN \/ WritesOf(r, id) = {} /\ \E k \in Answer : ToldOf(r, id) = {k}
                 \/ ToldOf(r, id) = {} /\ \E f \in work.writes : WritesOf(r, id) = {f}
            ELSE ToldOf(r, id) = {} /\ WritesOf(r, id) = {}
        BY <1>1, Zenon DEF AnswerInv
      <3>2. CASE <<r, id>> \in e.pairs /\ kind # "rejected"
        <4>1. kind \in Answer  BY <3>2, Zenon
        <4>2. e \in WritesOf(r, id)  BY <2>1, <3>2, Zenon
        <4>3. id \in req[r].accepted \ Subscribed(r) /\ ToldOf(r, id) = {} /\ WritesOf(r, id) = {e}
          BY <3>1, <4>2, Zenon
        <4>4. WritesOf(r, id)' = {} /\ ToldOf(r, id)' = {kind}  BY <2>1, <3>2, <4>3, Zenon
        <4> QED  BY <1>5, <1>10, <4>1, <4>3, <4>4, ZenonT(40)
      <3>3. CASE ~(<<r, id>> \in e.pairs /\ kind # "rejected")
        <4>1. e \notin WritesOf(r, id)  BY <2>1, <3>3, Zenon
        <4>2. WritesOf(r, id)' = WritesOf(r, id) /\ ToldOf(r, id)' = ToldOf(r, id)
          <5>1. WritesOf(r, id)' = WritesOf(r, id) \ {e} /\ ToldOf(r, id)' = ToldOf(r, id) \cup {}
            BY <2>1, <3>3, Zenon
          <5> QED  BY <4>1, <5>1, Zenon
        <4>3. \A f \in work.writes : WritesOf(r, id) = {f} => f \in work'.writes
          BY <1>3, <4>1, Zenon
        <4> QED  BY <1>5, <1>10, <3>1, <4>2, <4>3, ZenonT(40)
      <3> QED  BY <3>2, <3>3, Zenon
    <2> QED  BY <1>4, <2>2, Zenon DEF AnswerInv
  <1>13. SlotsInv'  BY <1>0, <1>1 DEF SlotsInv, SlotsExact, ended
  <1>14. TimedInv'  BY <1>0, <1>1, <1>3, <1>4, <1>5, <1>10, ZenonT(40) DEF TimedInv
  <1> QED  BY <1>7, <1>8, <1>9, <1>11, <1>12, <1>13, <1>14, Zenon DEF ReqInv

LEMMA WriteStep ==
  ASSUME ReqInv, NEW e \in work.writes, Write(e) \/ WriteTimesOut(e)
  PROVE  ReqInv'
  <1>1. e.kind \in Answer \cup {"rejected"} /\ (e.patient <=> e.kind = "rejected")
    BY Zenon DEF ReqInv, TypeOK, Works, Events, WorkInv, Answer
  <1>2. "lost" \in Answer \cup {"rejected"} /\ "lost" # "rejected"  BY Zenon DEF Answer
  <1>3. UNCHANGED <<requestQueue, subscriptions, statusQueue, timeoutQueue>>
    BY Zenon DEF Write, WriteTimesOut, clients
  <1>4. CASE Write(e)  BY <1>1, <1>3, <1>4, ToldStep, ZenonT(40) DEF Write
  <1>5. CASE WriteTimesOut(e)  BY <1>1, <1>2, <1>3, <1>5, ToldStep, ZenonT(40) DEF WriteTimesOut
  <1> QED  BY <1>4, <1>5, Zenon

-----------------------------------------------------------------------------
(* Subscriptions end *)

LEMMA EndedFacts ==
  ASSUME TypeOK, NEW ids \in SUBSET TxID
  PROVE  /\ \A r, id : <<r, id>> \in ended(ids) <=> id \in ids /\ r \in subs[id]
         /\ \A p \in ended(ids) : p = <<p[1], p[2]>> /\ p[2] \in ids /\ p[1] \in subs[p[2]]
         /\ ended(ids) \subseteq (DOMAIN req) \X TxID /\ ended(ids) \subseteq ended(TxID)
  <1>1. \A r, id : <<r, id>> \in ended(ids) <=> id \in ids /\ r \in subs[id]  BY DEF ended
  <1>2. \A p \in ended(ids) : \E id \in ids : \E r \in subs[id] : p = <<r, id>>  BY Zenon DEF ended
  <1>3. \A p \in ended(ids) : p = <<p[1], p[2]>> /\ p[2] \in ids /\ p[1] \in subs[p[2]]  BY <1>2
  <1>4. \A id \in ids : subs[id] \subseteq DOMAIN req  BY Zenon DEF TypeOK
  <1>5. ended(ids) \subseteq (DOMAIN req) \X TxID  BY <1>3, <1>4
  <1>6. ended(ids) \subseteq ended(TxID)  BY DEF ended
  <1> QED  BY <1>1, <1>3, <1>5, <1>6, ZenonT(40)

\* Slots come back with the subscriptions that end.
LEMMA SlotsBack ==
  ASSUME ReqInv, NEW hit, hit \subseteq ended(TxID), ended(TxID)' = ended(TxID) \ hit,
         NEW c, c = Cardinality(hit), availableSlots' = availableSlots + c
  PROVE  SlotsInv' /\ IsFiniteSet(hit) /\ availableSlots' \in Int
  <1>1. IsFiniteSet(ended(TxID)) /\ availableSlots + Cardinality(ended(TxID)) = MaxActiveTxIDs
    BY Zenon DEF ReqInv, SlotsInv, SlotsExact
  <1>2. /\ IsFiniteSet(hit) /\ IsFiniteSet(ended(TxID)')
        /\ Cardinality(ended(TxID)') = Cardinality(ended(TxID)) - c
    BY <1>1, CardMinus, Zenon
  <1>3. availableSlots \in Int /\ Cardinality(ended(TxID)) \in Int /\ c \in Int
    BY <1>1, <1>2, FiniteInt, Zenon DEF ReqInv, TypeOK
  <1>4. availableSlots' + Cardinality(ended(TxID)') = MaxActiveTxIDs  BY <1>1, <1>2, <1>3
  <1> QED  BY <1>2, <1>3, <1>4 DEF SlotsInv, SlotsExact

LEMMA HitsOf ==
  ASSUME ReqInv, NEW ids \in SUBSET TxID, NEW r \in DOMAIN req
  PROVE  /\ OfRequest(r, ended(ids)) = {<<r, id>> : id \in Subscribed(r) \cap ids}
         /\ Cardinality(OfRequest(r, ended(ids))) = Cardinality(Subscribed(r) \cap ids)
         /\ IsFiniteSet(Subscribed(r) \cap ids) /\ IsFiniteSet(Subscribed(r) \ ids)
         /\ Cardinality(Subscribed(r) \ ids) = Cardinality(Subscribed(r)) - Cardinality(Subscribed(r) \cap ids)
         /\ Cardinality(Subscribed(r)) \in Int /\ Cardinality(Subscribed(r) \cap ids) \in Int
  <1>0. TypeOK  BY Zenon DEF ReqInv
  <1>1. \A id : id \in Subscribed(r) \cap ids <=> id \in ids /\ r \in subs[id]  BY Zenon DEF Subscribed
  <1>2. OfRequest(r, ended(ids)) = {<<r, id>> : id \in Subscribed(r) \cap ids}
    <2>1. \A p \in OfRequest(r, ended(ids)) : p = <<r, p[2]>> /\ p[2] \in Subscribed(r) \cap ids
      BY <1>0, <1>1, EndedFacts DEF OfRequest
    <2>2. \A id \in Subscribed(r) \cap ids : <<r, id>> \in OfRequest(r, ended(ids))
      BY <1>0, <1>1, EndedFacts, Zenon DEF OfRequest
    <2> QED  BY <2>1, <2>2, Zenon
  <1>3. IsFiniteSet(Subscribed(r))  BY Zenon DEF ReqInv, TimedInv
  <1>4. PICK S : S = Subscribed(r)  BY Zenon
  <1>5. PICK T : T = S \cap ids  BY Zenon
  <1>6. /\ IsFiniteSet(T) /\ IsFiniteSet(S \ T) /\ Cardinality(S \ T) = Cardinality(S) - Cardinality(T)
        /\ Cardinality(S) \in Int /\ Cardinality(T) \in Int /\ S \ T = S \ ids
    BY <1>3, <1>4, <1>5, CardMinus, FiniteInt, ZenonT(40)
  <1>7. PICK P : P = {<<r, id>> : id \in T}  BY Zenon
  <1>8. Cardinality(P) = Cardinality(T)
    <2>1. IsFiniteSet(T)  BY <1>6, Zenon
    <2> QED  BY <1>7, <2>1, PairsOf, Zenon
  <1>9. OfRequest(r, ended(ids)) = P  BY <1>2, <1>4, <1>5, <1>7, ZenonT(40)
  <1> QED  BY <1>2, <1>4, <1>5, <1>6, <1>8, <1>9, ZenonT(40)

LEMMA StatusStep ==
  ASSUME ReqInv, removeAndEnqueueStatusEvents
  PROVE  ReqInv'
  <1>1. PICK ids : ids = Head(statusQueue)  BY Zenon
  <1>2. PICK hit : hit = ended(ids)  BY Zenon
  <1>3. /\ work = Idle /\ statusQueue # <<>> /\ statusQueue' = Tail(statusQueue)
        /\ subs' = [id \in TxID |-> IF id \in ids THEN {} ELSE subs[id]]
        /\ availableSlots' = availableSlots + Cardinality(hit)
        /\ UNCHANGED <<requestQueue, timeoutQueue>>
    BY <1>1, <1>2, Zenon DEF removeAndEnqueueStatusEvents, clients
  <1>4. /\ DOMAIN req' = DOMAIN req /\ req' = [r \in DOMAIN req |-> req'[r]]
        /\ \A r \in DOMAIN req :
             LET left == req[r].pending - Cardinality(OfRequest(r, hit))
             IN req'[r] = [req[r] EXCEPT !.pending = left,
                                         !.timer = IF OfRequest(r, hit) # {} /\ left = 0 /\ @ = "armed"
                                                   THEN "stopped" ELSE @]
    BY <1>1, <1>2, Zenon DEF removeAndEnqueueStatusEvents
  <1>5. work' = [Idle EXCEPT !.writes = {Event(s, "status", OfStream(s, hit), FALSE) :
                                          s \in {req[p[1]].stream : p \in hit}}]
    BY <1>1, <1>2, Zenon DEF removeAndEnqueueStatusEvents
  <1>6. TypeOK /\ QueueInv /\ SubsInv /\ AnswerInv /\ TimedInv  BY Zenon DEF ReqInv
  <1>7. ids \in SUBSET TxID /\ Tail(statusQueue) \in Seq(SUBSET TxID)
    BY <1>1, <1>3, <1>6, SeqTail, ZenonT(40) DEF TypeOK
  <1>8. /\ \A r, id : <<r, id>> \in hit <=> id \in ids /\ r \in subs[id]
        /\ hit \subseteq (DOMAIN req) \X TxID /\ hit \subseteq ended(TxID)
    BY <1>2, <1>6, <1>7, EndedFacts, ZenonT(40)
  <1>9. \A r : Subscribed(r)' = Subscribed(r) \ ids  BY <1>3, Zenon DEF Subscribed
  <1>10. ASSUME NEW r \in DOMAIN req
         PROVE  /\ req'[r] \in Req /\ req'[r].accepted = req[r].accepted /\ req'[r].ids = req[r].ids
                /\ req'[r].told = req[r].told
                /\ req'[r].pending = req[r].pending - Cardinality(Subscribed(r) \cap ids)
                /\ req'[r].timer # req[r].timer =>
                     req[r].timer = "armed" /\ Subscribed(r) \cap ids # {} /\ req'[r].pending = 0
    <2>1. PICK n : n = req[r].pending - Cardinality(Subscribed(r) \cap ids)  BY Zenon
    <2>2. req[r] \in Req /\ req[r].pending \in Int  BY <1>6, ReqAt, Zenon
    <2>3. /\ n \in Int /\ Cardinality(OfRequest(r, hit)) = Cardinality(Subscribed(r) \cap ids)
          /\ OfRequest(r, hit) = {<<r, id>> : id \in Subscribed(r) \cap ids}
      <3>1. /\ Cardinality(OfRequest(r, hit)) = Cardinality(Subscribed(r) \cap ids)
            /\ OfRequest(r, hit) = {<<r, id>> : id \in Subscribed(r) \cap ids}
            /\ Cardinality(Subscribed(r) \cap ids) \in Int
        BY <1>2, <1>7, HitsOf, ZenonT(40)
      <3>2. n \in Int  BY <2>1, <2>2, <3>1
      <3> QED  BY <3>1, <3>2, Zenon
    <2>4. PICK t : t = IF OfRequest(r, hit) # {} /\ n = 0 /\ req[r].timer = "armed" THEN "stopped" ELSE req[r].timer
      BY Zenon
    <2>5. t \in {"none", "armed", "fired", "stopped"}  BY <2>2, <2>4, Zenon DEF Req
    <2>6. req'[r] = [req[r] EXCEPT !.pending = n, !.timer = t]  BY <1>4, <2>1, <2>3, <2>4, Zenon
    <2>7. /\ req'[r] \in Req /\ req'[r].pending = n /\ req'[r].accepted = req[r].accepted
          /\ req'[r].ids = req[r].ids /\ req'[r].told = req[r].told /\ req'[r].timer = t
      <3>1. PICK x : x = req'[r]  BY Zenon
      <3>2. PICK y \in Req : y = req[r]  BY <2>2, Zenon
      <3>3. x = [y EXCEPT !.pending = n, !.timer = t]  BY <2>6, <3>1, <3>2, Zenon
      <3>4. /\ x \in Req /\ x.pending = n /\ x.accepted = y.accepted /\ x.ids = y.ids /\ x.told = y.told
            /\ x.timer = t
        <4>1. n \in Int  BY <2>3, Zenon
        <4> QED  BY <2>5, <3>3, <4>1, Zenon DEF Req
      <3> QED  BY <3>1, <3>2, <3>4, Zenon
    <2>8. t # req[r].timer => req[r].timer = "armed" /\ Subscribed(r) \cap ids # {} /\ n = 0  BY <2>3, <2>4, Zenon
    <2> QED  BY <2>1, <2>7, <2>8, ZenonT(40)
  <1>11. req' \in Seq(Req)
    <2>1. PICK n \in Nat : DOMAIN req = 1..n  BY <1>6, SeqAt, Zenon DEF TypeOK
    <2>2. req' \in [1..n -> Req]  BY <1>4, <1>10, <2>1, Zenon
    <2> QED  BY <2>2, SeqFun, Zenon
  <1>12. PICK W : W = {Event(s, "status", OfStream(s, hit), FALSE) : s \in {req[p[1]].stream : p \in hit}}
    BY Zenon
  <1>13. W \in SUBSET Events /\ \A e \in W : e.kind = "status" /\ ~e.patient
    <2>1. \A p \in hit : req[p[1]].stream \in Stream  BY <1>6, <1>8, ReqAt, Zenon
    <2>2. ASSUME NEW e \in W PROVE e \in Events /\ e.kind = "status" /\ ~e.patient
      <3>1. PICK s \in {req[p[1]].stream : p \in hit} : e = Event(s, "status", OfStream(s, hit), FALSE)
        BY <1>12, Zenon
      <3>2. s \in Stream  BY <2>1, Zenon
      <3>3. OfStream(s, hit) \subseteq (DOMAIN req) \X TxID  BY <1>8, Zenon DEF OfStream
      <3> QED  BY <3>1, <3>2, <3>3, ZenonT(40) DEF Event, Events
    <2> QED  BY <2>2, Zenon
  <1>14. /\ work' \in Works /\ work'.writes = W /\ work'.arm = 0 /\ work'.streams = <<>> /\ ~work'.slow
         /\ work.writes = {} /\ work.arm = 0
    <2>1. work' = [writes |-> W, arm |-> 0, block |-> 0, streams |-> <<>>, slow |-> FALSE]
      BY <1>5, <1>12, Zenon DEF Idle
    <2>2. 0 \in {0} \cup DOMAIN req  BY Zenon
    <2>3. work.writes = {} /\ work.arm = 0  BY <1>3, Zenon DEF Idle
    <2>4. work' \in Works /\ work'.writes = W /\ work'.arm = 0 /\ work'.streams = <<>> /\ ~work'.slow
      BY <1>13, <2>1, <2>2, WorkRecord, ZenonT(40)
    <2> QED  BY <2>3, <2>4, Zenon
  <1>15. ended(TxID)' = ended(TxID) \ hit
    <2>1. \A r, id : <<r, id>> \in ended(TxID)' <=> id \in TxID /\ r \in subs'[id]  BY DEF ended
    <2>2. \A p \in ended(TxID)' : p = <<p[1], p[2]>>  BY DEF ended
    <2>3. \A r, id : <<r, id>> \in ended(TxID) <=> id \in TxID /\ r \in subs[id]  BY DEF ended
    <2>4. \A p \in ended(TxID) : p = <<p[1], p[2]>>  BY DEF ended
    <2>5. \A r, id : <<r, id>> \in ended(TxID)' <=> <<r, id>> \in ended(TxID) \ hit
      BY <1>3, <1>8, <2>1, <2>3, ZenonT(40)
    <2> QED  BY <2>2, <2>4, <2>5
  <1>16. SlotsInv' /\ availableSlots' \in Int  BY <1>3, <1>8, <1>15, SlotsBack, ZenonT(40)
  <1>17. TypeOK'
    <2>1. Works' = Works  BY <1>4, Zenon DEF Works, Events
    <2>2. subs' \in [TxID -> SUBSET DOMAIN req']  BY <1>3, <1>4, <1>6, ZenonT(40) DEF TypeOK
    <2> QED  BY <1>3, <1>4, <1>6, <1>7, <1>11, <1>14, <1>16, <2>1, <2>2, ZenonT(40) DEF TypeOK
  <1>18. WorkInv'  BY <1>13, <1>14, Zenon DEF WorkInv
  <1>19. QueueInv'
    <2>1. \A i \in DOMAIN requestQueue : requestQueue[i] \in DOMAIN req  BY <1>6, SeqAt DEF TypeOK
    <2>2. ASSUME NEW r \in DOMAIN req, Fresh(req, work.arm, r) PROVE Fresh(req', work'.arm, r)
      <3>1. req'[r].accepted = {}  BY <1>10, <2>2, Zenon DEF Fresh
      <3>2. req'[r].timer = "none"  BY <1>10, <2>2, Zenon DEF Fresh
      <3> QED  BY <1>14, <2>2, <3>1, <3>2, ZenonT(40) DEF Fresh
    <2> QED  BY <1>3, <1>6, <2>1, <2>2, ZenonT(40) DEF QueueInv
  <1>20. SubsInv'  BY <1>4, <1>6, <1>9, <1>10, ZenonT(40) DEF SubsInv
  <1>21. AnswerInv'
    <2>1. ASSUME NEW r \in DOMAIN req, NEW id \in TxID
          PROVE  IF id \in req'[r].accepted \ Subscribed(r)'
                 THEN \/ WritesOf(r, id)' = {} /\ \E k \in Answer : ToldOf(r, id)' = {k}
                      \/ ToldOf(r, id)' = {} /\ \E f \in work'.writes : WritesOf(r, id)' = {f}
                 ELSE ToldOf(r, id)' = {} /\ WritesOf(r, id)' = {}
      <3>1. IF id \in req[r].accepted \ Subscribed(r)
            THEN \/ WritesOf(r, id) = {} /\ \E k \in Answer : ToldOf(r, id) = {k}
                 \/ ToldOf(r, id) = {} /\ \E f \in work.writes : WritesOf(r, id) = {f}
            ELSE ToldOf(r, id) = {} /\ WritesOf(r, id) = {}
        BY <1>6, Zenon DEF AnswerInv
      <3>2. ToldOf(r, id)' = ToldOf(r, id)  BY <1>10, Zenon DEF ToldOf
      <3>3. WritesOf(r, id)' = {e \in W : <<r, id>> \in e.pairs}  BY <1>13, <1>14, Zenon DEF WritesOf
      <3>4. CASE <<r, id>> \in hit
        <4>1. PICK s : s = req[r].stream  BY Zenon
        <4>2. PICK f : f = Event(s, "status", OfStream(s, hit), FALSE)  BY Zenon
        <4>3. f \in W
          <5>1. s \in {req[p[1]].stream : p \in hit}  BY <3>4, <4>1
          <5> QED  BY <1>12, <4>2, <5>1, ZenonT(40)
        <4>4. <<r, id>> \in f.pairs  BY <3>4, <4>1, <4>2, ZenonT(40) DEF Event, OfStream
        <4>5. ASSUME NEW e \in W, <<r, id>> \in e.pairs PROVE e = f
          <5>1. PICK t \in {req[p[1]].stream : p \in hit} : e = Event(t, "status", OfStream(t, hit), FALSE)
            BY <1>12, Zenon
          <5>2. e.pairs = OfStream(t, hit)  BY <5>1, Zenon DEF Event
          <5>3. t = s  BY <4>1, <4>5, <5>2, ZenonT(40) DEF OfStream
          <5> QED  BY <4>2, <5>1, <5>3, ZenonT(40)
        <4>6. WritesOf(r, id)' = {f}  BY <3>3, <4>3, <4>4, <4>5, ZenonT(40)
        <4>7. id \in Subscribed(r) /\ id \in ids  BY <1>8, <3>4, Zenon DEF Subscribed
        <4>8. ToldOf(r, id) = {} /\ id \in req[r].accepted  BY <1>6, <3>1, <4>7, ZenonT(40) DEF SubsInv
        <4> QED  BY <1>9, <1>10, <1>14, <3>2, <4>3, <4>6, <4>7, <4>8, ZenonT(40)
      <3>5. CASE <<r, id>> \notin hit
        <4>1. \A e \in W : <<r, id>> \notin e.pairs
          <5> TAKE e \in W
          <5>1. PICK t \in {req[p[1]].stream : p \in hit} : e = Event(t, "status", OfStream(t, hit), FALSE)
            BY <1>12, Zenon
          <5>2. e.pairs = OfStream(t, hit)  BY <5>1, Zenon DEF Event
          <5> QED  BY <3>5, <5>2, Zenon DEF OfStream
        <4>2. WritesOf(r, id)' = {} /\ WritesOf(r, id) = {}  BY <1>14, <3>3, <4>1, Zenon DEF WritesOf
        <4>3. id \in Subscribed(r)' <=> id \in Subscribed(r)  BY <1>8, <1>9, <3>5, ZenonT(40) DEF Subscribed
        <4> QED  BY <1>10, <1>14, <3>1, <3>2, <4>2, <4>3, ZenonT(40)
      <3> QED  BY <3>4, <3>5, Zenon
    <2> QED  BY <1>4, <2>1, Zenon DEF AnswerInv
  <1>22. TimedInv'
    <2>1. ASSUME NEW r \in DOMAIN req
          PROVE  /\ IsFiniteSet(Subscribed(r)')
                 /\ Subscribed(r)' # {} =>
                      /\ req'[r].pending = Cardinality(Subscribed(r)')
                      /\ req'[r].timer = "armed" \/ r \in timeoutQueue' \/ work'.arm = r
      <3>1. /\ IsFiniteSet(Subscribed(r) \ ids) /\ Cardinality(Subscribed(r)) \in Int
            /\ Cardinality(Subscribed(r) \ ids) = Cardinality(Subscribed(r)) - Cardinality(Subscribed(r) \cap ids)
        BY <1>7, HitsOf, Zenon
      <3>2. PICK S : S = Subscribed(r)'  BY Zenon
      <3>3. S = Subscribed(r) \ ids /\ IsFiniteSet(S)  BY <1>9, <3>1, <3>2, Zenon
      <3>4. ASSUME S # {}
            PROVE  req'[r].pending = Cardinality(S) /\ (req'[r].timer = "armed" \/ r \in timeoutQueue)
        <4>1. Subscribed(r) # {}  BY <3>3, <3>4, Zenon
        <4>2. req[r].pending = Cardinality(Subscribed(r))  BY <1>6, <4>1, Zenon DEF TimedInv
        <4>3. req[r].timer = "armed" \/ r \in timeoutQueue  BY <1>6, <1>14, <4>1, ReqAt, Zenon DEF TimedInv
        <4>4. req'[r].pending = Cardinality(S)  BY <1>10, <3>1, <3>3, <4>2, ZenonT(40)
        <4>5. Cardinality(S) # 0  BY <3>3, <3>4, FS_EmptySet, Zenon
        <4> QED  BY <1>10, <4>3, <4>4, <4>5, Zenon
      <3> QED  BY <1>3, <3>2, <3>3, <3>4, ZenonT(40)
    <2> QED  BY <1>4, <2>1, Zenon DEF TimedInv
  <1> QED  BY <1>16, <1>17, <1>18, <1>19, <1>20, <1>21, <1>22, ZenonT(40) DEF ReqInv

LEMMA TimeoutStep ==
  ASSUME ReqInv, NEW r \in timeoutQueue, removeAndEnqueueTimeoutEvents(r)
  PROVE  ReqInv'
  <1>1. PICK ids : ids = unanswered(r)  BY Zenon
  <1>2. PICK hit : hit = {<<r, id>> : id \in ids}  BY Zenon
  <1>3. /\ work = Idle /\ timeoutQueue' = timeoutQueue \ {r}
        /\ subs' = [id \in TxID |-> IF id \in ids THEN subs[id] \ {r} ELSE subs[id]]
        /\ availableSlots' = availableSlots + Cardinality(ids)
        /\ work' = [Idle EXCEPT !.writes = IF ids = {} THEN {} ELSE {Event(req[r].stream, "timeout", hit, FALSE)}]
        /\ UNCHANGED <<req, requestQueue, statusQueue>>
    BY <1>1, <1>2, Zenon DEF removeAndEnqueueTimeoutEvents, clients
  <1>4. TypeOK /\ QueueInv /\ SubsInv /\ AnswerInv /\ TimedInv  BY Zenon DEF ReqInv
  <1>5. r \in DOMAIN req /\ req[r].stream \in Stream  BY <1>4, ReqAt, Zenon DEF TypeOK
  <1>6. ids = Subscribed(r) /\ ids \subseteq TxID /\ IsFiniteSet(ids)
    <2>1. Elements(req[r].ids) \subseteq TxID  BY <1>4, <1>5, ReqAt, SeqAt DEF Elements
    <2>2. Subscribed(r) \subseteq Elements(req[r].ids)  BY <1>4, <1>5, Zenon DEF SubsInv
    <2>3. ids = Subscribed(r)  BY <1>1, <2>1, <2>2, Zenon DEF unanswered, Subscribed
    <2> QED  BY <1>4, <1>5, <2>3, Zenon DEF TimedInv, Subscribed
  <1>7. \A id \in TxID : id \in ids <=> r \in subs[id]  BY <1>6, Zenon DEF Subscribed
  <1>8. Subscribed(r)' = {} /\ \A q : q # r => Subscribed(q)' = Subscribed(q)
    BY <1>3, <1>7, Zenon DEF Subscribed
  <1>9. hit \subseteq (DOMAIN req) \X TxID /\ Cardinality(hit) = Cardinality(ids)
    <2>1. hit \subseteq (DOMAIN req) \X TxID  BY <1>2, <1>5, <1>6
    <2>2. Cardinality(hit) = Cardinality(ids)  BY <1>2, <1>6, PairsOf, ZenonT(40)
    <2> QED  BY <2>1, <2>2, Zenon
  <1>10. PICK W : W = IF ids = {} THEN {} ELSE {Event(req[r].stream, "timeout", hit, FALSE)}  BY Zenon
  <1>11. W \in SUBSET Events /\ \A e \in W : e.kind = "timeout" /\ ~e.patient /\ e.pairs = hit
    <2>1. PICK e : e = Event(req[r].stream, "timeout", hit, FALSE)  BY Zenon
    <2>2. e \in Events /\ e.kind = "timeout" /\ ~e.patient /\ e.pairs = hit
      BY <1>5, <1>9, <2>1, Zenon DEF Event, Events
    <2> QED  BY <1>10, <2>1, <2>2, Zenon
  <1>12. /\ work' \in Works /\ work'.writes = W /\ work'.arm = 0 /\ work'.streams = <<>> /\ ~work'.slow
         /\ work.writes = {} /\ work.arm = 0
    <2>1. work' = [writes |-> W, arm |-> 0, block |-> 0, streams |-> <<>>, slow |-> FALSE]
      BY <1>3, <1>10, Zenon DEF Idle
    <2>2. 0 \in {0} \cup DOMAIN req  BY Zenon
    <2>3. work.writes = {} /\ work.arm = 0  BY <1>3, Zenon DEF Idle
    <2>4. work' \in Works /\ work'.writes = W /\ work'.arm = 0 /\ work'.streams = <<>> /\ ~work'.slow
      BY <1>11, <2>1, <2>2, WorkRecord, ZenonT(40)
    <2> QED  BY <2>3, <2>4, Zenon
  <1>13. ended(TxID)' = ended(TxID) \ hit /\ hit \subseteq ended(TxID)
    <2>1. \A q, id : <<q, id>> \in ended(TxID)' <=> id \in TxID /\ q \in subs'[id]  BY DEF ended
    <2>2. \A p \in ended(TxID)' : p = <<p[1], p[2]>>  BY DEF ended
    <2>3. \A q, id : <<q, id>> \in ended(TxID) <=> id \in TxID /\ q \in subs[id]  BY DEF ended
    <2>4. \A p \in ended(TxID) : p = <<p[1], p[2]>>  BY DEF ended
    <2>5. \A q, id : <<q, id>> \in hit <=> q = r /\ id \in ids  BY <1>2, Zenon
    <2>6. \A q, id : <<q, id>> \in ended(TxID)' <=> <<q, id>> \in ended(TxID) \ hit
      BY <1>3, <1>7, <2>1, <2>3, <2>5, ZenonT(40)
    <2>7. \A p \in hit : p = <<p[1], p[2]>>  BY <1>2
    <2>8. hit \subseteq ended(TxID)  BY <1>6, <1>7, <2>3, <2>5, <2>7
    <2> QED  BY <2>2, <2>4, <2>6, <2>8
  <1>14. SlotsInv' /\ availableSlots' \in Int
    <2>1. PICK c : c = Cardinality(hit)  BY Zenon
    <2>2. availableSlots' = availableSlots + c  BY <1>3, <1>9, <2>1, Zenon
    <2> QED  BY <1>13, <2>1, <2>2, SlotsBack, Zenon
  <1>15. TypeOK'
    <2>1. Works' = Works  BY <1>3, Zenon DEF Works, Events
    <2>2. subs' \in [TxID -> SUBSET DOMAIN req']  BY <1>3, <1>4, Zenon DEF TypeOK
    <2> QED  BY <1>3, <1>4, <1>12, <1>14, <2>1, <2>2, ZenonT(40) DEF TypeOK
  <1>16. WorkInv'  BY <1>11, <1>12, Zenon DEF WorkInv
  <1>17. QueueInv'  BY <1>3, <1>4, <1>12, Zenon DEF QueueInv
  <1>18. SubsInv'  BY <1>3, <1>4, <1>8, Zenon DEF SubsInv
  <1>19. AnswerInv'
    <2>1. ASSUME NEW q \in DOMAIN req, NEW id \in TxID
          PROVE  IF id \in req'[q].accepted \ Subscribed(q)'
                 THEN \/ WritesOf(q, id)' = {} /\ \E k \in Answer : ToldOf(q, id)' = {k}
                      \/ ToldOf(q, id)' = {} /\ \E f \in work'.writes : WritesOf(q, id)' = {f}
                 ELSE ToldOf(q, id)' = {} /\ WritesOf(q, id)' = {}
      <3>1. IF id \in req[q].accepted \ Subscribed(q)
            THEN \/ WritesOf(q, id) = {} /\ \E k \in Answer : ToldOf(q, id) = {k}
                 \/ ToldOf(q, id) = {} /\ \E f \in work.writes : WritesOf(q, id) = {f}
            ELSE ToldOf(q, id) = {} /\ WritesOf(q, id) = {}
        BY <1>4, Zenon DEF AnswerInv
      <3>2. ToldOf(q, id)' = ToldOf(q, id)  BY <1>3, Zenon DEF ToldOf
      <3>3. WritesOf(q, id)' = {e \in W : <<q, id>> \in hit}  BY <1>11, <1>12, Zenon DEF WritesOf
      <3>4. CASE <<q, id>> \in hit
        <4>1. q = r /\ id \in ids  BY <1>2, <3>4, Zenon
        <4>2. PICK e \in W : W = {e}  BY <1>10, <4>1, Zenon
        <4>3. WritesOf(q, id)' = {e}  BY <3>3, <3>4, <4>2, Zenon
        <4>4. ToldOf(q, id) = {} /\ id \in req[q].accepted
          BY <1>4, <1>5, <1>6, <3>1, <4>1, Zenon DEF SubsInv
        <4> QED  BY <1>3, <1>8, <1>12, <3>2, <4>1, <4>2, <4>3, <4>4, ZenonT(40)
      <3>5. CASE <<q, id>> \notin hit
        <4>1. WritesOf(q, id)' = {} /\ WritesOf(q, id) = {}  BY <1>12, <3>3, <3>5, Zenon DEF WritesOf
        <4>2. id \in Subscribed(q)' <=> id \in Subscribed(q)
          <5>1. CASE q = r  BY <1>2, <1>6, <1>8, <3>5, <5>1, ZenonT(40)
          <5>2. CASE q # r  BY <1>8, <5>2, Zenon
          <5> QED  BY <5>1, <5>2, Zenon
        <4> QED  BY <1>3, <1>12, <3>1, <3>2, <4>1, <4>2, ZenonT(40)
      <3> QED  BY <3>4, <3>5, Zenon
    <2> QED  BY <1>3, <2>1, Zenon DEF AnswerInv
  <1>20. TimedInv'
    <2>1. \A q \in DOMAIN req : q # 0  BY <1>4, ReqAt, Zenon
    <2> QED  BY <1>3, <1>4, <1>8, <1>12, <2>1, FS_EmptySet, ZenonT(40) DEF TimedInv
  <1> QED  BY <1>14, <1>15, <1>16, <1>17, <1>18, <1>19, <1>20, ZenonT(40) DEF ReqInv

-----------------------------------------------------------------------------
(* Every step keeps what is known of the requests *)

LEMMA ReqNext ==
  ASSUME ReqInv, BlockInv, [Next]_vars
  PROVE  ReqInv'
  <1>0. statusQueue \in Seq(SUBSET TxID)  BY Zenon DEF ReqInv, TypeOK
  <1>1. CASE Run
    <2>1. CASE HandleRequest  BY <2>1, HandleStep, Zenon
    <2>2. CASE StartTimer  BY <2>2, StartTimerStep, Zenon
    <2>3. CASE removeAndEnqueueStatusEvents  BY <2>3, StatusStep, Zenon
    <2>4. CASE \E r \in timeoutQueue : removeAndEnqueueTimeoutEvents(r)  BY <2>4, TimeoutStep, Zenon
    <2>5. CASE \E e \in work.writes : Write(e) \/ WriteTimesOut(e)  BY <2>5, WriteStep, Zenon
    <2>6. CASE dispatchBlockToStreams  BY <2>6, DispatchStep, Zenon
    <2>7. CASE SendBlock \/ SendBlockTimesOut \/ CancelSlowStream  BY <2>7, LoopStep, Zenon
    <2> QED  BY <1>1, <2>1, <2>2, <2>3, <2>4, <2>5, <2>6, <2>7, ZenonT(40) DEF Run
  <1>2. CASE Timers  BY <1>2, FireTimerStep, Zenon DEF Timers
  <1>3. CASE Workers
    <2>1. UNCHANGED <<req, requestQueue, subscriptions, timeoutQueue, work, statusQueue>>
      BY <1>3, Zenon DEF Workers, streamWorker, StreamBlocksReturns, clients
    <2> QED  BY <1>0, <2>1, OthersStep, Zenon
  <1>4. CASE Readers
    <2>1. UNCHANGED <<req, requestQueue, subscriptions, timeoutQueue, work, statusQueue>>
      BY <1>4, Zenon DEF Readers, Receive
    <2> QED  BY <1>0, <2>1, OthersStep, Zenon
  <1>5. CASE Environment
    <2>1. CASE \E s \in Stream, ids \in Asks : Request(s, ids)  BY <2>1, RequestStep, Zenon
    <2>2. CASE \E ids \in Batches : Report(ids)  BY <2>2, ReportStep, Zenon
    <2>3. CASE \/ \E s \in Leaving \cap Stream : Close(s)
               \/ \E b \in BlockStream : registerBlockStream(b)
               \/ \E b \in Leaving \cap BlockStream : ClientEnds(b)
      <3>1. UNCHANGED <<req, requestQueue, subscriptions, timeoutQueue, work, statusQueue>>
        BY <2>3, Zenon DEF Close, registerBlockStream, ClientEnds, clients
      <3> QED  BY <1>0, <3>1, OthersStep, Zenon
    <2> QED  BY <1>5, <2>1, <2>2, <2>3, Zenon DEF Environment
  <1>6. CASE UNCHANGED vars
    <2>1. UNCHANGED <<req, requestQueue, subscriptions, timeoutQueue, work, statusQueue>>
      BY <1>6, Zenon DEF vars, clients
    <2> QED  BY <1>0, <2>1, OthersStep, Zenon
  <1> QED  BY <1>1, <1>2, <1>3, <1>4, <1>5, <1>6, Zenon DEF Next

-----------------------------------------------------------------------------
(* One block stream *)

LEMMA GotAppend ==
  ASSUME NEW b \in BlockStream, NEW x \in StreamRec, ~x.late, GotOK(b, x.from, x.late, x.got),
         NEW late \in BOOLEAN, NEW n \in 1..Len(Blocks),
         IF late THEN n >= x.from + Len(x.got) ELSE n = x.from + Len(x.got),
         NEW g \in Gots, g.number = n, g.events = filterAndBuildEvents(b, Blocks[n])
  PROVE  GotOK(b, x.from, late, Append(x.got, g))
  <1>1. PICK got \in Seq(Gots), from \in Nat : got = x.got /\ from = x.from  BY Zenon DEF StreamRec
  <1>2. PICK q : q = Append(got, g)  BY Zenon
  <1>3. /\ Len(got) \in Nat /\ Len(q) = Len(got) + 1 /\ DOMAIN got = 1..Len(got)
        /\ DOMAIN q = (DOMAIN got) \cup {Len(got) + 1} /\ q[Len(got) + 1] = g
        /\ \A i \in DOMAIN got : q[i] = got[i]
    BY <1>1, <1>2, SeqAt, SeqAppend
  <1>4. n \in Nat  BY NotifierAssumption
  <1>5. \A i \in DOMAIN got : /\ got[i].number = from + i - 1
                              /\ got[i].events = filterAndBuildEvents(b, Blocks[got[i].number])
    BY <1>1, Zenon DEF GotOK
  <1>6. ASSUME NEW i \in DOMAIN q
        PROVE  /\ IF late /\ i = Len(q) THEN q[i].number >= from + i - 1 ELSE q[i].number = from + i - 1
               /\ q[i].events = filterAndBuildEvents(b, Blocks[q[i].number])
    <2>1. CASE i = Len(got) + 1
      <3>1. q[i] = g /\ i = Len(q) /\ from + i - 1 = from + Len(got)  BY <1>1, <1>3, <2>1
      <3> QED  BY <1>1, <1>4, <3>1, ZenonT(40)
    <2>2. CASE i # Len(got) + 1
      <3>1. i \in DOMAIN got /\ i # Len(q) /\ q[i] = got[i]  BY <1>3, <2>2, Zenon
      <3> QED  BY <1>5, <3>1, Zenon
    <2> QED  BY <2>1, <2>2, Zenon
  <1> QED  BY <1>1, <1>2, <1>6, Zenon DEF GotOK

LEMMA StreamFacts ==
  ASSUME NEW x \in StreamRec
  PROVE  /\ x.from \in Nat /\ Len(x.got) \in Nat /\ Len(x.queue) \in Nat
         /\ DOMAIN x.queue = 1..Len(x.queue) /\ Len(Blocks) \in Nat
         /\ \A i \in DOMAIN x.queue : x.queue[i] \in 1..Len(Blocks) /\ x.queue[i] \in Nat
  <1>1. x.from \in Nat /\ x.got \in Seq(Gots) /\ x.queue \in Seq(1..Len(Blocks))  BY Zenon DEF StreamRec
  <1>2. Len(Blocks) \in Nat  BY NotifierAssumption
  <1>3. \A i \in DOMAIN x.queue : x.queue[i] \in 1..Len(Blocks)  BY <1>1, SeqAt, Zenon
  <1>4. Len(x.queue) \in Nat /\ DOMAIN x.queue = 1..Len(x.queue) /\ Len(x.got) \in Nat  BY <1>1, SeqAt, Zenon
  <1> QED  BY <1>1, <1>2, <1>3, <1>4

\* A worker takes the first block of its queue.
Takes(b, x, y, g) ==
  /\ x.st \in {"open", "cancelled"} /\ x.queue # <<>>
  /\ y.from = x.from /\ y.queue = Tail(x.queue)
  /\ y.st = IF x.st = "cancelled" THEN "stopping" ELSE x.st
  /\ y.late = (x.st = "cancelled")
  /\ g.number = Head(x.queue) /\ g.events = filterAndBuildEvents(b, Blocks[g.number])
  /\ y.got = Append(x.got, g)

LEMMA RunTake ==
  ASSUME NEW b \in BlockStream, NEW x \in StreamRec, NEW e \in Nat, RunOK(b, x, e),
         NEW y \in StreamRec, NEW g \in Gots, Takes(b, x, y, g)
  PROVE  RunOK(b, y, e) /\ x.from # 0
  <1>1. /\ x.from \in Nat /\ Len(x.got) \in Nat /\ Len(x.queue) \in Nat
        /\ \A i \in DOMAIN x.queue : x.queue[i] \in 1..Len(Blocks) /\ x.queue[i] \in Nat
    BY StreamFacts, Zenon
  <1>2. /\ Len(y.queue) = Len(x.queue) - 1 /\ Head(x.queue) = x.queue[1] /\ 1 \in DOMAIN x.queue
        /\ \A i \in DOMAIN y.queue : i + 1 \in DOMAIN x.queue /\ y.queue[i] = x.queue[i + 1] /\ i \in Nat
    <2>1. x.queue \in Seq(1..Len(Blocks)) /\ x.queue # <<>> /\ y.queue = Tail(x.queue)  BY Zenon DEF StreamRec, Takes
    <2>2. DOMAIN y.queue \subseteq Nat  BY StreamFacts
    <2> QED  BY <2>1, <2>2, SeqTail
  <1>3. Len(y.got) = Len(x.got) + 1
    <2>1. x.got \in Seq(Gots) /\ y.got = Append(x.got, g)  BY Zenon DEF StreamRec, Takes
    <2> QED  BY <2>1, SeqAppend
  <1>4. x.from # 0 /\ ~x.late /\ GotOK(b, x.from, x.late, x.got) /\ y.from = x.from  BY Zenon DEF RunOK, Takes
  <1>5. PICK n \in 1..Len(Blocks) :
            n = x.queue[1] /\ n = g.number /\ n \in Nat /\ g.events = filterAndBuildEvents(b, Blocks[n])
    BY <1>1, <1>2, ZenonT(40) DEF Takes
  <1>6. CASE x.st = "open"
    <2>1. /\ x.from + Len(x.got) + Len(x.queue) = e
          /\ \A i \in DOMAIN x.queue : x.queue[i] = x.from + Len(x.got) + i - 1
      BY <1>4, <1>6, ZenonT(40) DEF RunOK
    <2>2. n = x.from + Len(x.got)  BY <1>1, <1>2, <1>5, <2>1
    <2>3. GotOK(b, x.from, FALSE, Append(x.got, g))  BY <1>4, <1>5, <2>2, GotAppend, ZenonT(40)
    <2>4. y.st = "open" /\ y.late = FALSE /\ y.got = Append(x.got, g)  BY <1>6, Zenon DEF Takes
    <2>5. PICK f \in Nat, l \in Nat, m \in Nat : f = x.from /\ l = Len(x.got) /\ m = Len(x.queue)  BY <1>1, Zenon
    <2>6. y.from = f /\ Len(y.got) = l + 1 /\ Len(y.queue) = m - 1  BY <1>2, <1>3, <1>4, <2>5, ZenonT(40)
    <2>8. y.from + Len(y.got) + Len(y.queue) = e
      <3>1. f + l + m = e  BY <2>1, <2>5, Zenon
      <3>2. f + (l + 1) + (m - 1) = f + l + m  OBVIOUS
      <3> QED  BY <2>6, <3>1, <3>2, Zenon
    <2>9. ASSUME NEW i \in DOMAIN y.queue  PROVE  y.queue[i] = y.from + Len(y.got) + i - 1
      <3>1. PICK j \in Nat : j = i  BY <1>2, Zenon
      <3>2. j + 1 \in DOMAIN x.queue /\ y.queue[i] = x.queue[j + 1]  BY <1>2, <3>1, Zenon
      <3>3. x.queue[j + 1] = f + l + (j + 1) - 1  BY <2>1, <2>5, <3>2, ZenonT(40)
      <3>4. f + l + (j + 1) - 1 = f + (l + 1) + j - 1  OBVIOUS
      <3> QED  BY <2>6, <3>1, <3>2, <3>3, <3>4, ZenonT(40)
    <2>7. GotOK(b, y.from, y.late, y.got)  BY <1>4, <2>3, <2>4, Zenon
    <2> QED  BY <1>4, <2>4, <2>7, <2>8, <2>9, Zenon DEF RunOK
  <1>7. CASE x.st = "cancelled"
    <2>1. n >= x.from + Len(x.got)  BY <1>2, <1>5, <1>7, ZenonT(40) DEF RunOK
    <2>2. GotOK(b, x.from, TRUE, Append(x.got, g))  BY <1>4, <1>5, <2>1, GotAppend, ZenonT(40)
    <2>3. y.st = "stopping" /\ y.late /\ GotOK(b, y.from, y.late, y.got)
      <3>1. y.st = "stopping" /\ y.late = TRUE /\ y.got = Append(x.got, g)  BY <1>7, Zenon DEF Takes
      <3> QED  BY <1>4, <2>2, <3>1, ZenonT(40)
    <2> QED  BY <1>4, <2>3, Zenon DEF RunOK
  <1> QED  BY <1>4, <1>6, <1>7, Zenon DEF Takes

\* A block is put into the queue of a stream.
Puts(x, y, e) ==
  y.st = x.st /\ y.from = x.from /\ y.got = x.got /\ y.late = x.late /\ y.queue = Append(x.queue, e)

LEMMA RunPut ==
  ASSUME NEW b \in BlockStream, NEW x \in StreamRec, NEW e \in 1..Len(Blocks), RunOK(b, x, e), x.from # 0,
         NEW y \in StreamRec, Puts(x, y, e)
  PROVE  RunOK(b, y, e + 1)
  <1>1. x.from \in Nat /\ Len(x.got) \in Nat /\ Len(x.queue) \in Nat /\ DOMAIN x.queue = 1..Len(x.queue) /\ e \in Nat
    BY StreamFacts
  <1>2. /\ Len(y.queue) = Len(x.queue) + 1 /\ DOMAIN y.queue = (DOMAIN x.queue) \cup {Len(x.queue) + 1}
        /\ \A i \in DOMAIN x.queue : y.queue[i] = x.queue[i]
        /\ y.queue[Len(x.queue) + 1] = e
    <2>1. x.queue \in Seq(1..Len(Blocks)) /\ y.queue = Append(x.queue, e)  BY Zenon DEF StreamRec, Puts
    <2> QED  BY <2>1, SeqAppend, SMTT(30)
  <1>6. PICK f \in Nat, l \in Nat, m \in Nat : f = x.from /\ l = Len(x.got) /\ m = Len(x.queue)  BY <1>1, Zenon
  <1>7. PICK p, q : p = x.queue /\ q = y.queue  BY Zenon
  <1>8. y.from = f /\ Len(y.got) = l /\ Len(y.queue) = m + 1  BY <1>2, <1>6, Zenon DEF Puts
  <1>9. /\ DOMAIN p = 1..m /\ DOMAIN q = (DOMAIN p) \cup {m + 1} /\ q[m + 1] = e
        /\ \A i \in DOMAIN p : q[i] = p[i]
    BY <1>1, <1>2, <1>6, <1>7, ZenonT(40)
  <1>3. ASSUME x.st = "open"
        PROVE  /\ y.from + Len(y.got) + Len(y.queue) = e + 1
               /\ \A i \in DOMAIN y.queue : y.queue[i] = y.from + Len(y.got) + i - 1
    <2>1. f + l + m = e /\ \A i \in DOMAIN p : p[i] = f + l + i - 1  BY <1>3, <1>6, <1>7, ZenonT(40) DEF RunOK
    <2>2. f + l + (m + 1) = e + 1  BY <1>1, <2>1
    <2>3. ASSUME NEW i \in DOMAIN q  PROVE  q[i] = f + l + i - 1
      <3>1. CASE i \in DOMAIN p  BY <1>9, <2>1, <3>1, Zenon
      <3>2. CASE i = m + 1
        <4>1. f + l + (m + 1) - 1 = f + l + m  OBVIOUS
        <4> QED  BY <1>9, <2>1, <3>2, <4>1, ZenonT(40)
      <3> QED  BY <1>9, <3>1, <3>2, ZenonT(40)
    <2> QED  BY <1>7, <1>8, <2>2, <2>3, ZenonT(40)
  <1>4. ASSUME x.st = "cancelled"
        PROVE  /\ y.from + Len(y.got) <= e + 1
               /\ \A i \in DOMAIN y.queue : y.queue[i] >= y.from + Len(y.got)
    <2>1. f + l <= e /\ \A i \in DOMAIN p : p[i] >= f + l  BY <1>4, <1>6, <1>7, Zenon DEF RunOK
    <2>2. f + l <= e + 1  BY <1>1, <2>1
    <2>3. ASSUME NEW i \in DOMAIN q  PROVE  q[i] >= f + l
      <3>1. CASE i \in DOMAIN p  BY <1>9, <2>1, <3>1, Zenon
      <3>2. CASE i = m + 1  BY <1>9, <2>1, <3>2, Zenon
      <3> QED  BY <1>9, <3>1, <3>2, Zenon
    <2> QED  BY <1>7, <1>8, <2>2, <2>3, Zenon
  <1>5. y.st = x.st /\ y.from = x.from /\ y.got = x.got /\ y.late = x.late  BY Zenon DEF Puts
  <1> QED  BY <1>3, <1>4, <1>5, ZenonT(40) DEF RunOK

\* A stream that is not open is passed by.
LEMMA RunSkip ==
  ASSUME NEW b \in BlockStream, NEW x \in StreamRec, NEW e \in Nat, RunOK(b, x, e), x.st # "open"
  PROVE  RunOK(b, x, e + 1)
  <1>1. x.from \in Nat /\ Len(x.got) \in Nat  BY StreamFacts, Zenon
  <1>2. x.st = "cancelled" => x.from + Len(x.got) <= e + 1  BY <1>1 DEF RunOK
  <1> QED  BY <1>2, Zenon DEF RunOK

\* A stream is cancelled: what waits in its queue is the run it was to get.
LEMMA RunCancel ==
  ASSUME NEW b \in BlockStream, NEW x \in StreamRec, NEW e \in Nat, RunOK(b, x, e),
         x.st = "open", x.from # 0,
         NEW y \in StreamRec, y = [x EXCEPT !.st = "cancelled"]
  PROVE  RunOK(b, y, e + 1)
  <1>1. /\ x.from \in Nat /\ Len(x.got) \in Nat /\ Len(x.queue) \in Nat /\ DOMAIN x.queue = 1..Len(x.queue)
        /\ \A i \in DOMAIN x.queue : x.queue[i] \in Nat
    BY StreamFacts, Zenon
  <1>2. y.st = "cancelled" /\ y.from = x.from /\ y.queue = x.queue /\ y.got = x.got /\ y.late = x.late
    BY Zenon DEF StreamRec
  <1>3. /\ x.from + Len(x.got) + Len(x.queue) = e
        /\ \A i \in DOMAIN x.queue : x.queue[i] = x.from + Len(x.got) + i - 1
        /\ ~x.late /\ GotOK(b, x.from, x.late, x.got)
    BY Zenon DEF RunOK
  <1>4. x.from + Len(x.got) <= e + 1 /\ \A i \in DOMAIN x.queue : x.queue[i] >= x.from + Len(x.got)
    <2>1. PICK f \in Nat, l \in Nat, m \in Nat : f = x.from /\ l = Len(x.got) /\ m = Len(x.queue)  BY <1>1
    <2>2. f + l + m = e /\ \A i \in 1..m : x.queue[i] = f + l + i - 1  BY <1>1, <1>3, <2>1
    <2>3. f + l <= e + 1  BY <2>2
    <2>4. ASSUME NEW i \in 1..m  PROVE  x.queue[i] >= f + l
      <3>1. f + l + i - 1 >= f + l  OBVIOUS
      <3> QED  BY <2>2, <3>1
    <2> QED  BY <1>1, <2>1, <2>3, <2>4
  <1> QED  BY <1>2, <1>3, <1>4, ZenonT(40) DEF RunOK

-----------------------------------------------------------------------------
(* The registered block streams *)

LEMMA BlockInit == Init => BlockInv
  <1> SUFFICES ASSUME Init  PROVE BlockInv  BY Zenon
  <1>1. /\ next = 1 /\ blockStreams = <<>> /\ work = Idle
        /\ bs = [b \in BlockStream |-> [st |-> "new", from |-> 0, queue |-> <<>>, got |-> <<>>, late |-> FALSE]]
    BY Zenon DEF Init
  <1>2. work.streams = <<>>  BY <1>1, Zenon DEF Idle
  <1>3. BlockType
    <2>1. Len(Blocks) \in Nat  BY NotifierAssumption
    <2>2. bs \in [BlockStream -> StreamRec]  BY <1>1 DEF StreamRec
    <2> QED  BY <1>1, <1>2, <2>1, <2>2, SMTT(30) DEF BlockType
  <1>4. RegisteredInv  BY <1>1, <1>2, SMTT(30) DEF RegisteredInv, Distinct, Elements
  <1>5. RunInv  BY <1>1, <1>2 DEF RunInv, RunOK, GotOK, Elements
  <1> QED  BY <1>3, <1>4, <1>5, Zenon DEF BlockInv

\* Steps that touch no block stream.
LEMMA BlockAside ==
  ASSUME BlockInv, UNCHANGED blockPart, work'.streams = work.streams,
         work.streams # <<>> => work'.block = work.block
  PROVE  BlockInv'
  <1>0. UNCHANGED <<next, blockStreams, bs>>  BY Zenon DEF blockPart
  <1>1. BlockType'  BY <1>0, Zenon DEF BlockInv, BlockType
  <1>2. RegisteredInv'  BY <1>0, Zenon DEF BlockInv, RegisteredInv
  <1>3. RunInv'  BY <1>0, Zenon DEF BlockInv, RunInv, expected
  <1> QED  BY <1>1, <1>2, <1>3, ZenonT(40) DEF BlockInv

LEMMA RequestsAside ==
  ASSUME ReqInv, BlockInv,
         \/ HandleRequest \/ StartTimer \/ removeAndEnqueueStatusEvents
         \/ \E r \in timeoutQueue : removeAndEnqueueTimeoutEvents(r)
         \/ \E e \in work.writes : Write(e) \/ WriteTimesOut(e)
  PROVE  BlockInv'
  <1>1. UNCHANGED blockPart
    BY Zenon DEF HandleRequest, StartTimer, removeAndEnqueueStatusEvents, removeAndEnqueueTimeoutEvents, Write, WriteTimesOut
  <1>2. CASE HandleRequest
    <2>1. PICK W, a : work' = [Idle EXCEPT !.writes = W] \/ work' = [Idle EXCEPT !.arm = a, !.writes = W]
      BY <1>2, Zenon DEF HandleRequest
    <2>2. work.streams = <<>> /\ work'.streams = <<>>  BY <1>2, <2>1, ZenonT(40) DEF HandleRequest, Idle
    <2> QED  BY <1>1, <2>2, BlockAside, ZenonT(40)
  <1>3. CASE StartTimer
    <2>1. work.streams = <<>> /\ work'.streams = <<>>  BY <1>3, ZenonT(40) DEF StartTimer, Idle, ReqInv, WorkInv
    <2> QED  BY <1>1, <2>1, BlockAside, Zenon
  <1>4. CASE removeAndEnqueueStatusEvents \/ \E r \in timeoutQueue : removeAndEnqueueTimeoutEvents(r)
    <2>1. PICK W : work = Idle /\ work' = [Idle EXCEPT !.writes = W]
      BY <1>4, Zenon DEF removeAndEnqueueStatusEvents, removeAndEnqueueTimeoutEvents
    <2>2. work.streams = <<>> /\ work'.streams = <<>>  BY <2>1, Zenon DEF Idle
    <2> QED  BY <1>1, <2>2, BlockAside, Zenon
  <1>5. CASE \E e \in work.writes : Write(e) \/ WriteTimesOut(e)
    <2>1. PICK W : work' = [work EXCEPT !.writes = W]  BY <1>5, Zenon DEF Write, WriteTimesOut
    <2>2. work \in Works  BY Zenon DEF ReqInv, TypeOK
    <2>3. work'.streams = work.streams /\ work'.block = work.block  BY <2>1, <2>2, ZenonT(40) DEF Works
    <2> QED  BY <1>1, <2>3, BlockAside, ZenonT(40)
  <1> QED  BY <1>2, <1>3, <1>4, <1>5, ZenonT(40)

LEMMA BlockFacts ==
  ASSUME BlockInv
  PROVE  /\ next \in Nat /\ next > 0 /\ Len(Blocks) \in Nat /\ next <= Len(Blocks) + 1
         /\ bs \in [BlockStream -> StreamRec] /\ blockStreams \in Seq(BlockStream)
         /\ \A b \in BlockStream : expected(b) \in Nat
  <1>1. Len(Blocks) \in Nat  BY NotifierAssumption
  <1>2. next \in Nat /\ next > 0 /\ next <= Len(Blocks) + 1  BY <1>1 DEF BlockInv, BlockType
  <1> QED  BY <1>1, <1>2, SMTT(30) DEF BlockInv, BlockType, expected

\* Steps of one stream, outside the loop of the notifier's goroutine.
LEMMA StreamStep ==
  ASSUME BlockInv, NEW b \in BlockStream, NEW y \in StreamRec, bs' = [bs EXCEPT ![b] = y],
         UNCHANGED <<work, next>>, RunOK(b, y, expected(b)), y.from = bs[b].from,
         blockStreams' \in Seq(BlockStream), Distinct(blockStreams'),
         \A c \in BlockStream : c \in Elements(blockStreams') <=>
             IF c = b THEN y.st \in {"open", "cancelled", "stopping"} ELSE c \in Elements(blockStreams)
  PROVE  BlockInv'
  <1>1. bs' \in [BlockStream -> StreamRec] /\ bs'[b] = y /\ \A c \in BlockStream \ {b} : bs'[c] = bs[c]
    BY BlockFacts, Zenon
  <1>2. BlockType'  BY <1>1, Zenon DEF BlockInv, BlockType
  <1>3. RegisteredInv'  BY <1>1, Zenon DEF BlockInv, RegisteredInv
  <1>4. \A c \in BlockStream : expected(c)' = expected(c)  BY Zenon DEF expected
  <1>5. ASSUME NEW c \in BlockStream
        PROVE  RunOK(c, bs'[c], expected(c)') /\ (bs'[c].from = 0 => c \notin Elements(work'.streams))
    BY <1>1, <1>4, Zenon DEF BlockInv, RunInv
  <1>6. RunInv'  BY <1>5, Zenon DEF RunInv
  <1> QED  BY <1>2, <1>3, <1>6, ZenonT(40) DEF BlockInv

LEMMA RegisterStep ==
  ASSUME BlockInv, NEW b \in BlockStream, registerBlockStream(b)
  PROVE  BlockInv'
  <1>1. /\ bs[b].st = "new" /\ blockStreams' = Append(blockStreams, b) /\ UNCHANGED <<work, next>>
        /\ bs' = [bs EXCEPT ![b].st = "open"]
    BY Zenon DEF registerBlockStream
  <1>2. bs \in [BlockStream -> StreamRec] /\ blockStreams \in Seq(BlockStream)  BY BlockFacts, Zenon
  <1>3. PICK y : y = [bs[b] EXCEPT !.st = "open"]  BY Zenon
  <1>4. y \in StreamRec  BY <1>2, <1>3, ZenonT(40) DEF StreamRec
  <1>5. /\ y.st = "open" /\ y.from = bs[b].from /\ y.queue = bs[b].queue /\ y.got = bs[b].got
        /\ y.late = bs[b].late
    BY <1>2, <1>3, ZenonT(40) DEF StreamRec
  <1>6. RunOK(b, y, expected(b))  BY <1>1, <1>5, ZenonT(40) DEF BlockInv, RunInv, RunOK
  <1>7. b \notin Elements(blockStreams) /\ Distinct(blockStreams)  BY <1>1, ZenonT(40) DEF BlockInv, RegisteredInv
  <1>8. /\ blockStreams' \in Seq(BlockStream)
        /\ DOMAIN blockStreams' = (DOMAIN blockStreams) \cup {Len(blockStreams) + 1}
        /\ \A i \in DOMAIN blockStreams : blockStreams'[i] = blockStreams[i]
        /\ blockStreams'[Len(blockStreams) + 1] = b
    BY <1>1, <1>2, SeqAppend
  <1>9. Distinct(blockStreams')  BY <1>7, <1>8, ZenonT(40) DEF Distinct, Elements
  <1>10. \A c : c \in Elements(blockStreams') <=> c = b \/ c \in Elements(blockStreams)  BY <1>8, Zenon DEF Elements
  <1>11. bs' = [bs EXCEPT ![b] = y]  BY <1>1, <1>3, Zenon
  <1> QED  BY <1>1, <1>4, <1>5, <1>6, <1>8, <1>9, <1>10, <1>11, StreamStep, ZenonT(40)

\* The registered streams stay what they are when a stream stays registered.
LEMMA StayStep ==
  ASSUME BlockInv, NEW b \in BlockStream, NEW y \in StreamRec, bs' = [bs EXCEPT ![b] = y],
         UNCHANGED <<work, next, blockStreams>>, RunOK(b, y, expected(b)), y.from = bs[b].from,
         bs[b].st \in {"open", "cancelled", "stopping"}, y.st \in {"open", "cancelled", "stopping"}
  PROVE  BlockInv'
  <1>1. /\ blockStreams' \in Seq(BlockStream) /\ Distinct(blockStreams')
        /\ \A c \in BlockStream : c \in Elements(blockStreams') <=>
               IF c = b THEN y.st \in {"open", "cancelled", "stopping"} ELSE c \in Elements(blockStreams)
    BY Zenon DEF BlockInv, BlockType, RegisteredInv
  <1> QED  BY <1>1, StreamStep, Zenon

LEMMA WorkerStep ==
  ASSUME BlockInv, NEW b \in BlockStream, streamWorker(b)
  PROVE  BlockInv'
  <1>1. PICK x : x = bs[b]  BY Zenon
  <1>2. bs \in [BlockStream -> StreamRec] /\ x \in StreamRec /\ expected(b) \in Nat  BY <1>1, BlockFacts, ZenonT(40)
  <1>3. PICK g : g = [number |-> Head(x.queue), events |-> filterAndBuildEvents(b, Blocks[Head(x.queue)])]  BY Zenon
  <1>4. PICK y : y = [x EXCEPT !.queue = Tail(@), !.st = IF @ = "cancelled" THEN "stopping" ELSE @,
                               !.late = x.st = "cancelled", !.got = Append(@, g)]
    BY Zenon
  <1>5. /\ x.st \in {"open", "cancelled"} /\ x.queue # <<>> /\ UNCHANGED <<work, next, blockStreams>>
        /\ bs' = [bs EXCEPT ![b].queue = Tail(@), ![b].st = IF @ = "cancelled" THEN "stopping" ELSE @,
                            ![b].late = x.st = "cancelled", ![b].got = Append(@, g)]
    BY <1>1, <1>3, ZenonT(40) DEF streamWorker
  <1>6. bs' = [bs EXCEPT ![b] = y]  BY <1>1, <1>2, <1>4, <1>5, ZenonT(40)
  <1>7. x.queue \in Seq(1..Len(Blocks)) /\ x.got \in Seq(Gots)  BY <1>2, Zenon DEF StreamRec
  <1>8. Tail(x.queue) \in Seq(1..Len(Blocks)) /\ Head(x.queue) \in 1..Len(Blocks)  BY <1>5, <1>7, SeqTail, ZenonT(40)
  <1>9. g \in Gots /\ g.number = Head(x.queue) /\ g.events = filterAndBuildEvents(b, Blocks[g.number])
    <2>1. PICK n \in 1..Len(Blocks) : n = Head(x.queue)  BY <1>8, Zenon
    <2>2. PICK v : v = filterAndBuildEvents(b, Blocks[n])  BY Zenon
    <2>3. g = [number |-> n, events |-> v]  BY <1>3, <2>1, <2>2, ZenonT(40)
    <2>4. v \in {filterAndBuildEvents(c, Blocks[m]) : c \in BlockStream, m \in 1..Len(Blocks)}  BY <2>2
    <2> QED  BY <2>1, <2>2, <2>3, <2>4, SMTT(30) DEF Gots
  <1>10. Append(x.got, g) \in Seq(Gots)  BY <1>7, <1>9, SeqAppend, ZenonT(40)
  <1>11. /\ y.queue = Tail(x.queue) /\ y.from = x.from /\ y.got = Append(x.got, g)
         /\ y.st = IF x.st = "cancelled" THEN "stopping" ELSE x.st
         /\ y.late = (x.st = "cancelled")
    BY <1>2, <1>4, ZenonT(40) DEF StreamRec
  <1>12. y \in StreamRec  BY <1>2, <1>4, <1>5, <1>8, <1>10, ZenonT(40) DEF StreamRec
  <1>13. Takes(b, x, y, g)  BY <1>5, <1>9, <1>11, ZenonT(40) DEF Takes
  <1>14. RunOK(b, x, expected(b))  BY <1>1, Zenon DEF BlockInv, RunInv
  <1>15. RunOK(b, y, expected(b))  BY <1>2, <1>9, <1>12, <1>13, <1>14, RunTake, ZenonT(40)
  <1>16. y.st \in {"open", "cancelled", "stopping"}  BY <1>5, <1>11, ZenonT(40)
  <1> QED  BY <1>1, <1>5, <1>6, <1>11, <1>12, <1>15, <1>16, StayStep, ZenonT(40)

LEMMA ClientEndsStep ==
  ASSUME BlockInv, NEW b \in BlockStream, ClientEnds(b)
  PROVE  BlockInv'
  <1>1. PICK y : y = [bs[b] EXCEPT !.st = "stopping"]  BY Zenon
  <1>2. bs \in [BlockStream -> StreamRec]  BY BlockFacts, Zenon
  <1>3. bs[b].st = "open" /\ bs' = [bs EXCEPT ![b] = y] /\ UNCHANGED <<work, next, blockStreams>>
    BY <1>1, <1>2, ZenonT(40) DEF ClientEnds
  <1>4. y \in StreamRec  BY <1>1, <1>2, ZenonT(40) DEF StreamRec
  <1>5. /\ y.st = "stopping" /\ y.from = bs[b].from /\ y.queue = bs[b].queue /\ y.got = bs[b].got
        /\ y.late = bs[b].late
    BY <1>1, <1>2, ZenonT(40) DEF StreamRec
  <1>6. RunOK(b, y, expected(b))  BY <1>5, ZenonT(40) DEF BlockInv, RunInv, RunOK
  <1> QED  BY <1>3, <1>4, <1>5, <1>6, StayStep, ZenonT(40)

\* Taking an element that is there once out of a sequence.
Without(q, k) == [i \in 1..(Len(q) - 1) |-> q[IF i < k THEN i ELSE i + 1]]

LEMMA SeqWithout ==
  ASSUME NEW S, NEW q \in Seq(S), Distinct(q), NEW k \in DOMAIN q, NEW p, p = Without(q, k)
  PROVE  p \in Seq(S) /\ Distinct(p) /\ Elements(p) = Elements(q) \ {q[k]}
  <1>1. Len(q) \in Nat /\ DOMAIN q = 1..Len(q) /\ k \in Nat /\ k >= 1 /\ k <= Len(q)  BY SeqAt
  <1>2. PICK n \in Nat : n = Len(q) - 1
    <2>1. Len(q) >= 1  BY <1>1
    <2>2. Len(q) - 1 \in Nat  BY <1>1, <2>1
    <2> QED  BY <2>2, Zenon
  <1>0. p = [i \in 1..n |-> q[IF i < k THEN i ELSE i + 1]]  BY <1>2, Zenon DEF Without
  <1>3. DOMAIN p = 1..n /\ \A i \in 1..n : p[i] = q[IF i < k THEN i ELSE i + 1]  BY <1>0, ZenonT(40)
  <1>4. \A i \in 1..n : i < k => i \in DOMAIN q /\ p[i] = q[i]  BY <1>1, <1>2, <1>3, SMTT(30)
  <1>5. \A i \in 1..n : ~(i < k) => i + 1 \in DOMAIN q /\ p[i] = q[i + 1] /\ i + 1 > k  BY <1>1, <1>2, <1>3
  <1>6. \A i \in DOMAIN q : q[i] \in S  BY SeqAt, Zenon
  <1>7. p \in Seq(S)
    <2>1. \A i \in 1..n : p[i] \in S  BY <1>4, <1>5, <1>6, ZenonT(40)
    <2>2. p \in [1..n -> S]  BY <1>0, <2>1, ZenonT(40)
    <2> QED  BY <2>2, SeqFun, ZenonT(40)
  <1>8. Distinct(p)
    <2>1. ASSUME NEW i \in 1..n, NEW j \in 1..n, p[i] = p[j]  PROVE  i = j
      <3>1. CASE i < k /\ j < k  BY <1>4, <2>1, <3>1, ZenonT(40) DEF Distinct
      <3>2. CASE i < k /\ ~(j < k)
        <4>1. i = j + 1  BY <1>4, <1>5, <2>1, <3>2, ZenonT(40) DEF Distinct
        <4> QED  BY <1>1, <1>5, <3>2, <4>1, SMTT(30)
      <3>3. CASE ~(i < k) /\ j < k
        <4>1. j = i + 1  BY <1>4, <1>5, <2>1, <3>3, ZenonT(40) DEF Distinct
        <4> QED  BY <1>1, <1>5, <3>3, <4>1, SMTT(30)
      <3>4. CASE ~(i < k) /\ ~(j < k)
        <4>1. i + 1 = j + 1  BY <1>5, <2>1, <3>4, SMTT(30) DEF Distinct
        <4> QED  BY <4>1
      <3> QED  BY <3>1, <3>2, <3>3, <3>4, ZenonT(40)
    <2> QED  BY <1>3, <2>1, ZenonT(40) DEF Distinct
  <1>9. \A i \in DOMAIN q : i # k => \E j \in 1..n : p[j] = q[i]
    <2>1. SUFFICES ASSUME NEW i \in DOMAIN q, i # k  PROVE  \E j \in 1..n : p[j] = q[i]  BY Zenon
    <2>2. CASE i < k
      <3>1. i \in 1..n  BY <1>1, <1>2, <2>2
      <3> QED  BY <1>4, <2>2, <3>1, ZenonT(40)
    <2>3. CASE i > k
      <3>1. PICK j \in 1..n : j = i - 1 /\ ~(j < k) /\ j + 1 = i  BY <1>1, <1>2, <2>3, SMTT(30)
      <3> QED  BY <1>5, <3>1, ZenonT(40)
    <2> QED  BY <1>1, <2>1, <2>2, <2>3, SMTT(30)
  <1>10. \A i \in 1..n : \E j \in DOMAIN q : j # k /\ p[i] = q[j]  BY <1>1, <1>4, <1>5, SMTT(30)
  <1>11. Elements(p) \subseteq Elements(q) \ {q[k]}  BY <1>3, <1>10 DEF Elements, Distinct
  <1>12. Elements(q) \ {q[k]} \subseteq Elements(p)  BY <1>3, <1>9 DEF Elements
  <1> QED  BY <1>7, <1>8, <1>11, <1>12, ZenonT(40)

LEMMA ReturnsStep ==
  ASSUME BlockInv, NEW b \in BlockStream, StreamBlocksReturns(b)
  PROVE  BlockInv'
  <1>1. PICK y : y = [bs[b] EXCEPT !.st = "ended"]  BY ZenonT(40)
  <1>2. bs \in [BlockStream -> StreamRec] /\ blockStreams \in Seq(BlockStream)  BY BlockFacts, Zenon
  <1>3. /\ bs[b].st \in {"cancelled", "stopping"} /\ bs' = [bs EXCEPT ![b] = y]
        /\ unregisterBlockStream(b) /\ UNCHANGED <<work, next>>
    BY <1>1, <1>2, ZenonT(40) DEF StreamBlocksReturns
  <1>4. y \in StreamRec  BY <1>1, <1>2, ZenonT(40) DEF StreamRec
  <1>5. /\ y.st = "ended" /\ y.from = bs[b].from /\ y.queue = bs[b].queue /\ y.got = bs[b].got
        /\ y.late = bs[b].late
    BY <1>1, <1>2, ZenonT(40) DEF StreamRec
  <1>6. RunOK(b, y, expected(b))  BY <1>3, <1>5, ZenonT(40) DEF BlockInv, RunInv, RunOK
  <1>7. Distinct(blockStreams) /\ b \in Elements(blockStreams)  BY <1>3, Zenon DEF BlockInv, RegisteredInv
  <1>8. PICK k : k = CHOOSE i \in DOMAIN blockStreams : blockStreams[i] = b  BY Zenon
  <1>9. k \in DOMAIN blockStreams /\ blockStreams[k] = b  BY <1>7, <1>8, Zenon DEF Elements
  <1>10. blockStreams' = Without(blockStreams, k)
    BY <1>3, <1>8, Zenon DEF unregisterBlockStream, Without
  <1>11. /\ blockStreams' \in Seq(BlockStream) /\ Distinct(blockStreams')
         /\ Elements(blockStreams') = Elements(blockStreams) \ {b}
    BY <1>2, <1>7, <1>9, <1>10, SeqWithout
  <1> QED  BY <1>3, <1>4, <1>5, <1>6, <1>11, StreamStep, ZenonT(40)

-----------------------------------------------------------------------------
(* The goroutine sends a block to the streams *)

LEMMA DispatchBlockStep ==
  ASSUME ReqInv, BlockInv, dispatchBlockToStreams
  PROVE  BlockInv'
  <1>1. /\ work.streams = <<>> /\ next <= Len(Blocks) /\ next' = next + 1 /\ blockStreams' = blockStreams
        /\ work'.streams = blockStreams /\ (blockStreams # <<>> => work'.block = next)
    BY Zenon DEF dispatchBlockToStreams, Idle
  <1>2. bs' = [b \in BlockStream |-> IF b \in Elements(blockStreams) /\ bs[b].from = 0
                                     THEN [bs[b] EXCEPT !.from = next] ELSE bs[b]]
    BY Zenon DEF dispatchBlockToStreams
  <1>3. /\ next \in Nat /\ next > 0 /\ Len(Blocks) \in Nat /\ bs \in [BlockStream -> StreamRec]
        /\ blockStreams \in Seq(BlockStream)
    BY BlockFacts, Zenon
  <1>4. ASSUME NEW b \in BlockStream
        PROVE  /\ bs'[b] \in StreamRec /\ bs'[b].st = bs[b].st /\ RunOK(b, bs'[b], expected(b)')
               /\ (bs'[b].from = 0 => b \notin Elements(work'.streams))
    <2>1. PICK x \in StreamRec : x = bs[b]  BY <1>3, Zenon
    <2>2. RunOK(b, x, next)  BY <1>1, <2>1 DEF BlockInv, RunInv, expected, Elements
    <2>3. expected(b)' = IF b \in Elements(blockStreams) THEN next ELSE next + 1
      <3>1. next' - 1 = next /\ next' = next + 1  BY <1>1, <1>3
      <3>2. Elements(work.streams)' = Elements(blockStreams)  BY <1>1, Zenon DEF Elements
      <3> QED  BY <3>1, <3>2, ZenonT(40) DEF expected
    <2>4. b \in Elements(blockStreams) <=> x.st \in {"open", "cancelled", "stopping"}
      BY <2>1, Zenon DEF BlockInv, RegisteredInv
    <2>5. CASE b \in Elements(blockStreams) /\ x.from = 0
      <3>1. bs'[b] = [x EXCEPT !.from = next]  BY <1>2, <2>1, <2>5, ZenonT(40)
      <3>2. PICK y : y = [x EXCEPT !.from = next]  BY Zenon
      <3>3. y \in StreamRec  BY <1>3, <3>2, ZenonT(40) DEF StreamRec
      <3>4. y.from = next /\ y.st = x.st /\ y.queue = x.queue /\ y.got = x.got /\ y.late = x.late
        BY <3>2, Zenon DEF StreamRec
      <3>5. x.got = <<>> /\ x.queue = <<>> /\ x.st # "cancelled" /\ x.st # "new" /\ (x.st = "open" => ~x.late)
        BY <2>2, <2>4, <2>5, ZenonT(40) DEF RunOK
      <3>6. RunOK(b, y, next)  BY <1>3, <3>4, <3>5 DEF RunOK, GotOK
      <3> QED  BY <1>1, <1>3, <2>1, <2>3, <2>5, <3>1, <3>2, <3>3, <3>4, <3>6, SMTT(30)
    <2>6. CASE b \in Elements(blockStreams) /\ x.from # 0
      <3>1. bs'[b] = x  BY <1>2, <2>1, <2>6, ZenonT(40)
      <3> QED  BY <2>1, <2>2, <2>3, <2>6, <3>1, ZenonT(40)
    <2>7. CASE b \notin Elements(blockStreams)
      <3>1. bs'[b] = x  BY <1>2, <2>1, <2>7, ZenonT(40)
      <3>2. RunOK(b, x, next + 1)  BY <1>3, <2>2, <2>4, <2>7, RunSkip, ZenonT(40)
      <3> QED  BY <1>1, <2>1, <2>3, <2>7, <3>1, <3>2, ZenonT(40)
    <2> QED  BY <2>5, <2>6, <2>7, ZenonT(40)
  <1>5. BlockType'
    <2>1. bs' \in [BlockStream -> StreamRec]  BY <1>2, <1>4, Zenon
    <2>2. next' \in 1..Len(Blocks) + 1 /\ next' > 1 /\ next' - 1 = next  BY <1>1, <1>3
    <2> QED  BY <1>1, <1>3, <2>1, <2>2, Zenon DEF BlockType
  <1>6. RegisteredInv'  BY <1>1, <1>4, Zenon DEF BlockInv, RegisteredInv
  <1>7. RunInv'  BY <1>4, Zenon DEF RunInv
  <1> QED  BY <1>5, <1>6, <1>7, ZenonT(40) DEF BlockInv

\* After a stream of the loop, the next one.
LEMMA LoopFacts ==
  ASSUME ReqInv, BlockInv, work.streams # <<>>, NextStream, next' = next, NEW b, b = Head(work.streams)
  PROVE  /\ b \in BlockStream /\ b \in Elements(work.streams)
         /\ Distinct(work'.streams) /\ Elements(work'.streams) = Elements(work.streams) \ {b}
         /\ expected(b) = next - 1 /\ expected(b)' = next
         /\ \A c \in BlockStream \ {b} : expected(c)' = expected(c)
         /\ work.block = next - 1 /\ (work'.streams # <<>> => work'.block = next - 1)
  <1>1. work'.streams = Tail(work.streams) /\ (work'.streams # <<>> => work'.block = work.block)
    BY NextStreamStep, Zenon
  <1>2. PICK q \in Seq(BlockStream) : q = work.streams  BY Zenon DEF ReqInv, TypeOK, Works
  <1>11. PICK p : p = Tail(q)  BY Zenon
  <1>3. /\ p \in Seq(BlockStream) /\ Len(p) = Len(q) - 1 /\ b = q[1] /\ 1 \in DOMAIN q /\ b \in BlockStream
        /\ \A i \in DOMAIN p : i + 1 \in DOMAIN q /\ p[i] = q[i + 1]
    BY <1>2, <1>11, SeqTail, Zenon
  <1>4. Distinct(q)  BY <1>2, Zenon DEF BlockInv, RegisteredInv
  <1>5. DOMAIN p = 1..Len(p) /\ DOMAIN q = 1..Len(q) /\ Len(p) \in Nat /\ Len(q) \in Nat  BY <1>2, <1>3, SeqAt, Zenon
  <1>6. Distinct(p)
    <2>1. ASSUME NEW i \in DOMAIN p, NEW j \in DOMAIN p, p[i] = p[j]  PROVE  i = j
      <3>1. i + 1 = j + 1  BY <1>3, <1>4, <2>1 DEF Distinct
      <3> QED  BY <1>5, <3>1
    <2> QED  BY <2>1, Zenon DEF Distinct
  <1>7. Elements(p) = Elements(q) \ {b}
    <2>1. ASSUME NEW i \in DOMAIN p  PROVE  p[i] \in Elements(q) /\ p[i] # b
      <3>1. i + 1 # 1 /\ i + 1 \in DOMAIN q /\ p[i] = q[i + 1]  BY <1>3, <1>5
      <3> QED  BY <1>3, <1>4, <3>1, ZenonT(40) DEF Elements, Distinct
    <2>2. ASSUME NEW i \in DOMAIN q, q[i] # b  PROVE  q[i] \in Elements(p)
      <3>1. i # 1  BY <1>3, <2>2, ZenonT(40)
      <3>2. PICK j \in DOMAIN p : j + 1 = i
        <4>1. PICK l \in Nat : l = Len(q) /\ Len(p) = l - 1 /\ i \in 1..l  BY <1>3, <1>5, ZenonT(40)
        <4>2. PICK j \in 1..(l - 1) : j + 1 = i
          <5>1. i - 1 \in 1..(l - 1) /\ (i - 1) + 1 = i  BY <3>1, <4>1
          <5> QED  BY <5>1, Zenon
        <4> QED  BY <1>5, <4>1, <4>2, ZenonT(40)
      <3> QED  BY <1>3, <3>2, ZenonT(40) DEF Elements
    <2>3. Elements(p) \subseteq Elements(q) \ {b}  BY <2>1, Zenon DEF Elements
    <2>4. Elements(q) \ {b} \subseteq Elements(p)  BY <2>2, Zenon DEF Elements
    <2> QED  BY <2>3, <2>4, ZenonT(40)
  <1>8. b \in Elements(q)  BY <1>3, Zenon DEF Elements
  <1>9. work.block = next - 1  BY Zenon DEF BlockInv, BlockType
  <1>10. Elements(work.streams) = Elements(q) /\ Elements(work'.streams) = Elements(p)  BY <1>1, <1>2, <1>11, ZenonT(40)
  <1>12. \A c : expected(c)' = IF c \in Elements(p) THEN next - 1 ELSE next
    <2>1. Elements(work.streams)' = Elements(p)  BY <1>10, Zenon DEF Elements
    <2> QED  BY <2>1, Zenon DEF expected
  <1>13. \A c : expected(c) = IF c \in Elements(q) THEN next - 1 ELSE next  BY <1>10, Zenon DEF expected
  <1> QED  BY <1>1, <1>2, <1>3, <1>6, <1>7, <1>8, <1>9, <1>10, <1>11, <1>12, <1>13, ZenonT(40)

LEMMA SendStep ==
  ASSUME ReqInv, BlockInv, work.streams # <<>>, NextStream, UNCHANGED <<next, blockStreams>>,
         NEW b, b = Head(work.streams),
         NEW y \in StreamRec, bs' = [bs EXCEPT ![b] = y], RunOK(b, y, next),
         y.from = bs[b].from, y.st = bs[b].st \/ {y.st, bs[b].st} \subseteq {"open", "cancelled", "stopping"}
  PROVE  BlockInv'
  <1>1. /\ b \in BlockStream /\ Distinct(work'.streams) /\ Elements(work'.streams) = Elements(work.streams) \ {b}
        /\ expected(b)' = next /\ \A c \in BlockStream \ {b} : expected(c)' = expected(c)
        /\ work.block = next - 1 /\ (work'.streams # <<>> => work'.block = next - 1)
    BY LoopFacts, Zenon
  <1>2. bs \in [BlockStream -> StreamRec]  BY BlockFacts, Zenon
  <1>3. bs' \in [BlockStream -> StreamRec] /\ bs'[b] = y /\ \A c \in BlockStream \ {b} : bs'[c] = bs[c]
    BY <1>1, <1>2, Zenon
  <1>4. BlockType'  BY <1>1, <1>3, Zenon DEF BlockInv, BlockType
  <1>5. RegisteredInv'
    <2>1. \A c \in BlockStream : bs'[c].st \in {"open", "cancelled", "stopping"}
                             <=> bs[c].st \in {"open", "cancelled", "stopping"}
      BY <1>1, <1>3, Zenon
    <2> QED  BY <1>1, <2>1, Zenon DEF BlockInv, RegisteredInv
  <1>6. ASSUME NEW c \in BlockStream
        PROVE  RunOK(c, bs'[c], expected(c)') /\ (bs'[c].from = 0 => c \notin Elements(work'.streams))
    <2>1. RunOK(c, bs[c], expected(c)) /\ (bs[c].from = 0 => c \notin Elements(work.streams))
      BY Zenon DEF BlockInv, RunInv
    <2>2. CASE c = b  BY <1>1, <1>3, <2>1, <2>2, ZenonT(40)
    <2>3. CASE c # b  BY <1>1, <1>3, <2>1, <2>3, ZenonT(40)
    <2> QED  BY <2>2, <2>3, Zenon
  <1>7. RunInv'  BY <1>6, Zenon DEF RunInv
  <1> QED  BY <1>4, <1>5, <1>7, ZenonT(40) DEF BlockInv

LEMMA LoopBlockStep ==
  ASSUME ReqInv, BlockInv, SendBlock \/ SendBlockTimesOut \/ CancelSlowStream
  PROVE  BlockInv'
  <1>1. CASE SendBlockTimesOut
    <2>1. work' = [work EXCEPT !.slow = TRUE] /\ UNCHANGED blockPart  BY <1>1, Zenon DEF SendBlockTimesOut
    <2>2. work \in Works  BY Zenon DEF ReqInv, TypeOK
    <2>3. work'.streams = work.streams /\ work'.block = work.block  BY <2>1, <2>2, Zenon DEF Works
    <2> QED  BY <2>1, <2>3, BlockAside, Zenon
  <1>2. CASE SendBlock \/ CancelSlowStream
    <2>1. work.streams # <<>> /\ NextStream /\ UNCHANGED <<next, blockStreams>>
      BY <1>2, Zenon DEF SendBlock, CancelSlowStream, ReqInv, WorkInv
    <2>2. PICK b : b = Head(work.streams)  BY Zenon
    <2>3. b \in BlockStream /\ b \in Elements(work.streams) /\ expected(b) = next - 1 /\ work.block = next - 1
      BY <2>1, <2>2, LoopFacts, ZenonT(40)
    <2>4. PICK x \in StreamRec : x = bs[b]  BY <2>3, BlockFacts, Zenon
    <2>5. bs \in [BlockStream -> StreamRec]  BY BlockFacts, Zenon
    <2>6. PICK e \in 1..Len(Blocks) : e = next - 1 /\ e \in Nat /\ e + 1 = next
      <3>1. next \in Nat /\ Len(Blocks) \in Nat /\ next <= Len(Blocks) + 1  BY BlockFacts, Zenon
      <3>2. next > 1  BY <2>1, Zenon DEF BlockInv, BlockType
      <3>3. next - 1 \in 1..Len(Blocks) /\ next - 1 \in Nat /\ (next - 1) + 1 = next  BY <3>1, <3>2
      <3> QED  BY <3>3, Zenon
    <2>7. RunOK(b, x, e) /\ x.from # 0  BY <2>3, <2>4, <2>6, ZenonT(40) DEF BlockInv, RunInv
    <2>8. CASE x.st # "open" /\ UNCHANGED bs
      <3>1. RunOK(b, x, next)  BY <2>3, <2>6, <2>7, <2>8, RunSkip, ZenonT(40)
      <3>2. bs' = [bs EXCEPT ![b] = x]  BY <2>3, <2>4, <2>5, <2>8, ZenonT(40)
      <3> QED  BY <2>1, <2>2, <2>4, <3>1, <3>2, SendStep, ZenonT(40)
    <2>9. CASE bs' = [bs EXCEPT ![b].queue = Append(@, work.block)]
      <3>1. PICK y : y = [x EXCEPT !.queue = Append(@, e)]  BY Zenon
      <3>2. Append(x.queue, e) \in Seq(1..Len(Blocks))  BY <2>6, SeqAppend, ZenonT(40) DEF StreamRec
      <3>3. y \in StreamRec  BY <3>1, <3>2, Zenon DEF StreamRec
      <3>4. Puts(x, y, e)  BY <3>1, Zenon DEF StreamRec, Puts
      <3>5. RunOK(b, y, next)  BY <2>3, <2>6, <2>7, <3>3, <3>4, RunPut, ZenonT(40)
      <3>6. bs' = [bs EXCEPT ![b] = y]  BY <2>3, <2>4, <2>6, <2>9, <3>1, ZenonT(40)
      <3>7. y.from = x.from /\ y.st = x.st  BY <3>4, ZenonT(40) DEF Puts
      <3> QED  BY <2>1, <2>2, <2>4, <3>3, <3>5, <3>6, <3>7, SendStep, ZenonT(40)
    <2>10. CASE x.st = "open" /\ bs' = [bs EXCEPT ![b].st = "cancelled"]
      <3>1. PICK y : y = [x EXCEPT !.st = "cancelled"]  BY Zenon
      <3>2. y \in StreamRec  BY <3>1, ZenonT(40) DEF StreamRec
      <3>3. y.from = x.from /\ y.st = "cancelled"  BY <3>1, ZenonT(40) DEF StreamRec
      <3>4. RunOK(b, y, next)  BY <2>3, <2>6, <2>7, <2>10, <3>1, <3>2, RunCancel, ZenonT(40)
      <3>5. bs' = [bs EXCEPT ![b] = y]  BY <2>3, <2>4, <2>10, <3>1, ZenonT(40)
      <3> QED  BY <2>1, <2>2, <2>4, <2>10, <3>2, <3>3, <3>4, <3>5, SendStep, ZenonT(40)
    <2> QED  BY <1>2, <2>2, <2>4, <2>8, <2>9, <2>10, ZenonT(40) DEF SendBlock, CancelSlowStream, onSlow
  <1> QED  BY <1>1, <1>2, Zenon

LEMMA BlockNext ==
  ASSUME ReqInv, BlockInv, [Next]_vars
  PROVE  BlockInv'
  <1>1. CASE Run
    <2>1. CASE dispatchBlockToStreams  BY <2>1, DispatchBlockStep, ZenonT(40)
    <2>2. CASE SendBlock \/ SendBlockTimesOut \/ CancelSlowStream  BY <2>2, LoopBlockStep, ZenonT(40)
    <2>3. CASE \/ HandleRequest \/ StartTimer \/ removeAndEnqueueStatusEvents
               \/ \E r \in timeoutQueue : removeAndEnqueueTimeoutEvents(r)
               \/ \E e \in work.writes : Write(e) \/ WriteTimesOut(e)
      BY <2>3, RequestsAside, ZenonT(40)
    <2> QED  BY <1>1, <2>1, <2>2, <2>3, ZenonT(40) DEF Run
  <1>2. CASE Timers
    <2>1. UNCHANGED <<work, blockPart>>  BY <1>2, Zenon DEF Timers, FireTimer
    <2> QED  BY <2>1, BlockAside, Zenon
  <1>3. CASE Workers  BY <1>3, WorkerStep, ReturnsStep, ZenonT(40) DEF Workers
  <1>4. CASE Readers
    <2>1. UNCHANGED <<work, blockPart>>  BY <1>4, Zenon DEF Readers, Receive
    <2> QED  BY <2>1, BlockAside, Zenon
  <1>5. CASE Environment
    <2>1. CASE \E b \in BlockStream : registerBlockStream(b)  BY <2>1, RegisterStep, Zenon
    <2>2. CASE \E b \in Leaving \cap BlockStream : ClientEnds(b)  BY <2>2, ClientEndsStep, ZenonT(40)
    <2>3. CASE \/ \E s \in Stream, ids \in Asks : Request(s, ids)
               \/ \E s \in Leaving \cap Stream : Close(s)
               \/ \E ids \in Batches : Report(ids)
      <3>1. UNCHANGED <<work, blockPart>>  BY <2>3, ZenonT(40) DEF Request, Close, Report
      <3> QED  BY <3>1, BlockAside, Zenon
    <2> QED  BY <1>5, <2>1, <2>2, <2>3, ZenonT(40) DEF Environment
  <1>6. CASE UNCHANGED vars
    <2>1. UNCHANGED <<work, blockPart>>  BY <1>6, Zenon DEF vars
    <2> QED  BY <2>1, BlockAside, Zenon
  <1> QED  BY <1>1, <1>2, <1>3, <1>4, <1>5, <1>6, ZenonT(40) DEF Next

-----------------------------------------------------------------------------
(* Theorems *)

\* The inductive invariant holds in every state the notifier reaches.
THEOREM Invariance == Spec => [](ReqInv /\ BlockInv)
  <1>1. Init => ReqInv /\ BlockInv  BY ReqInit, BlockInit, ZenonT(40)
  <1>2. ReqInv /\ BlockInv /\ [Next]_vars => (ReqInv /\ BlockInv)'  BY ReqNext, BlockNext, ZenonT(40)
  <1> QED  BY <1>1, <1>2, PTL DEF Spec

\* The free slots and the subscriptions always add up to MaxActiveTxIDs, however
\* requests repeat ids, statuses end several subscriptions and timers fire
\* (addRequest, removeAndEnqueueStatusEvents, removeAndEnqueueTimeoutEvents).
THEOREM SlotsAreExact == Spec => []SlotsExact
  <1>1. ReqInv /\ BlockInv => SlotsExact  BY Zenon DEF ReqInv, SlotsInv
  <1> QED  BY <1>1, Invariance, PTL

\* An accepted id is subscribed until exactly one answer to it is produced, and an id
\* that was not accepted gets none, in whatever order statuses, timeouts and the
\* writes to full or ended streams come.
THEOREM AcceptedAnsweredOnce == Spec => []AnsweredOnce
  <1>1. ReqInv => AnsweredOnce
    <2> SUFFICES ASSUME ReqInv, NEW r \in DOMAIN req, NEW id \in TxID
                 PROVE  Cardinality(Answers(r, id)) = IF id \in req[r].accepted \ Subscribed(r) THEN 1 ELSE 0
      BY Zenon DEF AnsweredOnce
    <2>1. Answers(r, id) = ToldOf(r, id) \cup {e.kind : e \in WritesOf(r, id)}
      BY Zenon DEF Answers, ToldOf, WritesOf, Answer
    <2>2. IF id \in req[r].accepted \ Subscribed(r)
          THEN \/ WritesOf(r, id) = {} /\ \E k \in Answer : ToldOf(r, id) = {k}
               \/ ToldOf(r, id) = {} /\ \E e \in work.writes : WritesOf(r, id) = {e}
          ELSE ToldOf(r, id) = {} /\ WritesOf(r, id) = {}
      BY Zenon DEF ReqInv, AnswerInv
    <2>3. CASE id \in req[r].accepted \ Subscribed(r)
      <3>2. ASSUME WritesOf(r, id) = {}, NEW k \in Answer, ToldOf(r, id) = {k}
            PROVE  Answers(r, id) = {k}
        <4>1. {e.kind : e \in WritesOf(r, id)} = {}  BY <3>2, Zenon
        <4> QED  BY <2>1, <3>2, <4>1, Zenon
      <3>3. ASSUME ToldOf(r, id) = {}, NEW e \in work.writes, WritesOf(r, id) = {e}
            PROVE  Answers(r, id) = {e.kind}
        <4>1. {f.kind : f \in WritesOf(r, id)} = {e.kind}  BY <3>3, Zenon
        <4> QED  BY <2>1, <3>3, <4>1, Zenon
      <3>1. \E k : Answers(r, id) = {k}  BY <2>2, <2>3, <3>2, <3>3, ZenonT(40)
      <3> QED  BY <2>3, <3>1, FS_Singleton, Zenon
    <2>4. CASE id \notin req[r].accepted \ Subscribed(r)
      <3>1. Answers(r, id) = {}  BY <2>1, <2>2, <2>4, Zenon
      <3> QED  BY <2>4, <3>1, FS_EmptySet, Zenon
    <2> QED  BY <2>3, <2>4, Zenon
  <1> QED  BY <1>1, Invariance, PTL

\* No request waits without a timer: it runs, it fired and waits to be handled, or it
\* is about to be started after the rejection of other ids is written (addRequest).
\* Its pending counter, which decides when the timer is stopped, says on how many ids
\* it waits.
WaitsWithTimer == \A r \in DOMAIN req : Subscribed(r) # {} =>
  /\ req[r].pending = Cardinality(Subscribed(r))
  /\ req[r].timer = "armed" \/ r \in timeoutQueue \/ work.arm = r

\* A subscription can always end by a timeout: no interleaving of statuses, rejections
\* and timers leaves a request that waits for an id without one.
THEOREM RequestsAreTimed == Spec => []WaitsWithTimer
  <1>1. ReqInv => WaitsWithTimer  BY Zenon DEF ReqInv, TimedInv, WaitsWithTimer
  <1> QED  BY <1>1, Invariance, PTL

LEMMA EventId ==
  ASSUME NEW n, NEW ns, NEW e, e = [id |-> n, namespaces |-> ns]
  PROVE  e.id = n
  BY Zenon

\* The events of a block are those its filters select.
LEMMA FilteredEvents ==
  ASSUME NEW b \in BlockStream, NEW txs, NEW ev, ev = filterAndBuildEvents(b, txs)
  PROVE  {e.id : e \in Elements(ev)}
         = {tx.id : tx \in {t \in Elements(txs) :
               /\ FilterStatus[b] = {} \/ t.status \in FilterStatus[b]
               /\ FilterNamespaces[b] = {} \/ t.namespaces \cap FilterNamespaces[b] # {}}}
  <1> DEFINE sel(t) == /\ FilterStatus[b] = {} \/ t.status \in FilterStatus[b]
                       /\ FilterNamespaces[b] = {} \/ t.namespaces \cap FilterNamespaces[b] # {}
  <1>1. PICK kept : kept = {i \in DOMAIN txs : sel(txs[i])}  BY Zenon
  <1>2. PICK event : event = [i \in kept |-> [id |-> txs[i].id, namespaces |-> filterNamespaces(b, txs[i])]]
    BY Zenon
  <1>3. ev = event  BY <1>1, <1>2, ZenonT(40) DEF filterAndBuildEvents, filterNamespaces
  <1>4. DOMAIN ev = kept  BY <1>2, <1>3, ZenonT(40)
  <1>5. ASSUME NEW i \in kept  PROVE  ev[i].id = txs[i].id
    <2>1. ev[i] = [id |-> txs[i].id, namespaces |-> filterNamespaces(b, txs[i])]  BY <1>2, <1>3, ZenonT(40)
    <2>2. PICK n, ns : n = txs[i].id /\ ns = filterNamespaces(b, txs[i])  BY Zenon
    <2>3. ev[i] = [id |-> n, namespaces |-> ns]  BY <2>1, <2>2, ZenonT(40)
    <2>4. ev[i].id = n  BY <2>3, EventId, ZenonT(40)
    <2> QED  BY <2>2, <2>4, ZenonT(40)
  <1>6. {e.id : e \in Elements(ev)} = {txs[i].id : i \in kept}
    <2>1. \A v : v \in {e.id : e \in Elements(ev)} <=> \E i \in kept : v = ev[i].id
      BY <1>4, Zenon DEF Elements
    <2>2. \A v : v \in {txs[i].id : i \in kept} <=> \E i \in kept : v = txs[i].id  BY Zenon
    <2>3. \A v : (\E i \in kept : v = ev[i].id) <=> \E i \in kept : v = txs[i].id  BY <1>5, Zenon
    <2> QED  BY <2>1, <2>2, <2>3, ZenonT(40)
  <1>7. {tx.id : tx \in {t \in Elements(txs) : sel(t)}} = {txs[i].id : i \in kept}
    BY <1>1, Zenon DEF Elements
  <1> QED  BY <1>6, <1>7, Zenon

\* A client of StreamBlocks gets a run of consecutive blocks, filtered as it asked,
\* for any number of streams, blocks and filters and wherever streams register, fall
\* behind or end; only the block a worker takes after its stream was cancelled may
\* come after a gap (dispatchBlockToStreams, streamWorker).
THEOREM BlocksInARun == Spec => []BlockRun
  <1>1. BlockInv => BlockRun
    <2> SUFFICES ASSUME BlockInv, NEW b \in BlockStream, NEW i \in DOMAIN bs[b].got
                 PROVE  /\ IF bs[b].late /\ i = Len(bs[b].got)
                           THEN bs[b].got[i].number >= bs[b].from + i - 1
                           ELSE bs[b].got[i].number = bs[b].from + i - 1
                        /\ {e.id : e \in Elements(bs[b].got[i].events)}
                           = {tx.id : tx \in {t \in Elements(Blocks[bs[b].got[i].number]) :
                                /\ FilterStatus[b] = {} \/ t.status \in FilterStatus[b]
                                /\ FilterNamespaces[b] = {} \/ t.namespaces \cap FilterNamespaces[b] # {}}}
      BY Zenon DEF BlockRun
    <2>1. GotOK(b, bs[b].from, bs[b].late, bs[b].got)  BY Zenon DEF BlockInv, RunInv, RunOK
    <2>2. PICK ev, txs : ev = bs[b].got[i].events /\ txs = Blocks[bs[b].got[i].number]  BY Zenon
    <2>3. ev = filterAndBuildEvents(b, txs)  BY <2>1, <2>2, ZenonT(40) DEF GotOK
    <2>4. {e.id : e \in Elements(ev)}
          = {tx.id : tx \in {t \in Elements(txs) :
                /\ FilterStatus[b] = {} \/ t.status \in FilterStatus[b]
                /\ FilterNamespaces[b] = {} \/ t.namespaces \cap FilterNamespaces[b] # {}}}
      BY <2>3, FilteredEvents, ZenonT(40)
    <2>5. IF bs[b].late /\ i = Len(bs[b].got) THEN bs[b].got[i].number >= bs[b].from + i - 1
                                              ELSE bs[b].got[i].number = bs[b].from + i - 1
      BY <2>1, Zenon DEF GotOK
    <2> QED  BY <2>2, <2>4, <2>5, ZenonT(40)
  <1> QED  BY <1>1, Invariance, PTL

==============================================================================
