--------------------------- MODULE QueryViewsProofs ---------------------------
(***************************************************************************)
(* Proof that views which share a batcher see one version of the state, and *)
(* that a queried batch holds the keys of everybody who waits for it, for   *)
(* any number of views, requests, batchers and batches.                     *)
(***************************************************************************)
EXTENDS QueryViews, FiniteSetTheorems, TLAPS

Holder ==
    [st : {"none", "refused", "open", "ended", "retired"}, batcher : Nat, lock : Req \cup {NoReq}]

Batcher ==
    [key : 0..3, ref : Nat, dead : BOOLEAN, tx : {"none", "open", "closed"}, snap : Nat, user : Nat]

Batch ==
    [of : Nat, keys : SUBSET Req, st : {"open", "submitted", "querying", "done"},
     cause : {"none", "ok", "failed"}, asked : SUBSET Req, result : Nat]

Assigning == {"nupdate", "nassign"}

Locals ==
    [pc : {"new", "lock", "bupdate", "bassign", "wait"} \cup Assigning \cup Ended,
     view : View \cup {NoView}, namespaces : Seq(STRING), b : Nat, val : Nat,
     joined : Seq(Nat), rows : Seq(Nat)]

TypeOK ==
    /\ view \in [View -> Holder]
    /\ batcher \in Seq(Batcher)
    /\ batch \in Seq(Batch)
    /\ req \in [Req -> Locals]
    /\ latest \in [0..3 -> Nat]
    /\ version \in Nat \ {0}

\* What names a batcher or a batch names one that was created.
Named(e, batchers, batches) ==
    /\ e.b <= batchers
    /\ e.pc \in {"bupdate", "bassign"} => e.val <= batchers
    /\ e.pc \in {"lock", "bupdate", "bassign"} => e.view \in View
    /\ e.pc \in Assigning => e.val <= batches
    /\ e.pc \in {"new", "lock"} => e.val = 0

NamesExist ==
    /\ \A v \in View : view[v].batcher <= Len(batcher)
    /\ \A k \in 0..3 : latest[k] <= Len(batcher)
    /\ \A q \in DOMAIN batch : batch[q].of <= Len(batcher)
    /\ \A x \in DOMAIN nsLatest : nsLatest[x] \in DOMAIN batch
    /\ \A r \in Req : Named(req[r], Len(batcher), Len(batch))

\* The rows of a batch are those of its batcher's snapshot, and the keys of a
\* batch are fixed when its query is built.
BatchInv(q) ==
    /\ LET b == batch[q].of
       IN  b # 0 /\ batcher[b].key <= 2 /\ batch[q].result # 0 => batch[q].result = batcher[b].snap
    /\ batch[q].st = "querying" => batch[q].keys = batch[q].asked
    /\ batch[q].cause = "ok" => batch[q].st = "done" /\ batch[q].result # 0 /\ batch[q].keys = batch[q].asked

\* A request is in the batches it joined, and has read rows only of batches
\* that had ended.
RequestInv(r) ==
    /\ \A i \in DOMAIN req[r].joined :
          req[r].joined[i] \in DOMAIN batch /\ r \in batch[req[r].joined[i]].keys
    /\ Len(req[r].rows) <= Len(req[r].joined)
    /\ req[r].pc = "wait" => Len(req[r].rows) < Len(req[r].joined)
                          /\ Len(req[r].joined) = Len(req[r].namespaces)
    /\ req[r].pc \in Assigning => Len(req[r].joined) < Len(req[r].namespaces)
    /\ req[r].pc \notin {"wait", "answered"} => req[r].rows = <<>>
    /\ req[r].pc \in {"new", "lock", "bupdate", "bassign"} => req[r].joined = <<>>
    /\ req[r].pc \in {"lock", "bupdate", "bassign"} => req[r].namespaces # <<>>
    /\ \A i \in DOMAIN req[r].rows :
          /\ BatchEnded(req[r].joined[i])
          /\ batch[req[r].joined[i]].cause = "ok" => req[r].rows[i] # 0

\* The inductive invariant of ViewConsistent.
QInv ==
    /\ TypeOK
    /\ NamesExist
    /\ \A q \in DOMAIN batch : BatchInv(q)
    /\ \A r \in Req : RequestInv(r)

\* What no step undoes: the key and the end of a batcher, and of a batch its
\* batcher, its keys and, once it has ended, its cause.
Later ==
    /\ Len(batcher) <= Len(batcher') /\ Len(batch) <= Len(batch')
    /\ \A b \in DOMAIN batcher : batcher'[b].key = batcher[b].key /\ (batcher[b].dead => batcher'[b].dead)
    /\ \A q \in DOMAIN batch :
          /\ batch'[q].of = batch[q].of /\ batch[q].keys \subseteq batch'[q].keys
          /\ BatchEnded(q) => batch'[q].cause = batch[q].cause

LEMMA QInvInit == Init => QInv
  <1> SUFFICES ASSUME Init PROVE QInv  BY Zenon
  <1>1. TypeOK  BY DEF Init, TypeOK, Holder, locals, Locals, Ended, Assigning
  <1>2. NamesExist  BY DEF Init, NamesExist, Named, locals, Assigning
  <1>3. \A r \in Req : RequestInv(r)  BY DEF Init, RequestInv, locals, Assigning
  <1> QED  BY <1>1, <1>2, <1>3 DEF QInv, Init

LEMMA SeqElements ==
    ASSUME NEW S, NEW s \in Seq(S)
    PROVE  DOMAIN s = 1..Len(s) /\ Len(s) \in Nat /\ \A i \in DOMAIN s : s[i] \in S
  OBVIOUS

LEMMA SeqAppend ==
    ASSUME NEW S, NEW s \in Seq(S), NEW e \in S
    PROVE  LET u == Append(s, e)
           IN  /\ u \in Seq(S) /\ Len(u) = Len(s) + 1 /\ u[Len(s) + 1] = e
               /\ DOMAIN u = DOMAIN s \cup {Len(s) + 1} /\ \A j \in DOMAIN s : u[j] = s[j]
  <1> DEFINE u == Append(s, e)
  <1>1. u \in Seq(S) /\ Len(u) = Len(s) + 1 /\ u[Len(s) + 1] = e /\ \A j \in DOMAIN s : u[j] = s[j]
    OBVIOUS
  <1>2. DOMAIN u = 1..(Len(s) + 1) /\ DOMAIN s = 1..Len(s) /\ Len(s) \in Nat  BY SeqElements
  <1>3. DOMAIN u = DOMAIN s \cup {Len(s) + 1}
    <2> HIDE DEF u
    <2> QED  BY <1>2
  <1> QED  BY <1>1, <1>3, Zenon

LEMMA SeqUpdate ==
    ASSUME NEW S, NEW s \in Seq(S), NEW i \in DOMAIN s, NEW e \in S
    PROVE  LET u == [s EXCEPT ![i] = e]
           IN  /\ u \in Seq(S) /\ Len(u) = Len(s) /\ DOMAIN u = DOMAIN s
               /\ u[i] = e /\ \A j \in DOMAIN s : j # i => u[j] = s[j]
  OBVIOUS

\* A batch that has ended stays so, with its cause.
LEMMA EndedStays ==
    ASSUME TypeOK, TypeOK', NamesExist, Later, NEW q \in DOMAIN batch, BatchEnded(q)
    PROVE  BatchEnded(q)' /\ batch'[q].cause = batch[q].cause
  <1>1. /\ batch'[q].cause = batch[q].cause
        /\ batch'[q].of = batch[q].of
    BY Zenon DEF Later
  <1>2. CASE batch[q].cause # "none"
    BY <1>1, <1>2, Zenon DEF BatchEnded
  <1>3. CASE Dead(batch[q].of)
    <2>1. batch[q] \in Batch /\ DOMAIN batcher = 1..Len(batcher) /\ Len(batcher) \in Nat
      BY SeqElements, Zenon DEF TypeOK
    <2>2. batch[q].of \in DOMAIN batcher
      BY <1>3, <2>1 DEF Dead, NamesExist, Batch
    <2>3. batcher'[batch[q].of].dead  BY <1>3, <2>2, Zenon DEF Later, Dead
    <2> QED  BY <1>1, <1>3, <2>3, Zenon DEF BatchEnded, Dead
  <1> QED  BY <1>2, <1>3, Zenon DEF BatchEnded

\* A step that leaves a request alone keeps what it relies on.
LEMMA RequestKept ==
    ASSUME TypeOK, TypeOK', NamesExist, Later, NEW r \in Req, RequestInv(r), req'[r] = req[r]
    PROVE  RequestInv(r)'
  <1> DEFINE mine == req[r]
  <1>0. /\ mine \in Locals /\ req'[r] = mine
        /\ DOMAIN batch = 1..Len(batch) /\ Len(batch) \in Nat
        /\ DOMAIN batch' = 1..Len(batch') /\ Len(batch') \in Nat
    BY SMTT(30) DEF TypeOK
  <1>1. ASSUME NEW i \in DOMAIN mine.joined
        PROVE  mine.joined[i] \in DOMAIN batch' /\ r \in batch'[mine.joined[i]].keys
    <2>1. mine.joined[i] \in DOMAIN batch /\ r \in batch[mine.joined[i]].keys  BY Zenon DEF RequestInv
    <2> HIDE DEF mine
    <2> QED  BY <1>0, <2>1 DEF Later
  <1>2. ASSUME NEW i \in DOMAIN mine.rows
        PROVE  \E q \in DOMAIN batch : /\ q = mine.joined[i] /\ BatchEnded(q)'
                                       /\ batch'[q].cause = "ok" => mine.rows[i] # 0
    <2>1. i \in DOMAIN mine.joined
      <3>1. Len(mine.rows) <= Len(mine.joined)  BY Zenon DEF RequestInv
      <3> HIDE DEF mine
      <3>2. mine.rows \in Seq(Nat) /\ mine.joined \in Seq(Nat)  BY <1>0, Zenon DEF Locals
      <3> QED  BY <3>1, <3>2
    <2>2. PICK q \in DOMAIN batch : q = mine.joined[i]  BY <2>1, Zenon DEF RequestInv
    <2>3. BatchEnded(q) /\ (batch[q].cause = "ok" => mine.rows[i] # 0)
      BY <2>2, Zenon DEF RequestInv
    <2>4. BatchEnded(q)' /\ batch'[q].cause = batch[q].cause  BY <2>3, EndedStays, Zenon
    <2> QED  BY <2>2, <2>3, <2>4, Zenon
  <1>3. ASSUME NEW i \in DOMAIN mine.rows
        PROVE  BatchEnded(req[r].joined[i])' /\ (batch'[mine.joined[i]].cause = "ok" => mine.rows[i] # 0)
    BY <1>0, <1>2, Zenon DEF BatchEnded
  <1> QED  BY <1>0, <1>1, <1>3, Zenon DEF RequestInv

\* The invariant after a step, from what the step itself changes.
LEMMA Assemble ==
    ASSUME QInv, TypeOK', NamesExist', Later,
           \A q \in DOMAIN batch' : BatchInv(q)',
           \A r \in Req : req'[r] = req[r] \/ RequestInv(r)'
    PROVE  QInv'
  <1>1. ASSUME NEW r \in Req PROVE RequestInv(r)'
    <2>1. CASE req'[r] = req[r]
      <3>1. TypeOK /\ NamesExist /\ RequestInv(r)  BY Zenon DEF QInv
      <3> QED  BY <2>1, <3>1, RequestKept, Zenon
    <2> QED  BY <2>1, Zenon
  <1> QED  BY <1>1, Zenon DEF QInv

\* A step that leaves the batches alone, and of the batchers there are their
\* keys and snapshots.
Calm ==
    /\ batch' = batch
    /\ Len(batcher) <= Len(batcher')
    /\ \A b \in DOMAIN batcher :
          /\ batcher'[b].key = batcher[b].key /\ batcher'[b].snap = batcher[b].snap
          /\ batcher[b].dead => batcher'[b].dead

LEMMA CalmStep ==
    ASSUME QInv, TypeOK', NamesExist', Calm,
           \A r \in Req : req'[r] = req[r] \/ RequestInv(r)'
    PROVE  QInv'
  <1>1. Later
    <2>1. Len(batch) \in Nat  BY SeqElements, Zenon DEF QInv, TypeOK
    <2> QED  BY <2>1 DEF Calm, Later
  <1>2. ASSUME NEW q \in DOMAIN batch' PROVE BatchInv(q)'
    <2>1. q \in DOMAIN batch /\ batch'[q] = batch[q]  BY Zenon DEF Calm
    <2>2. BatchInv(q)  BY <2>1, Zenon DEF QInv
    <2>3. batch[q].of # 0 => batch[q].of \in DOMAIN batcher
      <3>1. batch[q] \in Batch /\ DOMAIN batcher = 1..Len(batcher) /\ Len(batcher) \in Nat
        BY <2>1, SeqElements, Zenon DEF QInv, TypeOK
      <3> QED  BY <2>1, <3>1 DEF QInv, NamesExist, Batch
    <2> QED  BY <2>1, <2>2, <2>3, Zenon DEF BatchInv, Calm
  <1> QED  BY <1>1, <1>2, Assemble, Zenon

-----------------------------------------------------------------------------
(* Steps that change no batch and no request.                               *)

LEMMA ViewsStep ==
    ASSUME QInv, NEW v \in View, BeginView(v) \/ EndView(v) \/ ViewTimeout(v)
    PROVE  QInv'
  <1> USE DEF BeginView, makeView, EndView, removeViewID, ViewTimeout, batching, queries
  <1>1. UNCHANGED <<batcher, latest, batch, nsLatest, req, version>>  BY Zenon
  <1>2. PICK st \in {"refused", "open", "ended"} : view' = [view EXCEPT ![v].st = st]  BY Zenon
  <1>3. TypeOK'  BY <1>1, <1>2, ZenonT(60) DEF QInv, TypeOK, Holder
  <1>4. NamesExist'  BY <1>1, <1>2, Zenon DEF QInv, NamesExist, TypeOK, Holder
  <1>5. Calm
    <2>1. Len(batcher) \in Nat  BY SeqElements, Zenon DEF QInv, TypeOK
    <2> QED  BY <1>1, <2>1 DEF Calm
  <1> QED  BY <1>1, <1>3, <1>4, <1>5, CalmStep, Zenon

LEMMA RetireStep ==
    ASSUME QInv, NEW v \in View, Retire(v)
    PROVE  QInv'
  <1>1. UNCHANGED <<latest, batch, nsLatest, req, version>>  BY Zenon DEF Retire, queries
  <1>2. batcher \in Seq(Batcher) /\ view[v].batcher \in Nat /\ view[v].batcher <= Len(batcher)
    BY Zenon DEF QInv, TypeOK, NamesExist, Holder
  <1>3. /\ batcher' \in Seq(Batcher) /\ Len(batcher') = Len(batcher)
        /\ \A b \in DOMAIN batcher : /\ batcher'[b].key = batcher[b].key /\ batcher'[b].snap = batcher[b].snap
                                     /\ batcher[b].dead => batcher'[b].dead
    <2>1. CASE view[v].batcher = 0
      BY <1>2, <2>1, Zenon DEF Retire
    <2>2. CASE view[v].batcher # 0
      <3> DEFINE b == view[v].batcher
                 n == IF batcher[b].ref > 0 THEN batcher[b].ref - 1 ELSE 0
                 d == batcher[b].dead \/ n = 0
                 e == [batcher[b] EXCEPT !.ref = n, !.dead = d]
      <3>1. b \in DOMAIN batcher  BY <1>2, <2>2, SeqElements
      <3>2. batcher[b] \in Batcher  BY <1>2, <3>1, SeqElements, Zenon
      <3>3. /\ e \in Batcher /\ e.key = batcher[b].key /\ e.snap = batcher[b].snap
            /\ batcher[b].dead => e.dead
        <4>1. n \in Nat  BY <3>2 DEF Batcher
        <4>2. d \in BOOLEAN  BY Zenon
        <4>3. batcher[b].dead => d  BY Zenon
        <4> HIDE DEF b, n, d
        <4> QED  BY <3>2, <4>1, <4>2, <4>3, Zenon DEF Batcher
      <3>4. batcher' = [batcher EXCEPT ![b] = e]  BY <2>2, Zenon DEF Retire, leave
      <3> HIDE DEF b, e
      <3> QED  BY <1>2, <3>1, <3>3, <3>4, SeqUpdate
    <2> QED  BY <2>1, <2>2, Zenon
  <1>4. \A u \in View : view'[u].batcher \in {0, view[u].batcher}  BY Zenon DEF Retire, QInv, TypeOK, Holder
  <1>5. TypeOK'  BY <1>1, <1>3, ZenonT(60) DEF Retire, QInv, TypeOK, Holder
  <1>6. Len(batcher) \in Nat  BY <1>2, SeqElements, Zenon
  <1>7. NamesExist'  BY <1>1, <1>3, <1>4, <1>6 DEF QInv, NamesExist
  <1>8. Calm  BY <1>1, <1>3, <1>6 DEF Calm
  <1> QED  BY <1>1, <1>5, <1>7, <1>8, CalmStep, Zenon

LEMMA BatchersStep ==
    ASSUME QInv, NEW b \in DOMAIN batcher, Unlist(b) \/ Rollback(b)
    PROVE  QInv'
  <1>1. UNCHANGED <<view, batch, nsLatest, req, version>>  BY Zenon DEF Unlist, Rollback, views, queries
  <1>2. batcher \in Seq(Batcher)  BY Zenon DEF QInv, TypeOK
  <1>3. batcher[b] \in Batcher /\ Len(batcher) \in Nat  BY <1>2, SeqElements, Zenon
  <1>4. /\ batcher' \in Seq(Batcher) /\ Len(batcher') = Len(batcher)
        /\ \A a \in DOMAIN batcher : /\ batcher'[a].key = batcher[a].key /\ batcher'[a].snap = batcher[a].snap
                                     /\ batcher[a].dead => batcher'[a].dead
    <2>1. CASE Unlist(b)  BY <1>2, <2>1, Zenon DEF Unlist
    <2>2. CASE Rollback(b)
      <3> DEFINE e == [batcher[b] EXCEPT !.tx = "closed"]
      <3>1. e \in Batcher /\ e.key = batcher[b].key /\ e.snap = batcher[b].snap /\ e.dead = batcher[b].dead
        BY <1>3, Zenon DEF Batcher
      <3>2. batcher' = [batcher EXCEPT ![b] = e]  BY <2>2, Zenon DEF Rollback
      <3> HIDE DEF e
      <3> QED  BY <1>2, <3>1, <3>2, SeqUpdate
    <2> QED  BY <2>1, <2>2, Zenon
  <1>5. latest' \in [0..3 -> Nat] /\ \A k \in 0..3 : latest'[k] <= Len(batcher)
    BY <1>3, SMTT(30) DEF Unlist, Rollback, QInv, TypeOK, NamesExist
  <1>6. TypeOK'  BY <1>1, <1>4, <1>5, Zenon DEF QInv, TypeOK
  <1>7. NamesExist'  BY <1>1, <1>4, <1>5, Zenon DEF QInv, NamesExist
  <1>8. Calm  BY <1>1, <1>3, <1>4 DEF Calm
  <1> QED  BY <1>1, <1>6, <1>7, <1>8, CalmStep, Zenon

LEMMA CommitStep ==
    ASSUME QInv, Commit \/ UNCHANGED vars
    PROVE  QInv'
  <1>1. UNCHANGED <<view, batcher, latest, batch, nsLatest, req>>
    BY Zenon DEF Commit, vars, views, batching, queries
  <1>2. Len(batcher) \in Nat  BY SeqElements, Zenon DEF QInv, TypeOK
  <1>3. version' \in Nat \ {0}  BY DEF Commit, vars, QInv, TypeOK
  <1>4. TypeOK'  BY <1>1, <1>3, Zenon DEF QInv, TypeOK
  <1>5. NamesExist'  BY <1>1, Zenon DEF QInv, NamesExist
  <1>6. Calm  BY <1>1, <1>2 DEF Calm
  <1> QED  BY <1>1, <1>4, <1>5, <1>6, CalmStep, Zenon

-----------------------------------------------------------------------------
(* Steps of a request that change no batch.                                 *)

LEMMA StillNamed ==
    ASSUME NEW e \in Locals, NEW m \in Nat, NEW n \in Nat, NEW m2 \in Nat, NEW n2 \in Nat,
           m <= m2, n <= n2, Named(e, m, n)
    PROVE  Named(e, m2, n2)
  <1>1. e.b \in Nat /\ e.val \in Nat  BY Zenon DEF Locals
  <1> QED  BY <1>1 DEF Named

LEMMA RequestStep ==
    ASSUME QInv, NEW r \in Req, NEW e \in Locals, req' = [req EXCEPT ![r] = e],
           UNCHANGED <<nsLatest, version>>, Calm, batcher' \in Seq(Batcher),
           latest' \in [0..3 -> Nat], \A k \in 0..3 : latest'[k] <= Len(batcher'),
           view' \in [View -> Holder], \A v \in View : view'[v].batcher <= Len(batcher'),
           Named(e, Len(batcher'), Len(batch)), RequestInv(r)'
    PROVE  QInv'
  <1>1. req \in [Req -> Locals] /\ batch \in Seq(Batch) /\ batch' = batch
    BY Zenon DEF QInv, TypeOK, Calm
  <1>2. TypeOK'  BY <1>1, Zenon DEF QInv, TypeOK
  <1>3. NamesExist'
    <2>1. Len(batcher) \in Nat /\ Len(batcher') \in Nat /\ Len(batcher) <= Len(batcher')
      BY SeqElements, Zenon DEF QInv, TypeOK, Calm
    <2>2. ASSUME NEW s \in Req PROVE Named(req'[s], Len(batcher'), Len(batch'))
      <3>1. CASE s = r  BY <1>1, <3>1, Zenon
      <3>2. CASE s # r
        <4>1. Named(req[s], Len(batcher), Len(batch)) /\ req'[s] = req[s] /\ req[s] \in Locals
          BY <1>1, <3>2, Zenon DEF QInv, NamesExist
        <4>2. Len(batch) \in Nat /\ Len(batch) <= Len(batch)  BY <1>1, SeqElements
        <4> QED  BY <1>1, <2>1, <4>1, <4>2, StillNamed, Zenon
      <3> QED  BY <3>1, <3>2, Zenon
    <2>3. ASSUME NEW q \in DOMAIN batch PROVE batch[q].of <= Len(batcher')
      <3>1. batch[q].of <= Len(batcher) /\ batch[q] \in Batch
        BY <1>1, SeqElements, Zenon DEF QInv, NamesExist
      <3> QED  BY <2>1, <3>1 DEF Batch
    <2> QED  BY <1>1, <2>2, <2>3, Zenon DEF QInv, NamesExist
  <1> QED  BY <1>1, <1>2, <1>3, CalmStep, Zenon

\* A request that returns relies on nothing any more.
LEMMA Returned ==
    ASSUME NEW pc \in Ended
    PROVE  /\ locals(pc) \in Locals
           /\ \A m, n \in Nat : Named(locals(pc), m, n)
           /\ \A r \in Req : req \in [Req -> Locals] /\ req' = [req EXCEPT ![r] = locals(pc)] => RequestInv(r)'
  BY DEF locals, Locals, Named, RequestInv, Ended, Assigning

LEMMA LoadHolderStep ==
    ASSUME QInv, NEW r \in Req, LoadHolder(r)
    PROVE  QInv'
  <1>1. UNCHANGED <<view, batcher, latest, batch, nsLatest, version>>
    BY Zenon DEF LoadHolder, views, batching, queries
  <1>2. Len(batcher) \in Nat /\ Len(batch) \in Nat  BY SeqElements, Zenon DEF QInv, TypeOK
  <1>3. Calm  BY <1>1, <1>2 DEF Calm
  <1>4. req \in [Req -> Locals] /\ req[r].pc = "new"  BY Zenon DEF QInv, TypeOK, LoadHolder
  <1>5. /\ batcher' \in Seq(Batcher) /\ latest' \in [0..3 -> Nat] /\ view' \in [View -> Holder]
        /\ \A k \in 0..3 : latest'[k] <= Len(batcher')
        /\ \A v \in View : view'[v].batcher <= Len(batcher')
    BY <1>1, Zenon DEF QInv, TypeOK, NamesExist
  <1>6. CASE Return(r, "stale")
    BY <1>1, <1>2, <1>3, <1>4, <1>5, <1>6, Returned, RequestStep, Zenon DEF Return, Ended
  <1>7. ASSUME NEW c \in Calls[r], ~(c.view \in View \ viewIDs),
               req' = [req EXCEPT ![r].pc = IF c.view = NoView THEN "nupdate" ELSE "lock",
                                  ![r].view = c.view, ![r].namespaces = c.namespaces]
        PROVE  QInv'
    <2> DEFINE pc == IF c.view = NoView THEN "nupdate" ELSE "lock"
               e == [req[r] EXCEPT !.pc = pc, !.view = c.view, !.namespaces = c.namespaces]
    <2>1. /\ c.view \in View \cup {NoView} /\ c.namespaces \in Seq(STRING) /\ c.namespaces # <<>>
          /\ pc \in {"nupdate", "lock"} /\ (pc = "lock" => c.view \in View)
      BY QueryAssumption, ZenonT(40)
    <2>2. /\ req[r].joined = <<>> /\ req[r].rows = <<>> /\ req[r].val = 0
          /\ req[r].b <= Len(batcher) /\ 0 < Len(c.namespaces)
      BY <1>4, <2>1 DEF QInv, RequestInv, NamesExist, Named, Assigning
    <2>3. req' = [req EXCEPT ![r] = e]  BY <1>7, Zenon
    <2>4. /\ e \in Locals /\ e.pc = pc /\ e.view = c.view /\ e.namespaces = c.namespaces /\ e.b = req[r].b
          /\ e.rows = <<>> /\ e.joined = <<>> /\ e.val = 0
      <3> HIDE DEF pc
      <3> QED  BY <1>4, <2>1, <2>2, ZenonT(60) DEF Locals, Assigning
    <2> HIDE DEF pc, e
    <2>5. Named(e, Len(batcher'), Len(batch))  BY <1>1, <1>2, <2>1, <2>2, <2>4 DEF Named, Assigning
    <2>6. RequestInv(r)'  BY <1>4, <2>1, <2>2, <2>3, <2>4 DEF RequestInv, Assigning
    <2> QED  BY <1>1, <1>3, <1>5, <2>3, <2>4, <2>5, <2>6, RequestStep, ZenonT(60)
  <1> QED  BY <1>6, <1>7, Zenon DEF LoadHolder

LEMMA LockHolderStep ==
    ASSUME QInv, NEW r \in Req, LockHolder(r)
    PROVE  QInv'
  <1> DEFINE v == req[r].view
  <1>1. UNCHANGED <<batcher, latest, batch, nsLatest, version>>
    BY Zenon DEF LockHolder, batching, queries
  <1>2. Len(batcher) \in Nat /\ Len(batch) \in Nat  BY SeqElements, Zenon DEF QInv, TypeOK
  <1>3. Calm  BY <1>1, <1>2 DEF Calm
  <1>4. /\ req \in [Req -> Locals] /\ req[r].pc = "lock" /\ req[r].val = 0 /\ v \in View
        /\ req[r].joined = <<>> /\ req[r].rows = <<>> /\ req[r].b <= Len(batcher)
        /\ req[r].namespaces # <<>>
    BY Zenon DEF QInv, TypeOK, LockHolder, NamesExist, Named, RequestInv
  <1>5. 0 < Len(req[r].namespaces)  BY <1>4 DEF Locals
  <1>6. /\ view \in [View -> Holder] /\ \A u \in View : view[u].batcher <= Len(batcher)
        /\ batcher' \in Seq(Batcher) /\ latest' \in [0..3 -> Nat]
        /\ \A k \in 0..3 : latest'[k] <= Len(batcher')
    BY <1>1, Zenon DEF QInv, TypeOK, NamesExist
  <1>7. CASE Return(r, "stale") /\ UNCHANGED view
    BY <1>1, <1>2, <1>3, <1>4, <1>6, <1>7, Returned, RequestStep, Zenon DEF Return, Ended
  <1>8. ASSUME UNCHANGED view,
               req' = [req EXCEPT ![r].pc = IF Dead(view[v].batcher) THEN "stale" ELSE "nupdate",
                                  ![r].b = view[v].batcher]
        PROVE  QInv'
    <2> DEFINE pc == IF Dead(view[v].batcher) THEN "stale" ELSE "nupdate"
               b == view[v].batcher
               e == [req[r] EXCEPT !.pc = pc, !.b = b]
    <2>1. pc \in {"stale", "nupdate"} /\ b \in Nat /\ b <= Len(batcher)  BY <1>4, <1>6, Zenon DEF Holder
    <2>2. req' = [req EXCEPT ![r] = e]  BY <1>8, Zenon
    <2> HIDE DEF pc, b
    <2>3. /\ e \in Locals /\ e.pc = pc /\ e.b = b /\ e.namespaces = req[r].namespaces
          /\ e.rows = <<>> /\ e.joined = <<>> /\ e.val = 0
      BY <1>4, <2>1, ZenonT(40) DEF Locals, Ended, Assigning
    <2> HIDE DEF e, v
    <2>4. Named(e, Len(batcher'), Len(batch))  BY <1>1, <1>2, <2>1, <2>3 DEF Named, Assigning
    <2>5. RequestInv(r)'  BY <1>4, <1>5, <2>1, <2>2, <2>3 DEF RequestInv, Assigning
    <2> QED  BY <1>1, <1>3, <1>6, <1>8, <2>2, <2>3, <2>4, <2>5, RequestStep, ZenonT(40)
  <1>9. ASSUME view' = [view EXCEPT ![v].lock = r], Goto(r, "bupdate")
        PROVE  QInv'
    <2> DEFINE e == [req[r] EXCEPT !.pc = "bupdate"]
    <2>1. req' = [req EXCEPT ![r] = e]  BY <1>9, Zenon DEF Goto
    <2>2. /\ e \in Locals /\ e.pc = "bupdate" /\ e.b = req[r].b /\ e.namespaces = req[r].namespaces
          /\ e.view \in View /\ e.rows = <<>> /\ e.joined = <<>> /\ e.val = 0
      BY <1>4, Zenon DEF Locals
    <2>3. view' \in [View -> Holder] /\ \A u \in View : view'[u].batcher <= Len(batcher')
      BY <1>1, <1>4, <1>6, <1>9, ZenonT(60) DEF Holder
    <2> HIDE DEF e, v
    <2>4. Named(e, Len(batcher'), Len(batch))  BY <1>1, <1>2, <1>4, <2>2 DEF Named, Assigning
    <2>5. RequestInv(r)'  BY <1>4, <2>1, <2>2 DEF RequestInv, Assigning
    <2> QED  BY <1>1, <1>3, <1>6, <2>1, <2>2, <2>3, <2>4, <2>5, RequestStep, ZenonT(40)
  <1> QED  BY <1>7, <1>8, <1>9, Zenon DEF LockHolder

LEMMA JoinBatcherStep ==
    ASSUME QInv, NEW r \in Req, JoinBatcher(r)
    PROVE  QInv'
  <1> DEFINE v == req[r].view
             b == IF req[r].val # 0 THEN req[r].val ELSE latest[viewParametersKey(v)]
  <1>1. UNCHANGED <<latest, batch, nsLatest, version>>
    BY Zenon DEF JoinBatcher, queries
  <1>2. batcher \in Seq(Batcher) /\ Len(batcher) \in Nat /\ Len(batch) \in Nat
    BY SeqElements, Zenon DEF QInv, TypeOK
  <1>3. /\ req \in [Req -> Locals] /\ req[r].pc = "bupdate" /\ req[r].val <= Len(batcher) /\ v \in View
        /\ req[r].joined = <<>> /\ req[r].rows = <<>> /\ req[r].b <= Len(batcher)
        /\ req[r].namespaces # <<>>
    BY Zenon DEF QInv, TypeOK, JoinBatcher, NamesExist, Named, RequestInv
  <1>4. req[r] \in Locals /\ req[r].val \in Nat /\ 0 < Len(req[r].namespaces)  BY <1>3 DEF Locals
  <1>5. /\ view \in [View -> Holder] /\ \A u \in View : view[u].batcher <= Len(batcher)
        /\ latest \in [0..3 -> Nat] /\ \A k \in 0..3 : latest[k] <= Len(batcher)
    BY Zenon DEF QInv, TypeOK, NamesExist
  <1>6. viewParametersKey(v) \in 0..3
    <2>1. IsoLevel[v] \in 0..4  BY <1>3, QueryAssumption, Zenon
    <2> QED  BY <2>1 DEF viewParametersKey
  <1>7. b \in Nat /\ b <= Len(batcher)  BY <1>3, <1>4, <1>5, <1>6, Zenon
  <1>8. CASE b # 0 /\ canJoin(b)
    <2> DEFINE x == [batcher[b] EXCEPT !.ref = @ + 1]
               e == [req[r] EXCEPT !.pc = "nupdate", !.b = b, !.val = 0]
    <2>1. /\ batcher' = [batcher EXCEPT ![b] = x]
          /\ view' = [view EXCEPT ![v].batcher = b, ![v].lock = NoReq]
          /\ req' = [req EXCEPT ![r] = e]
      BY <1>8, ZenonT(40) DEF JoinBatcher
    <2> HIDE DEF b, v
    <2>2. b \in DOMAIN batcher /\ batcher[b] \in Batcher  BY <1>2, <1>7, <1>8, SeqElements
    <2>3. x \in Batcher /\ x.key = batcher[b].key /\ x.snap = batcher[b].snap /\ x.dead = batcher[b].dead
      BY <2>2 DEF Batcher
    <2>4. /\ e \in Locals /\ e.pc = "nupdate" /\ e.b = b /\ e.namespaces = req[r].namespaces
          /\ e.rows = <<>> /\ e.joined = <<>> /\ e.val = 0
      BY <1>3, <1>4, <1>7, Zenon DEF Locals, Assigning
    <2> HIDE DEF e, x
    <2>5. /\ batcher' \in Seq(Batcher) /\ Len(batcher') = Len(batcher)
          /\ \A a \in DOMAIN batcher : a # b => batcher'[a] = batcher[a]
          /\ batcher'[b] = x
      BY <1>2, <2>1, <2>2, <2>3, SeqUpdate
    <2>6. Calm  BY <1>1, <1>2, <2>3, <2>5 DEF Calm
    <2>7. view' \in [View -> Holder] /\ \A u \in View : view'[u].batcher <= Len(batcher')
      <3> DEFINE h == [view[v] EXCEPT !.batcher = b, !.lock = NoReq]
      <3>1. view' = [view EXCEPT ![v] = h]  BY <2>1, Zenon
      <3>2. h \in Holder /\ h.batcher = b  BY <1>3, <1>5, <1>7, Zenon DEF Holder
      <3> HIDE DEF h
      <3> QED  BY <1>3, <1>5, <1>7, <2>5, <3>1, <3>2, Zenon
    <2>8. Named(e, Len(batcher'), Len(batch))  BY <1>2, <1>7, <2>4, <2>5 DEF Named, Assigning
    <2>9. RequestInv(r)'  BY <1>3, <1>4, <2>1, <2>4 DEF RequestInv, Assigning
    <2> QED  BY <1>1, <1>5, <2>1, <2>4, <2>5, <2>6, <2>7, <2>8, <2>9, RequestStep, ZenonT(40)
  <1>9. CASE ~(b # 0 /\ canJoin(b))
    <2> DEFINE e == [req[r] EXCEPT !.pc = "bassign", !.val = b]
    <2>1. UNCHANGED <<batcher, view>> /\ req' = [req EXCEPT ![r] = e]
      BY <1>9, Zenon DEF JoinBatcher
    <2>2. e.view = v  BY <1>4, Zenon DEF Locals
    <2> HIDE DEF b, v
    <2>3. /\ e \in Locals /\ e.pc = "bassign" /\ e.b = req[r].b /\ e.namespaces = req[r].namespaces
          /\ e.rows = <<>> /\ e.joined = <<>> /\ e.val = b
      BY <1>3, <1>4, <1>7, ZenonT(60) DEF Locals
    <2> HIDE DEF e
    <2>4. Calm  BY <1>1, <1>2, <2>1 DEF Calm
    <2>5. Named(e, Len(batcher'), Len(batch))  BY <1>2, <1>3, <1>7, <2>1, <2>2, <2>3, ZenonT(40) DEF Named, Assigning
    <2>6. RequestInv(r)'  BY <1>3, <2>1, <2>3 DEF RequestInv, Assigning
    <2> QED  BY <1>1, <1>2, <1>5, <2>1, <2>3, <2>4, <2>5, <2>6, RequestStep, ZenonT(40)
  <1> QED  BY <1>8, <1>9, Zenon

LEMMA AssignBatcherStep ==
    ASSUME QInv, NEW r \in Req, AssignBatcher(r)
    PROVE  QInv'
  <1> DEFINE k == viewParametersKey(req[r].view)
             won == latest[k] = req[r].val
             val == IF won THEN Len(batcher) + 1 ELSE 0
             e == [req[r] EXCEPT !.pc = "bupdate", !.val = val]
  <1>1. UNCHANGED <<view, batch, nsLatest, version>>
    BY Zenon DEF AssignBatcher, views, queries
  <1>2. batcher \in Seq(Batcher) /\ Len(batcher) \in Nat /\ Len(batch) \in Nat
    BY SeqElements, Zenon DEF QInv, TypeOK
  <1>3. /\ req \in [Req -> Locals] /\ req[r].pc = "bassign" /\ req[r].view \in View
        /\ req[r].joined = <<>> /\ req[r].rows = <<>> /\ req[r].b <= Len(batcher)
        /\ req[r].namespaces # <<>>
    BY Zenon DEF QInv, TypeOK, AssignBatcher, NamesExist, Named, RequestInv
  <1>4. req[r] \in Locals /\ req[r].b \in Nat  BY <1>3, Zenon DEF Locals
  <1>5. /\ view \in [View -> Holder] /\ \A u \in View : view[u].batcher \in Nat /\ view[u].batcher <= Len(batcher)
        /\ latest \in [0..3 -> Nat] /\ \A j \in 0..3 : latest[j] <= Len(batcher)
    BY Zenon DEF QInv, TypeOK, NamesExist, Holder
  <1>6. k \in 0..3
    <2>1. IsoLevel[req[r].view] \in 0..4  BY <1>3, QueryAssumption, Zenon
    <2> QED  BY <2>1 DEF viewParametersKey
  <1>7. newBatcher(k) \in Batcher  BY <1>6, Zenon DEF newBatcher, Batcher
  <1>8. /\ batcher' = IF won THEN Append(batcher, newBatcher(k)) ELSE batcher
        /\ latest' = [latest EXCEPT ![k] = IF won THEN Len(batcher) + 1 ELSE @]
    BY Zenon DEF AssignBatcher
  <1>9. req' = [req EXCEPT ![r] = e]
    <2>1. req' = [req EXCEPT ![r].pc = "bupdate", ![r].val = IF won THEN latest'[k] ELSE 0]
      BY Zenon DEF AssignBatcher
    <2>2. won => latest'[k] = Len(batcher) + 1  BY <1>5, <1>6, <1>8, Zenon
    <2> HIDE DEF k, won
    <2> QED  BY <2>1, <2>2, Zenon
  <1> HIDE DEF k, won
  <1>10. /\ batcher' \in Seq(Batcher) /\ Len(batcher') \in {Len(batcher), Len(batcher) + 1}
         /\ won => Len(batcher') = Len(batcher) + 1
         /\ \A a \in DOMAIN batcher : batcher'[a] = batcher[a]
    BY <1>2, <1>7, <1>8
  <1>11. Calm  BY <1>1, <1>2, <1>10 DEF Calm
  <1>12. latest' \in [0..3 -> Nat] /\ \A j \in 0..3 : latest'[j] <= Len(batcher')
    BY <1>2, <1>5, <1>6, <1>8, <1>10, SMTT(30)
  <1>13. \A u \in View : view'[u].batcher <= Len(batcher')  BY <1>1, <1>2, <1>5, <1>10
  <1>14. val \in Nat /\ val <= Len(batcher')  BY <1>2, <1>10
  <1> HIDE DEF val
  <1>15. /\ e \in Locals /\ e.pc = "bupdate" /\ e.b = req[r].b /\ e.namespaces = req[r].namespaces
         /\ e.view \in View /\ e.rows = <<>> /\ e.joined = <<>> /\ e.val = val
    BY <1>3, <1>4, <1>14, ZenonT(60) DEF Locals
  <1> HIDE DEF e
  <1>16. Named(e, Len(batcher'), Len(batch))  BY <1>2, <1>3, <1>4, <1>10, <1>14, <1>15 DEF Named, Assigning
  <1>17. RequestInv(r)'  BY <1>3, <1>9, <1>15 DEF RequestInv, Assigning
  <1> QED  BY <1>1, <1>5, <1>9, <1>10, <1>11, <1>12, <1>13, <1>15, <1>16, <1>17, RequestStep, ZenonT(40)

\* Rows of a batch that was queried hold the keys of the request; a batch that
\* ended otherwise has no cause that counts.
LEMMA WaitForRowsStep ==
    ASSUME QInv, NEW r \in Req, WaitForRows(r)
    PROVE  QInv'
  <1> DEFINE n == Len(req[r].rows) + 1
             q == req[r].joined[n]
             rows == Append(req[r].rows, Row(q, r))
  <1>1. UNCHANGED <<view, batcher, latest, batch, nsLatest, version>>
    BY Zenon DEF WaitForRows, views, batching, queries
  <1>2. batch \in Seq(Batch) /\ Len(batcher) \in Nat /\ Len(batch) \in Nat
    BY SeqElements, Zenon DEF QInv, TypeOK
  <1>3. Calm  BY <1>1, <1>2 DEF Calm
  <1>4. req \in [Req -> Locals] /\ req[r].pc = "wait" /\ RequestInv(r)  BY Zenon DEF QInv, TypeOK, WaitForRows
  <1>5. /\ batcher' \in Seq(Batcher) /\ latest' \in [0..3 -> Nat] /\ view' \in [View -> Holder]
        /\ \A k \in 0..3 : latest'[k] <= Len(batcher')
        /\ \A v \in View : view'[v].batcher <= Len(batcher')
    BY <1>1, Zenon DEF QInv, TypeOK, NamesExist
  <1>6. CASE Return(r, "failed")
    BY <1>1, <1>2, <1>3, <1>4, <1>5, <1>6, Returned, RequestStep, ZenonT(40) DEF Return, Ended
  <1>7. CASE req' = [req EXCEPT ![r].rows = rows,
                                ![r].pc = IF Len(rows) = Len(req[r].namespaces) THEN "answered" ELSE @]
    <2> DEFINE pc == IF Len(rows) = Len(req[r].namespaces) THEN "answered" ELSE "wait"
               e == [req[r] EXCEPT !.rows = rows, !.pc = pc]
    <2>1. req' = [req EXCEPT ![r] = e]  BY <1>4, <1>7, Zenon
    <2>2. req[r] \in Locals /\ req[r].rows \in Seq(Nat) /\ req[r].joined \in Seq(Nat) /\ req[r].b <= Len(batcher)
      BY <1>4, Zenon DEF Locals, QInv, NamesExist, Named
    <2>3. Len(req[r].rows) < Len(req[r].joined) /\ Len(req[r].joined) = Len(req[r].namespaces)
      BY <1>4, Zenon DEF RequestInv
    <2>4. n \in DOMAIN req[r].joined  BY <2>2, <2>3
    <2>5. q \in DOMAIN batch /\ r \in batch[q].keys  BY <1>4, <2>4, Zenon DEF RequestInv
    <2>6. BatchEnded(q) /\ BatchInv(q) /\ batch[q] \in Batch
      BY <1>2, <2>5, SeqElements, Zenon DEF WaitForRows, QInv
    <2>7. Row(q, r) \in Nat /\ (batch[q].cause = "ok" => Row(q, r) # 0)
      BY <2>5, <2>6, ZenonT(60) DEF Row, BatchInv, Batch
    <2>8. /\ rows \in Seq(Nat) /\ Len(rows) = n /\ rows[n] = Row(q, r)
          /\ \A i \in DOMAIN req[r].rows : rows[i] = req[r].rows[i]
          /\ DOMAIN rows = DOMAIN req[r].rows \cup {n}
      <3> DEFINE x == Row(q, r)
                 s == req[r].rows
      <3>1. s \in Seq(Nat) /\ x \in Nat  BY <2>2, <2>7, Zenon
      <3> HIDE DEF x, s
      <3>2. LET u == Append(s, x)
            IN  /\ u \in Seq(Nat) /\ Len(u) = Len(s) + 1 /\ u[Len(s) + 1] = x
                /\ DOMAIN u = DOMAIN s \cup {Len(s) + 1} /\ \A j \in DOMAIN s : u[j] = s[j]
        BY <3>1, SeqAppend
      <3> QED  BY <3>2, Zenon DEF x, s
    <2>9. \A i \in DOMAIN rows :
            BatchEnded(req[r].joined[i]) /\ (batch[req[r].joined[i]].cause = "ok" => rows[i] # 0)
      <3>1. ASSUME NEW i \in DOMAIN req[r].rows
            PROVE  BatchEnded(req[r].joined[i]) /\ (batch[req[r].joined[i]].cause = "ok" => rows[i] # 0)
        <4>1. rows[i] = req[r].rows[i]  BY <2>8, Zenon
        <4> HIDE DEF rows
        <4> QED  BY <1>4, <4>1, Zenon DEF RequestInv
      <3>2. BatchEnded(q) /\ (batch[q].cause = "ok" => rows[n] # 0)  BY <2>6, <2>7, <2>8, ZenonT(60)
      <3> HIDE DEF rows, n
      <3> QED  BY <2>8, <3>1, <3>2, Zenon
    <2>10. /\ pc \in {"wait", "answered"} /\ n <= Len(req[r].joined)
           /\ pc = "wait" => n < Len(req[r].joined)
      BY <2>2, <2>3, <2>8, SMTT(30)
    <2> HIDE DEF pc, rows, q, n
    <2>11. /\ e \in Locals /\ e.pc = pc /\ e.b = req[r].b /\ e.namespaces = req[r].namespaces
           /\ e.rows = rows /\ e.joined = req[r].joined
      BY <2>2, <2>8, <2>10, Zenon DEF Locals, Ended
    <2> HIDE DEF e
    <2>12. Named(e, Len(batcher'), Len(batch))  BY <1>1, <2>2, <2>10, <2>11, Zenon DEF Named, Assigning
    <2>13. req'[r] = e  BY <1>4, <2>1, Zenon
    <2>14. RequestInv(r)'
      <3>1. \A i \in DOMAIN rows :
               BatchEnded(req[r].joined[i])' /\ (batch'[req'[r].joined[i]].cause = "ok" => rows[i] # 0)
        BY <1>1, <2>9, <2>11, <2>13, ZenonT(60) DEF BatchEnded, Dead
      <3>2. \A i \in DOMAIN req[r].joined :
               req[r].joined[i] \in DOMAIN batch /\ r \in batch[req[r].joined[i]].keys
        BY <1>4, Zenon DEF RequestInv
      <3> QED  BY <1>1, <2>3, <2>8, <2>10, <2>11, <2>13, <3>1, <3>2, ZenonT(40) DEF RequestInv, Assigning
    <2> QED  BY <1>1, <1>3, <1>5, <2>1, <2>11, <2>12, <2>14, RequestStep, ZenonT(40)
  <1> QED  BY <1>6, <1>7, Zenon DEF WaitForRows

LEMMA ClientCancelStep ==
    ASSUME QInv, NEW r \in Req, ClientCancel(r)
    PROVE  QInv'
  <1>1. UNCHANGED <<batcher, latest, batch, nsLatest, version>>
    BY Zenon DEF ClientCancel, batching, queries
  <1>2. Len(batcher) \in Nat /\ Len(batch) \in Nat  BY SeqElements, Zenon DEF QInv, TypeOK
  <1>3. Calm  BY <1>1, <1>2 DEF Calm
  <1>4. /\ req \in [Req -> Locals] /\ view \in [View -> Holder] /\ \A u \in View : view[u].batcher <= Len(batcher)
        /\ batcher' \in Seq(Batcher) /\ latest' \in [0..3 -> Nat]
        /\ \A k \in 0..3 : latest'[k] <= Len(batcher')
    BY <1>1, Zenon DEF QInv, TypeOK, NamesExist
  <1>5. view' \in [View -> Holder] /\ \A u \in View : view'[u].batcher <= Len(batcher')
    <2> DEFINE v == req[r].view
    <2>1. CASE req[r].pc = "bupdate"
      <3>1. view' = [view EXCEPT ![v].lock = NoReq]  BY <2>1, Zenon DEF ClientCancel
      <3> HIDE DEF v
      <3> QED  BY <1>1, <1>4, <3>1, ZenonT(60) DEF Holder
    <2>2. CASE req[r].pc # "bupdate"  BY <1>1, <1>4, <2>2, Zenon DEF ClientCancel
    <2> QED  BY <2>1, <2>2, Zenon
  <1> QED  BY <1>1, <1>2, <1>3, <1>4, <1>5, Returned, RequestStep, Zenon DEF ClientCancel, Return, Ended

-----------------------------------------------------------------------------
(* Steps that change a batch.                                               *)

LEMMA BatchStep ==
    ASSUME QInv, NEW q \in DOMAIN batch, NEW e \in Batch, batch' = [batch EXCEPT ![q] = e],
           e.of = batch[q].of, batch[q].keys \subseteq e.keys,
           BatchEnded(q) => e.cause = batch[q].cause,
           UNCHANGED <<view, latest, nsLatest, version>>,
           batcher' \in Seq(Batcher), Len(batcher') = Len(batcher),
           \A b \in DOMAIN batcher :
              /\ batcher'[b].key = batcher[b].key /\ batcher'[b].dead = batcher[b].dead
              /\ batcher[b].snap = 0 \/ batcher'[b].snap = batcher[b].snap,
           BatchInv(q)',
           req' \in [Req -> Locals], \A r \in Req : Named(req'[r], Len(batcher), Len(batch)),
           \A r \in Req : req'[r] = req[r] \/ RequestInv(r)'
    PROVE  QInv'
  <1>1. /\ batch \in Seq(Batch) /\ Len(batch) \in Nat /\ batcher \in Seq(Batcher)
        /\ Len(batcher) \in Nat /\ DOMAIN batcher = 1..Len(batcher)
    BY SeqElements, Zenon DEF QInv, TypeOK
  <1>2. /\ batch' \in Seq(Batch) /\ Len(batch') = Len(batch) /\ DOMAIN batch' = DOMAIN batch
        /\ batch'[q] = e /\ \A p \in DOMAIN batch : p # q => batch'[p] = batch[p]
    BY <1>1, SeqUpdate
  <1>3. TypeOK'  BY <1>2, Zenon DEF QInv, TypeOK
  <1>4. NamesExist'
    <2>1. \A p \in DOMAIN batch : batch'[p].of = batch[p].of  BY <1>2, Zenon
    <2> QED  BY <1>2, <2>1, Zenon DEF QInv, NamesExist
  <1>5. Later
    <2>1. ASSUME NEW p \in DOMAIN batch
          PROVE  /\ batch'[p].of = batch[p].of /\ batch[p].keys \subseteq batch'[p].keys
                 /\ BatchEnded(p) => batch'[p].cause = batch[p].cause
      BY <1>2, Zenon
    <2> QED  BY <1>1, <1>2, <2>1 DEF Later
  <1>6. ASSUME NEW p \in DOMAIN batch' PROVE BatchInv(p)'
    <2>1. CASE p = q  BY <2>1, Zenon
    <2>2. CASE p # q
      <3>1. p \in DOMAIN batch /\ batch'[p] = batch[p] /\ BatchInv(p) /\ batch[p] \in Batch
        BY <1>1, <1>2, <2>2, SeqElements, Zenon DEF QInv
      <3>2. batch[p].of # 0 => batch[p].of \in DOMAIN batcher
        BY <1>1, <3>1 DEF QInv, NamesExist, Batch
      <3> QED  BY <3>1, <3>2, ZenonT(40) DEF BatchInv
    <2> QED  BY <2>1, <2>2, Zenon
  <1> QED  BY <1>3, <1>4, <1>5, <1>6, Assemble, Zenon

\* The steps of a batch's own goroutine leave the requests alone.
LEMMA ExecutionStep ==
    ASSUME QInv, NEW q \in DOMAIN batch, NEW e \in Batch, batch' = [batch EXCEPT ![q] = e],
           e.of = batch[q].of, e.keys = batch[q].keys, BatchEnded(q) => e.cause = batch[q].cause,
           UNCHANGED <<view, latest, nsLatest, version, req>>,
           batcher' \in Seq(Batcher), Len(batcher') = Len(batcher),
           \A b \in DOMAIN batcher :
              /\ batcher'[b].key = batcher[b].key /\ batcher'[b].dead = batcher[b].dead
              /\ batcher[b].snap = 0 \/ batcher'[b].snap = batcher[b].snap,
           BatchInv(q)'
    PROVE  QInv'
  <1>1. req' \in [Req -> Locals] /\ \A r \in Req : Named(req'[r], Len(batcher), Len(batch))
    BY Zenon DEF QInv, TypeOK, NamesExist
  <1>2. batch[q].keys \subseteq e.keys /\ \A r \in Req : req'[r] = req[r] \/ RequestInv(r)'  BY Zenon
  <1> QED  BY <1>1, <1>2, BatchStep, Zenon

\* The batcher of a batch exists, and using it keeps its key and its end.
LEMMA UserStep ==
    ASSUME QInv, NEW b \in Nat \ {0}, b <= Len(batcher), NEW x \in Batcher,
           batcher' = [batcher EXCEPT ![b] = x],
           x.key = batcher[b].key, x.dead = batcher[b].dead, batcher[b].snap \in {0, x.snap}
    PROVE  /\ batcher' \in Seq(Batcher) /\ Len(batcher') = Len(batcher) /\ batcher'[b] = x
           /\ \A a \in DOMAIN batcher :
                 /\ batcher'[a].key = batcher[a].key /\ batcher'[a].dead = batcher[a].dead
                 /\ batcher[a].snap = 0 \/ batcher'[a].snap = batcher[a].snap
  <1>1. batcher \in Seq(Batcher)  BY Zenon DEF QInv, TypeOK
  <1>2. b \in DOMAIN batcher  BY <1>1, SeqElements
  <1>3. /\ batcher' \in Seq(Batcher) /\ Len(batcher') = Len(batcher) /\ batcher'[b] = x
        /\ \A a \in DOMAIN batcher : a # b => batcher'[a] = batcher[a]
    BY <1>1, <1>2, SeqUpdate
  <1> QED  BY <1>3, Zenon

LEMMA TimerStep ==
    ASSUME QInv, NEW q \in DOMAIN batch, BatchTimer(q) \/ AcquireFails(q)
    PROVE  QInv'
  <1>1. UNCHANGED <<view, batcher, latest, nsLatest, version, req>>
    BY Zenon DEF BatchTimer, AcquireFails, views, batching
  <1>2. batcher \in Seq(Batcher) /\ batch[q] \in Batch /\ BatchInv(q)
    BY SeqElements, Zenon DEF QInv, TypeOK
  <1>3. PICK st \in {"submitted", "done"}, cause \in {batch[q].cause, cancelBatch(q, "failed")} :
           batch' = [batch EXCEPT ![q].st = st, ![q].cause = cause]
    BY Zenon DEF BatchTimer, AcquireFails
  <1>4. batch[q].st \in {"open", "submitted"} /\ batch[q].cause # "ok"
    BY <1>2, Zenon DEF BatchTimer, AcquireFails, BatchInv
  <1>5. cause \in {"none", "failed"} /\ (BatchEnded(q) => cause = batch[q].cause)
    BY <1>2, <1>4, Zenon DEF cancelBatch, Batch
  <1> DEFINE e == [batch[q] EXCEPT !.st = st, !.cause = cause]
  <1>6. /\ e \in Batch /\ e.of = batch[q].of /\ e.keys = batch[q].keys /\ e.cause = cause /\ e.st = st
        /\ e.result = batch[q].result
    BY <1>2, <1>5, Zenon DEF Batch
  <1>7. batch' = [batch EXCEPT ![q] = e]  BY <1>3, ZenonT(60)
  <1> HIDE DEF e
  <1>8. batch'[q] = e  BY <1>7, SeqUpdate, <1>6, Zenon DEF QInv, TypeOK
  <1>9. BatchInv(q)'  BY <1>1, <1>2, <1>5, <1>6, <1>8, ZenonT(40) DEF BatchInv
  <1> QED  BY <1>1, <1>2, <1>5, <1>6, <1>7, <1>9, ExecutionStep, ZenonT(40)

LEMMA BatcherOf ==
    ASSUME QInv, NEW q \in DOMAIN batch, batch[q].of # 0
    PROVE  batch[q].of \in Nat \ {0} /\ batch[q].of <= Len(batcher) /\ batcher[batch[q].of] \in Batcher
  <1>1. batch[q] \in Batch /\ batcher \in Seq(Batcher)  BY SeqElements, Zenon DEF QInv, TypeOK
  <1>2. batch[q].of \in Nat \ {0} /\ batch[q].of <= Len(batcher)  BY <1>1, Zenon DEF Batch, QInv, NamesExist
  <1>3. batch[q].of \in DOMAIN batcher  BY <1>1, <1>2, SeqElements
  <1> QED  BY <1>1, <1>2, <1>3, SeqElements, Zenon

\* The keys are fixed while the connection is in hand.
LEMMA AcquireStep ==
    ASSUME QInv, NEW q \in DOMAIN batch, Acquire(q)
    PROVE  QInv'
  <1> DEFINE b == batch[q].of
             tx == IF needsConn(q) THEN "open" ELSE batcher[b].tx
             x == [batcher[b] EXCEPT !.user = q, !.tx = tx]
             e == [batch[q] EXCEPT !.st = "querying", !.asked = batch[q].keys]
  <1>1. UNCHANGED <<view, latest, nsLatest, version, req>>  BY Zenon DEF Acquire, views
  <1>2. batch \in Seq(Batch) /\ batch[q] \in Batch /\ batcher \in Seq(Batcher) /\ BatchInv(q) /\ q \in Nat
    BY SeqElements DEF QInv, TypeOK
  <1>3. /\ e \in Batch /\ e.of = b /\ e.keys = batch[q].keys /\ e.cause = batch[q].cause
        /\ e.st = "querying" /\ e.asked = e.keys /\ e.result = batch[q].result
    BY <1>2, Zenon DEF Batch
  <1>4. batch' = [batch EXCEPT ![q] = e]  BY Zenon DEF Acquire
  <1>5. /\ batcher' \in Seq(Batcher) /\ Len(batcher') = Len(batcher)
        /\ b # 0 => batcher'[b].key = batcher[b].key /\ batcher'[b].snap = batcher[b].snap
        /\ \A a \in DOMAIN batcher :
              /\ batcher'[a].key = batcher[a].key /\ batcher'[a].dead = batcher[a].dead
              /\ batcher[a].snap = 0 \/ batcher'[a].snap = batcher[a].snap
    <2>1. CASE b = 0  BY <1>2, <2>1, Zenon DEF Acquire, usesTx
    <2>2. CASE b # 0
      <3>1. batcher' = [batcher EXCEPT ![b] = x]  BY <2>2, ZenonT(60) DEF Acquire, usesTx
      <3>2. b \in Nat \ {0} /\ b <= Len(batcher) /\ batcher[b] \in Batcher  BY <2>2, BatcherOf, ZenonT(40)
      <3>3. tx \in {"none", "open", "closed"}  BY <3>2, Zenon DEF Batcher
      <3> HIDE DEF b, tx
      <3>4. x \in Batcher /\ x.key = batcher[b].key /\ x.dead = batcher[b].dead /\ x.snap = batcher[b].snap
        BY <1>2, <3>2, <3>3, Zenon DEF Batcher
      <3> HIDE DEF x
      <3> QED  BY <3>1, <3>2, <3>4, UserStep, Zenon
    <2> QED  BY <2>1, <2>2, Zenon
  <1> HIDE DEF e
  <1>6. batch'[q] = e  BY <1>2, <1>3, <1>4, SeqUpdate, Zenon
  <1>7. BatchInv(q)'
    <2>1. batch[q].cause # "ok"  BY <1>2, Zenon DEF Acquire, BatchInv
    <2> QED  BY <1>2, <1>3, <1>5, <1>6, <2>1, ZenonT(40) DEF BatchInv
  <1> QED  BY <1>1, <1>3, <1>4, <1>5, <1>7, ExecutionStep, ZenonT(40)

LEMMA QueryFailsStep ==
    ASSUME QInv, NEW q \in DOMAIN batch, QueryFails(q)
    PROVE  QInv'
  <1> DEFINE b == batch[q].of
             cause == cancelBatch(q, "failed")
             x == [batcher[b] EXCEPT !.user = 0]
             e == [batch[q] EXCEPT !.st = "done", !.cause = cause]
  <1>1. UNCHANGED <<view, latest, nsLatest, version, req>>  BY Zenon DEF QueryFails, views
  <1>2. batch \in Seq(Batch) /\ batch[q] \in Batch /\ batcher \in Seq(Batcher) /\ BatchInv(q)
    BY SeqElements, Zenon DEF QInv, TypeOK
  <1>3. batch[q].cause # "ok"  BY <1>2, Zenon DEF QueryFails, BatchInv
  <1>4. cause \in {"none", "failed"} /\ (BatchEnded(q) => cause = batch[q].cause)
    BY <1>2, <1>3, Zenon DEF cancelBatch, Batch
  <1>5. batch' = [batch EXCEPT ![q] = e]  BY Zenon DEF QueryFails
  <1> HIDE DEF cause
  <1>6. /\ e \in Batch /\ e.of = b /\ e.keys = batch[q].keys /\ e.cause = cause
        /\ e.st = "done" /\ e.result = batch[q].result
    BY <1>2, <1>4, ZenonT(40) DEF Batch
  <1>7. /\ batcher' \in Seq(Batcher) /\ Len(batcher') = Len(batcher)
        /\ b # 0 => batcher'[b].key = batcher[b].key /\ batcher'[b].snap = batcher[b].snap
        /\ \A a \in DOMAIN batcher :
              /\ batcher'[a].key = batcher[a].key /\ batcher'[a].dead = batcher[a].dead
              /\ batcher[a].snap = 0 \/ batcher'[a].snap = batcher[a].snap
    <2>1. CASE b = 0  BY <1>2, <2>1, ZenonT(40) DEF QueryFails, usesTx
    <2>2. CASE b # 0
      <3>1. batcher' = [batcher EXCEPT ![b] = x]  BY <2>2, ZenonT(40) DEF QueryFails, usesTx
      <3>2. b \in Nat \ {0} /\ b <= Len(batcher) /\ batcher[b] \in Batcher  BY <2>2, BatcherOf, Zenon
      <3> HIDE DEF b
      <3>3. x \in Batcher /\ x.key = batcher[b].key /\ x.dead = batcher[b].dead /\ x.snap = batcher[b].snap
        BY <3>2, Zenon DEF Batcher
      <3> HIDE DEF x
      <3> QED  BY <3>1, <3>2, <3>3, UserStep, Zenon
    <2> QED  BY <2>1, <2>2, Zenon
  <1> HIDE DEF e
  <1>8. batch'[q] = e  BY <1>2, <1>5, <1>6, SeqUpdate, Zenon
  <1>9. BatchInv(q)'  BY <1>2, <1>4, <1>6, <1>7, <1>8, ZenonT(40) DEF BatchInv
  <1> QED  BY <1>1, <1>4, <1>5, <1>6, <1>7, <1>9, ExecutionStep, ZenonT(40)

\* The first query of a transaction fixes the snapshot that the others read.
LEMMA ExecuteStep ==
    ASSUME QInv, NEW q \in DOMAIN batch, Execute(q)
    PROVE  QInv'
  <1> DEFINE b == batch[q].of
             cause == cancelBatch(q, "ok")
             snap == IF batcher[b].snap = 0 THEN version ELSE batcher[b].snap
             x == [batcher[b] EXCEPT !.user = 0, !.snap = snap]
             result == Sees(b)
             e == [batch[q] EXCEPT !.st = "done", !.cause = cause, !.result = result]
  <1>1. UNCHANGED <<view, latest, nsLatest, version, req>>  BY Zenon DEF Execute, views
  <1>2. /\ batch \in Seq(Batch) /\ batch[q] \in Batch /\ batcher \in Seq(Batcher) /\ BatchInv(q)
        /\ version \in Nat \ {0}
    BY SeqElements, Zenon DEF QInv, TypeOK
  <1>3. batch[q].cause # "ok" /\ batch[q].keys = batch[q].asked  BY <1>2, Zenon DEF Execute, BatchInv
  <1>4. cause \in {"none", "ok", "failed"} /\ (BatchEnded(q) => cause = batch[q].cause)
    BY <1>2, Zenon DEF cancelBatch, Batch
  <1>5. b # 0 => b \in Nat \ {0} /\ b <= Len(batcher) /\ batcher[b] \in Batcher  BY BatcherOf, Zenon
  <1>6. /\ result \in Nat \ {0}
        /\ b # 0 => snap \in Nat \ {0} /\ (batcher[b].key <= 2 => result = snap)
    <2>1. CASE b = 0  BY <1>2, <2>1, Zenon DEF Sees, usesTx
    <2>2. CASE b # 0
      <3>1. batcher[b].snap \in Nat /\ batcher[b].key \in 0..3  BY <1>5, <2>2, Zenon DEF Batcher
      <3> HIDE DEF b
      <3> QED  BY <1>2, <2>2, <3>1 DEF Sees, usesTx
    <2> QED  BY <2>1, <2>2, Zenon
  <1>7. batch' = [batch EXCEPT ![q] = e]  BY Zenon DEF Execute
  <1>8. b = 0 => batcher' = batcher  BY Zenon DEF Execute, usesTx
  <1>9. b # 0 => batcher' = [batcher EXCEPT ![b] = x]  BY Zenon DEF Execute, usesTx
  <1>10. b # 0 => batcher[b].snap \in {0, snap}  BY Zenon
  <1> HIDE DEF cause, result, snap
  <1>11. /\ e \in Batch /\ e.of = b /\ e.keys = batch[q].keys /\ e.asked = batch[q].asked
         /\ e.cause = cause /\ e.st = "done" /\ e.result = result
    BY <1>2, <1>4, <1>6, ZenonT(60) DEF Batch
  <1> HIDE DEF e
  <1>12. /\ batcher' \in Seq(Batcher) /\ Len(batcher') = Len(batcher)
         /\ b # 0 => batcher'[b].key = batcher[b].key /\ batcher'[b].snap = snap
         /\ \A a \in DOMAIN batcher :
               /\ batcher'[a].key = batcher[a].key /\ batcher'[a].dead = batcher[a].dead
               /\ batcher[a].snap = 0 \/ batcher'[a].snap = batcher[a].snap
    <2>1. CASE b = 0  BY <1>2, <1>8, <2>1, Zenon
    <2>2. CASE b # 0
      <3> HIDE DEF b
      <3>1. x \in Batcher /\ x.key = batcher[b].key /\ x.dead = batcher[b].dead /\ x.snap = snap
        BY <1>5, <1>6, <2>2, Zenon DEF Batcher
      <3> HIDE DEF x
      <3> QED  BY <1>5, <1>9, <1>10, <2>2, <3>1, UserStep, ZenonT(40)
    <2> QED  BY <2>1, <2>2, Zenon
  <1>13. batch'[q] = e  BY <1>2, <1>7, <1>11, SeqUpdate, Zenon
  <1>14. BatchInv(q)'  BY <1>3, <1>6, <1>11, <1>12, <1>13, ZenonT(40) DEF BatchInv
  <1> QED  BY <1>1, <1>4, <1>7, <1>11, <1>12, <1>14, ExecutionStep, ZenonT(40)

-----------------------------------------------------------------------------
(* Steps of a request that change or create a batch.                        *)

LEMMA ListedExists ==
    ASSUME QInv, NEW b, NEW n
    PROVE  Listed(b, n) \in Nat /\ Listed(b, n) <= Len(batch)
  <1>1. DOMAIN batch = 1..Len(batch) /\ Len(batch) \in Nat  BY SeqElements, Zenon DEF QInv, TypeOK
  <1> QED  BY <1>1 DEF Listed, QInv, NamesExist

LEMMA AddKeysStep ==
    ASSUME QInv, NEW r \in Req, AddKeys(r)
    PROVE  QInv'
  <1>1. UNCHANGED <<view, batcher, latest, nsLatest, version>>  BY Zenon DEF AddKeys, views, batching
  <1>2. /\ batch \in Seq(Batch) /\ Len(batch) \in Nat /\ batcher \in Seq(Batcher) /\ Len(batcher) \in Nat
        /\ DOMAIN batch = 1..Len(batch)
    BY SeqElements, Zenon DEF QInv, TypeOK
  <1>3. /\ req \in [Req -> Locals] /\ req[r].pc = "nupdate" /\ req[r].val <= Len(batch)
        /\ req[r].rows = <<>> /\ req[r].b <= Len(batcher) /\ RequestInv(r)
        /\ Len(req[r].joined) < Len(req[r].namespaces)
    BY Zenon DEF QInv, TypeOK, AddKeys, NamesExist, Named, RequestInv, Assigning
  <1>4. req[r] \in Locals /\ req[r].val \in Nat /\ req[r].joined \in Seq(Nat) /\ Len(req[r].namespaces) \in Nat
    BY <1>3 DEF Locals
  <1>5. PICK q \in Nat :
           /\ q = IF req[r].val # 0 THEN req[r].val ELSE Listed(req[r].b, ns(r))
           /\ q <= Len(batch)
    BY <1>3, <1>4, ListedExists, Zenon
  <1>6. CASE q # 0 /\ canAdd(q)
    <2> DEFINE st == IF batch[q].st = "open" /\ Cardinality(batch[q].keys) + 1 >= MinBatchKeys
                     THEN "submitted" ELSE batch[q].st
               e == [batch[q] EXCEPT !.keys = batch[q].keys \cup {r}, !.st = st]
               joined == Append(req[r].joined, q)
               pc == IF Len(joined) = Len(req[r].namespaces) THEN "wait" ELSE "nupdate"
               f == [req[r] EXCEPT !.joined = joined, !.val = 0, !.pc = pc]
    <2>1. q \in DOMAIN batch  BY <1>2, <1>5, <1>6
    <2>2. batch[q] \in Batch /\ BatchInv(q)  BY <1>2, <2>1, SeqElements, Zenon DEF QInv
    <2>3. batch[q].st \in {"open", "submitted"} /\ batch[q].cause # "ok" /\ ~BatchEnded(q)
      BY <1>6, <2>2, Zenon DEF canAdd, BatchInv
    <2>4. st \in {"open", "submitted"}  BY <2>3, Zenon
    <2>5. batch' = [batch EXCEPT ![q] = e]
      <3>1. batch' = [batch EXCEPT
                         ![q].keys = @ \cup {r},
                         ![q].st = IF @ = "open" /\ Cardinality(batch[q].keys) + 1 >= MinBatchKeys
                                   THEN "submitted" ELSE @]
        BY ONLY AddKeys(r), <1>5, <1>6, Zenon DEF AddKeys
      <3> QED  BY <2>1, <2>2, <3>1, ZenonT(60) DEF Batch
    <2>6. req' = [req EXCEPT ![r] = f]  BY <1>3, <1>5, <1>6, ZenonT(30) DEF AddKeys
    <2> HIDE DEF st
    <2>7. /\ e \in Batch /\ e.of = batch[q].of /\ e.keys = batch[q].keys \cup {r} /\ e.cause = batch[q].cause
          /\ e.st = st /\ e.result = batch[q].result
      BY <2>2, <2>4, Zenon DEF Batch
    <2>8. /\ joined \in Seq(Nat) /\ Len(joined) = Len(req[r].joined) + 1
          /\ DOMAIN joined = DOMAIN req[r].joined \cup {Len(req[r].joined) + 1}
          /\ joined[Len(req[r].joined) + 1] = q
          /\ \A i \in DOMAIN req[r].joined : joined[i] = req[r].joined[i]
      <3> DEFINE s == req[r].joined
      <3>1. s \in Seq(Nat)  BY <1>4, Zenon
      <3> HIDE DEF s
      <3>2. LET u == Append(s, q)
            IN  /\ u \in Seq(Nat) /\ Len(u) = Len(s) + 1 /\ u[Len(s) + 1] = q
                /\ DOMAIN u = DOMAIN s \cup {Len(s) + 1} /\ \A j \in DOMAIN s : u[j] = s[j]
        BY <3>1, SeqAppend
      <3> QED  BY <3>2, Zenon DEF s
    <2>9. /\ pc \in {"wait", "nupdate"} /\ Len(joined) \in Nat /\ 0 < Len(joined)
          /\ pc = "wait" => Len(joined) = Len(req[r].namespaces)
          /\ pc = "nupdate" => Len(joined) < Len(req[r].namespaces)
      <3>1. Len(req[r].joined) \in Nat  BY <1>4, SeqElements, Zenon
      <3>2. Len(joined) = Len(req[r].joined) + 1  BY <2>8, Zenon
      <3> HIDE DEF joined
      <3> QED  BY <1>3, <1>4, <3>1, <3>2
    <2> HIDE DEF e, joined, pc
    <2>10. /\ f \in Locals /\ f.pc = pc /\ f.b = req[r].b /\ f.namespaces = req[r].namespaces
           /\ f.rows = <<>> /\ f.joined = joined /\ f.val = 0
      BY <1>3, <1>4, <2>8, <2>9, ZenonT(60) DEF Locals, Assigning
    <2> HIDE DEF f
    <2>11. /\ batch' \in Seq(Batch) /\ DOMAIN batch' = DOMAIN batch /\ batch'[q] = e
           /\ \A p \in DOMAIN batch : p # q => batch'[p] = batch[p]
      BY <1>2, <2>1, <2>5, <2>7, SeqUpdate, ZenonT(40)
    <2>12. BatchInv(q)'  BY <1>1, <2>2, <2>3, <2>4, <2>7, <2>11, ZenonT(40) DEF BatchInv
    <2>13. req' \in [Req -> Locals] /\ req'[r] = f /\ \A s \in Req : s # r => req'[s] = req[s]
      BY <1>3, <2>6, <2>10, Zenon
    <2>14. \A s \in Req : Named(req'[s], Len(batcher), Len(batch))
      <3>1. Named(f, Len(batcher), Len(batch))
        BY <1>2, <1>3, <2>9, <2>10 DEF Named, Assigning
      <3> QED  BY <2>13, <3>1, ZenonT(40) DEF QInv, NamesExist
    <2>15. RequestInv(r)'
      <3>1. \A i \in DOMAIN joined : joined[i] \in DOMAIN batch' /\ r \in batch'[joined[i]].keys
        <4>1. \A i \in DOMAIN req[r].joined :
                 req[r].joined[i] \in DOMAIN batch /\ r \in batch[req[r].joined[i]].keys
          BY <1>3, Zenon DEF RequestInv
        <4>2. \A p \in DOMAIN batch : r \in batch[p].keys => r \in batch'[p].keys
          BY <2>7, <2>11, Zenon
        <4>3. q \in DOMAIN batch' /\ r \in batch'[q].keys  BY <2>1, <2>7, <2>11, Zenon
        <4> QED  BY <2>8, <2>11, <4>1, <4>2, <4>3, ZenonT(40)
      <3> QED  BY <2>9, <2>10, <2>13, <3>1 DEF RequestInv, Assigning
    <2>16. \A s \in Req : req'[s] = req[s] \/ RequestInv(s)'  BY <2>13, <2>15, Zenon
    <2>17. /\ batch[q].keys \subseteq e.keys /\ (BatchEnded(q) => e.cause = batch[q].cause)
           /\ batcher' \in Seq(Batcher) /\ Len(batcher') = Len(batcher)
           /\ \A b \in DOMAIN batcher :
                 /\ batcher'[b].key = batcher[b].key /\ batcher'[b].dead = batcher[b].dead
                 /\ batcher[b].snap = 0 \/ batcher'[b].snap = batcher[b].snap
      BY <1>1, <1>2, <2>7, Zenon
    <2> QED  BY <1>1, <2>1, <2>5, <2>7, <2>12, <2>13, <2>14, <2>16, <2>17, BatchStep, ZenonT(60)
  <1>7. CASE ~(q # 0 /\ canAdd(q))
    <2> DEFINE f == [req[r] EXCEPT !.pc = "nassign", !.val = q]
    <2>1. batch' = batch /\ req' = [req EXCEPT ![r] = f]  BY <1>5, <1>7, Zenon DEF AddKeys
    <2>2. /\ f \in Locals /\ f.pc = "nassign" /\ f.b = req[r].b /\ f.namespaces = req[r].namespaces
          /\ f.rows = <<>> /\ f.joined = req[r].joined /\ f.val = q
      BY <1>3, <1>4, <1>5, ZenonT(60) DEF Locals, Assigning
    <2> HIDE DEF f
    <2>3. Calm  BY <1>1, <1>2, <2>1 DEF Calm
    <2>4. Named(f, Len(batcher'), Len(batch))  BY <1>1, <1>2, <1>3, <1>5, <2>2, ZenonT(40) DEF Named, Assigning
    <2>5. RequestInv(r)'
      <3>1. Len(f.rows) <= Len(f.joined)  BY <1>4, <2>2
      <3>2. req'[r] = f  BY <1>3, <2>1, Zenon
      <3> QED  BY <1>3, <2>1, <2>2, <3>1, <3>2 DEF RequestInv, Assigning
    <2>6. /\ latest' \in [0..3 -> Nat] /\ view' \in [View -> Holder]
          /\ \A k \in 0..3 : latest'[k] <= Len(batcher')
          /\ \A v \in View : view'[v].batcher <= Len(batcher')
      BY <1>1, Zenon DEF QInv, TypeOK, NamesExist
    <2> QED  BY <1>1, <1>2, <2>1, <2>2, <2>3, <2>4, <2>5, <2>6, RequestStep, ZenonT(40)
  <1> QED  BY <1>6, <1>7, Zenon

\* A new batch has no rows, and takes the next place.
LEMMA AssignBatchStep ==
    ASSUME QInv, NEW r \in Req, AssignBatch(r)
    PROVE  QInv'
  <1> DEFINE at == <<req[r].b, ns(r)>>
             won == Listed(req[r].b, ns(r)) = req[r].val
             val == IF won THEN nsLatest'[at] ELSE 0
             f == [req[r] EXCEPT !.pc = "nupdate", !.val = val]
  <1>1. UNCHANGED <<view, batcher, latest, version>>  BY Zenon DEF AssignBatch, views, batching
  <1>2. /\ batch \in Seq(Batch) /\ Len(batch) \in Nat /\ batcher \in Seq(Batcher) /\ Len(batcher) \in Nat
        /\ DOMAIN batch = 1..Len(batch)
    BY SeqElements, Zenon DEF QInv, TypeOK
  <1>3. /\ req \in [Req -> Locals] /\ req[r].pc = "nassign" /\ RequestInv(r)
        /\ req[r].rows = <<>> /\ req[r].b <= Len(batcher)
    BY Zenon DEF QInv, TypeOK, AssignBatch, NamesExist, Named, RequestInv, Assigning
  <1>4. req[r] \in Locals /\ req[r].joined \in Seq(Nat) /\ req[r].b \in Nat  BY <1>3, Zenon DEF Locals
  <1>5. req' = [req EXCEPT ![r] = f]  BY <1>3, Zenon DEF AssignBatch
  <1>6. /\ latest' \in [0..3 -> Nat] /\ view' \in [View -> Holder]
        /\ \A k \in 0..3 : latest'[k] <= Len(batcher')
        /\ \A v \in View : view'[v].batcher <= Len(batcher')
    BY <1>1, Zenon DEF QInv, TypeOK, NamesExist
  <1>7. val \in Nat => /\ f \in Locals /\ f.pc = "nupdate" /\ f.b = req[r].b /\ f.namespaces = req[r].namespaces
                       /\ f.rows = <<>> /\ f.joined = req[r].joined /\ f.val = val
    <2> HIDE DEF val
    <2> QED  BY <1>3, <1>4, Zenon DEF Locals, Assigning
  <1>8. CASE ~won
    <2>1. batch' = batch /\ nsLatest' = nsLatest  BY <1>8, Zenon DEF AssignBatch
    <2>2. val = 0  BY <1>8, Zenon
    <2> HIDE DEF val, f, won
    <2>3. Calm  BY <1>1, <1>2, <2>1 DEF Calm
    <2>4. Named(f, Len(batcher'), Len(batch))  BY <1>1, <1>2, <1>3, <1>7, <2>2 DEF Named, Assigning
    <2>5. RequestInv(r)'
      <3>1. Len(f.rows) <= Len(f.joined)  BY <1>4, <1>7, <2>2
      <3>2. req'[r] = f  BY <1>3, <1>5, Zenon
      <3> QED  BY <1>3, <1>7, <2>1, <2>2, <3>1, <3>2 DEF RequestInv, Assigning
    <2> QED  BY <1>1, <1>2, <1>5, <1>6, <1>7, <2>1, <2>2, <2>3, <2>4, <2>5, RequestStep, ZenonT(40)
  <1>9. CASE won
    <2> DEFINE e == newBatch(req[r].b)
               last == Len(batch) + 1
    <2>1. batch' = Append(batch, e)  BY <1>9, Zenon DEF AssignBatch
    <2>2. nsLatest' = [x \in DOMAIN nsLatest \cup {at} |-> IF x = at THEN last ELSE nsLatest[x]]
      BY <1>9, Zenon DEF AssignBatch
    <2>3. val = last  BY <1>9, <2>2, Zenon
    <2>4. /\ e \in Batch /\ e.of = req[r].b /\ e.result = 0 /\ e.cause = "none" /\ e.st = "open"
      BY <1>4, Zenon DEF newBatch, Batch
    <2> HIDE DEF e, val, f, won, at
    <2>5. /\ batch' \in Seq(Batch) /\ Len(batch') = last /\ batch'[last] = e
          /\ DOMAIN batch' = DOMAIN batch \cup {last}
          /\ \A q \in DOMAIN batch : batch'[q] = batch[q]
      BY <1>2, <2>1, <2>4, SeqAppend
    <2>6. last \in Nat /\ Len(batch) <= last  BY <1>2
    <2> HIDE DEF last
    <2>7. req' \in [Req -> Locals] /\ req'[r] = f /\ \A s \in Req : s # r => req'[s] = req[s]
      BY <1>3, <1>5, <1>7, <2>3, <2>6, ZenonT(40)
    <2>8. TypeOK'  BY <1>1, <1>2, <1>6, <2>5, <2>7, ZenonT(40) DEF QInv, TypeOK
    <2>9. \A q \in DOMAIN batch' : batch'[q].of <= Len(batcher)
      BY <1>3, <2>4, <2>5, Zenon DEF QInv, NamesExist
    <2>10. \A x \in DOMAIN nsLatest' : nsLatest'[x] \in DOMAIN batch'
      BY <2>2, <2>5, Zenon DEF QInv, NamesExist
    <2>11. \A s \in Req : Named(req'[s], Len(batcher), Len(batch'))
      <3>1. Named(f, Len(batcher), last)  BY <1>2, <1>3, <1>7, <2>3, <2>6 DEF Named, Assigning
      <3>2. ASSUME NEW s \in Req, s # r PROVE Named(req'[s], Len(batcher), last)
        <4>1. req[s] \in Locals /\ req'[s] = req[s] /\ Named(req[s], Len(batcher), Len(batch))
          BY <1>3, <2>7, <3>2, Zenon DEF QInv, NamesExist
        <4> QED  BY <1>2, <2>6, <4>1, StillNamed
      <3> QED  BY <2>5, <2>7, <3>1, <3>2, ZenonT(40)
    <2>12. NamesExist'  BY <1>1, <1>6, <2>9, <2>10, <2>11, ZenonT(40) DEF NamesExist
    <2>13. Later  BY <1>1, <1>2, <2>5, <2>6 DEF Later
    <2>14. ASSUME NEW q \in DOMAIN batch' PROVE BatchInv(q)'
      <3>1. CASE q \in DOMAIN batch  BY <1>1, <2>5, <3>1, ZenonT(40) DEF QInv, BatchInv
      <3>2. CASE q = last  BY <2>4, <2>5, <3>2, ZenonT(40) DEF BatchInv
      <3> QED  BY <2>5, <3>1, <3>2, Zenon
    <2>15. RequestInv(r)'
      <3>1. Len(f.rows) <= Len(f.joined)  BY <1>4, <1>7, <2>3, <2>6
      <3>2. \A i \in DOMAIN f.joined : f.joined[i] \in DOMAIN batch' /\ r \in batch'[f.joined[i]].keys
        BY <1>3, <1>7, <2>3, <2>5, <2>6 DEF RequestInv
      <3>3. Len(f.joined) < Len(f.namespaces)  BY <1>3, <1>7, <2>3, <2>6, ZenonT(40) DEF RequestInv, Assigning
      <3>4. f.pc = "nupdate" /\ f.rows = <<>>  BY <1>7, <2>3, <2>6, Zenon
      <3> QED  BY <2>7, <3>1, <3>2, <3>3, <3>4 DEF RequestInv
    <2> QED  BY <2>7, <2>8, <2>12, <2>13, <2>14, <2>15, Assemble, ZenonT(40)
  <1> QED  BY <1>8, <1>9, Zenon

-----------------------------------------------------------------------------
LEMMA QInvStep == QInv /\ [Next]_vars => QInv'
  <1> SUFFICES ASSUME QInv, [Next]_vars PROVE QInv'  BY Zenon
  <1>1. CASE \E v \in View : ViewTimeout(v) \/ BeginView(v) \/ EndView(v)  BY <1>1, ViewsStep, Zenon
  <1>2. CASE \E v \in View : Retire(v)  BY <1>2, RetireStep, Zenon
  <1>3. CASE \E b \in DOMAIN batcher : Unlist(b) \/ Rollback(b)  BY <1>3, BatchersStep, Zenon
  <1>4. ASSUME NEW r \in Req, GetRows(r) \/ GetTransactionStatus(r) PROVE QInv'
    <2>1. assignRequest(r) \/ WaitForRows(r)  BY <1>4, Zenon DEF GetRows, GetTransactionStatus
    <2> QED  BY <2>1, LoadHolderStep, LockHolderStep, JoinBatcherStep, AssignBatcherStep, AddKeysStep,
                AssignBatchStep, WaitForRowsStep, ZenonT(40) DEF assignRequest
  <1>5. ASSUME NEW q \in DOMAIN batch, Execution(q) \/ Acquire(q) \/ AcquireFails(q) PROVE QInv'
    BY <1>5, QueryFailsStep, ExecuteStep, TimerStep, AcquireStep, ZenonT(40) DEF Execution
  <1>6. CASE \E r \in Req : ClientCancel(r)  BY <1>6, ClientCancelStep, Zenon
  <1>7. CASE Commit \/ UNCHANGED vars  BY <1>7, CommitStep, Zenon
  <1> QED  BY <1>1, <1>2, <1>3, <1>4, <1>5, <1>6, <1>7, ZenonT(40) DEF Next, Internal

\* What is proved of sharedLazyTx and addKeys: all the queries of views that
\* share a batcher above READ COMMITTED see one version of the state, and a
\* batch that was queried has the keys of every request that waits for it.
THEOREM ViewsAlwaysConsistent == Spec => []ViewConsistent
  <1>1. QInv => ViewConsistent
    <2> SUFFICES ASSUME QInv PROVE ViewConsistent  BY Zenon
    <2>1. ASSUME NEW b \in DOMAIN batcher, batcher[b].key <= 2 PROVE Cardinality(Results(b)) <= 1
      <3>1. b # 0  BY SeqElements DEF QInv, TypeOK
      <3>2. Results(b) \subseteq {batcher[b].snap}  BY <2>1, <3>1, Zenon DEF Results, QInv, BatchInv
      <3>3. Results(b) = {} \/ Results(b) = {batcher[b].snap}  BY <3>2, Zenon
      <3>4. Cardinality(Results(b)) \in {0, 1}  BY <3>3, FS_EmptySet, FS_Singleton, Zenon
      <3> QED  BY <3>4
    <2>2. ASSUME NEW r \in Req, NEW i \in DOMAIN req[r].rows, batch[req[r].joined[i]].cause = "ok"
          PROVE  req[r].rows[i] # 0
      BY <2>2, Zenon DEF QInv, RequestInv
    <2> QED  BY <2>1, <2>2, Zenon DEF ViewConsistent
  <1> QED  BY <1>1, QInvInit, QInvStep, PTL DEF Spec

=============================================================================
