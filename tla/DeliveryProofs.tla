---------------------------- MODULE DeliveryProofs ----------------------------
(***************************************************************************)
(* Proofs about the fault tolerant delivery, for any parties, any of them   *)
(* faulty, any chain of blocks and any config blocks in it.                 *)
(***************************************************************************)
EXTENDS Delivery, WellFoundedInduction, TLAPS

Config == ConfigBlocks \cup {NoConfig}

TypeOK ==
  /\ dataStream.next \in 0..LastNum + 1 /\ dataStream.config \in Config
  /\ headerOnlyStream.next \in 0..LastNum + 1 /\ headerOnlyStream.config \in Config
  /\ DOMAIN dataStream = {"next", "updater", "config"}
  /\ DOMAIN headerOnlyStream = {"next", "updater", "config"}
  /\ latestConfig \in ConfigBlocks
  /\ DOMAIN worker \subseteq Party \cup {Joint}
  /\ \A p \in DOMAIN worker : worker[p] \in Nat
  /\ proc \in {"read", "write", "done"}
  /\ hold.num \in Int
  /\ out \in Seq(Nat) /\ lost \subseteq Nat

Message == [src : Party \cup {Joint}, num : 0..LastNum, damage : {"no"} \cup Damages, data : BOOLEAN]

\* A queued message has its number from the chain, and carries the data of a
\* config block whichever stream it comes from.
QueueInv ==
  /\ queue \in Seq(Message)
  /\ \A i \in DOMAIN queue : queue[i].num \in ConfigBlocks => queue[i].data

\* The block to write is the last one the data stream verified, and the caller
\* has none as new.
PendingInv == proc = "write" =>
  /\ hold.num = dataStream.next - 1
  /\ \A i \in 1..Len(out) : out[i] < hold.num

\* The inductive invariant.
DInv == TypeOK /\ QueueInv /\ PendingInv /\ OutputRun /\ ConfigExact

-----------------------------------------------------------------------------
(* The maximum of a set of integers *)

\* Every set of naturals with an element has a least one.
LEMMA Least ==
  ASSUME NEW T \in SUBSET Nat, T # {}
  PROVE  \E x \in T : \A y \in T : x <= y
  <1> DEFINE R == OpToRel(<, Nat)
  <1>1. IsWellFoundedOn(R, Nat)  BY NatLessThanWellFounded, Zenon
  <1>2. PICK x \in T : \A y \in T : ~(<<y, x>> \in R)  BY <1>1, WFMin, Zenon
  <1>3. ASSUME NEW y \in T PROVE x <= y
    <2>1. ~(y < x)  BY <1>2, Zenon DEF OpToRel
    <2> QED  BY <2>1
  <1> QED  BY <1>2, <1>3, Zenon

\* What Max returns, for a set that has an upper bound.
LEMMA MaxOf ==
  ASSUME NEW T \in SUBSET Int, T # {}, NEW b \in Int, \A y \in T : y <= b
  PROVE  Max(T) \in T /\ \A y \in T : Max(T) >= y
  <1> DEFINE D == {n \in Nat : b - n \in T}
  <1>1. PICK t \in T : TRUE  BY Zenon
  <1>2. b - t \in D  BY <1>1
  <1>3. PICK x \in D : \A y \in D : x <= y  BY <1>2, Least, Zenon
  <1>4. b - x \in T  OBVIOUS
  <1>5. ASSUME NEW y \in T PROVE b - x >= y
    <2>1. b - y \in D  OBVIOUS
    <2>2. x \in Nat /\ y \in Int  OBVIOUS
    <2>3. x <= b - y  BY <1>3, <2>1, Zenon
    <2> QED  BY <2>2, <2>3
  <1>6. \E z \in T : \A y \in T : z >= y  BY <1>4, <1>5
  <1> QED  BY <1>6, Zenon DEF Max

\* A greatest element is the maximum.
LEMMA MaxIs ==
  ASSUME NEW T \in SUBSET Int, NEW x \in T, \A y \in T : y <= x
  PROVE  Max(T) = x
  <1> DEFINE m == Max(T)
  <1>1. m \in T /\ \A y \in T : m >= y  BY MaxOf, Zenon
  <1> HIDE DEF m
  <1>2. m = x  BY <1>1
  <1> QED  BY <1>2 DEF m

LEMMA MaxOfTwo ==
  ASSUME NEW a \in Int, NEW b \in Int
  PROVE  Max({a, b}) = IF a >= b THEN a ELSE b
  <1>1. CASE a >= b
    <2>1. \A y \in {a, b} : y <= a  BY <1>1
    <2>2. Max({a, b}) = a  BY <2>1, MaxIs
    <2> QED  BY <1>1, <2>2
  <1>2. CASE ~(a >= b)
    <2>1. \A y \in {a, b} : y <= b  BY <1>2
    <2>2. Max({a, b}) = b  BY <2>1, MaxIs
    <2> QED  BY <1>2, <2>2
  <1> QED  BY <1>1, <1>2

-----------------------------------------------------------------------------
(* The config block in force, and the height of the ledger *)

LEMMA ConfigType == ConfigBlocks \subseteq Nat /\ Config \subseteq Int /\ NoConfig \in Config /\ 0 \in Config
  BY DeliveryAssumption DEF Config, NoConfig

LEMMA ConfigForType ==
  ASSUME NEW n \in Nat
  PROVE  ConfigFor(n) \in Config /\ ConfigFor(n) < n
  <1> DEFINE before == {c \in ConfigBlocks : c < n}
  <1>1. before \subseteq Int /\ before \subseteq ConfigBlocks /\ \A c \in before : c < n /\ c <= n
    <2>1. ASSUME NEW c \in before PROVE c \in Nat /\ c \in ConfigBlocks /\ c < n /\ c <= n
      <3>1. c \in ConfigBlocks /\ c < n  OBVIOUS
      <3>2. c \in Nat  BY <3>1, ConfigType
      <3> QED  BY <3>1, <3>2
    <2> QED  BY <2>1
  <1>2. ConfigFor(n) = IF before = {} THEN NoConfig ELSE Max(before)  BY DEF ConfigFor
  <1> HIDE DEF before
  <1>3. CASE before = {}  BY <1>2, <1>3, ConfigType DEF NoConfig
  <1>4. CASE before # {}
    <2>1. n \in Int /\ before \in SUBSET Int /\ \A y \in before : y <= n  BY <1>1
    <2>2. Max(before) \in before  BY <1>4, <2>1, MaxOf, Zenon
    <2> QED  BY <1>1, <1>2, <1>4, <2>2, Zenon DEF Config
  <1> QED  BY <1>3, <1>4

\* updateIfConfigBlock moves the config in force over one block.
LEMMA ConfigForNext ==
  ASSUME NEW n \in Nat
  PROVE  ConfigFor(n + 1) = IF n \in ConfigBlocks THEN n ELSE ConfigFor(n)
  <1> DEFINE next == {c \in ConfigBlocks : c < n + 1}
             before == {c \in ConfigBlocks : c < n}
  <1>0. \A c \in ConfigBlocks : c \in Nat  BY ConfigType
  <1>1. next \subseteq Int /\ \A c \in next : c <= n
    <2>1. ASSUME NEW c \in next PROVE c \in Int /\ c <= n
      <3>1. c \in ConfigBlocks /\ c < n + 1  OBVIOUS
      <3> QED  BY <1>0, <3>1
    <2> QED  BY <2>1
  <1>2. ConfigFor(n + 1) = IF next = {} THEN NoConfig ELSE Max(next)  BY DEF ConfigFor
  <1>3. ConfigFor(n) = IF before = {} THEN NoConfig ELSE Max(before)  BY DEF ConfigFor
  <1>4. CASE n \in ConfigBlocks
    <2>1. n \in next  BY <1>4
    <2> HIDE DEF next
    <2>2. Max(next) = n  BY <1>1, <2>1, MaxIs
    <2> QED  BY <1>2, <1>4, <2>1, <2>2
  <1>5. CASE n \notin ConfigBlocks
    <2>1. \A c \in ConfigBlocks : c < n + 1 <=> c < n  BY <1>0, <1>5
    <2>2. next = before  BY <2>1
    <2> QED  BY <1>2, <1>3, <1>5, <2>2
  <1> QED  BY <1>4, <1>5

LEMMA HeightOf ==
  ASSUME out \in Seq(Nat)
  PROVE  Height \in 0..Len(out) /\ \A i \in 1..Height : out[i] = i - 1
  <1> DEFINE H == {n \in 0..Len(out) : \A i \in 1..n : out[i] = i - 1}
  <1>1. Len(out) \in Nat /\ H \subseteq Int /\ 0 \in H /\ \A n \in H : n <= Len(out)  OBVIOUS
  <1>2. Max(H) \in H
    <2> HIDE DEF H
    <2>1. H # {} /\ Len(out) \in Int  BY <1>1
    <2> QED  BY <1>1, <2>1, MaxOf, Zenon
  <1>3. Height = Max(H)  BY DEF Height
  <1> QED  BY <1>2, <1>3

-----------------------------------------------------------------------------
(* The start of a delivery *)

\* The numbers of a ledger of n blocks.
LEMMA LedgerRun ==
  ASSUME NEW n \in Nat, NEW o \in Seq(Nat), Len(o) = n, \A i \in 1..n : o[i] = i - 1
  PROVE  /\ \A i, j \in 1..Len(o) : i < j => o[i] < o[j]
         /\ (0..n - 1) = {o[i] : i \in 1..Len(o)}
  <1>1. ASSUME NEW x \in 0..n - 1 PROVE \E i \in 1..n : o[i] = x
    <2>1. x + 1 \in 1..n /\ o[x + 1] = x  OBVIOUS
    <2> QED  BY <2>1
  <1>2. \A i \in 1..n : o[i] \in 0..n - 1  OBVIOUS
  <1>3. (0..n - 1) = {o[i] : i \in 1..n}  BY <1>1, <1>2
  <1> QED  BY <1>3

\* The stream states and the latest config of newFTDelivery.
LEMMA Fresh ==
  ASSUME NEW n \in 0..LastNum + 1, NEW known \in ConfigBlocks
  PROVE  LET latest == Max({known, ConfigFor(n)}) IN
         /\ ConfigFor(n) \in Config /\ latest \in ConfigBlocks
         /\ configBlockNumber(latest) >= Max({ConfigFor(n), ConfigFor(n)})
  <1> DEFINE c == ConfigFor(n)
             latest == Max({known, c})
  <1>1. n \in Nat  BY DeliveryAssumption
  <1>2. c \in Config  BY <1>1, ConfigForType
  <1>3. known \in Nat /\ c \in Int  BY <1>2, ConfigType, Zenon
  <1> HIDE DEF c
  <1>4. latest = IF known >= c THEN known ELSE c  BY <1>3, MaxOfTwo
  <1>5. Max({c, c}) = c  BY <1>3, MaxOfTwo
  <1> HIDE DEF latest
  <1>6. latest \in ConfigBlocks /\ latest \in Nat /\ latest >= c
    BY <1>2, <1>3, <1>4 DEF Config, NoConfig
  <1>7. configBlockNumber(latest) = IF latest >= 0 THEN latest ELSE 0
    BY <1>6, MaxOfTwo DEF configBlockNumber
  <1>8. configBlockNumber(latest) >= Max({c, c})  BY <1>3, <1>5, <1>6, <1>7
  <1> QED  BY <1>2, <1>6, <1>8 DEF c, latest

\* A worker starts where one of the two streams stands.
LEMMA Workers ==
  ASSUME NEW d, NEW h, NEW latest \in ConfigBlocks, d.next \in Nat, h.next \in Nat,
         initStreams(d, h, latest)
  PROVE  /\ DOMAIN worker' \subseteq Party \cup {Joint}
         /\ \A p \in DOMAIN worker' : worker'[p] \in Nat
  <1>1. Parties[latest] \subseteq Party  BY DeliveryAssumption
  <1>2. CASE worker' = [q \in {Joint} |-> d.next]  BY <1>2
  <1>3. ASSUME NEW p, worker' = [q \in Parties[latest] |-> IF q = p THEN d.next ELSE h.next]
        PROVE  /\ DOMAIN worker' \subseteq Party \cup {Joint}
               /\ \A q \in DOMAIN worker' : worker'[q] \in Nat
    BY <1>1, <1>3
  <1> QED  BY <1>2, <1>3 DEF initStreams

LEMMA DInvInit == Init => DInv
  <1> SUFFICES ASSUME Init PROVE DInv  OBVIOUS
  <1>1. PICK n \in Starts, known \in KnownConfigs :
          /\ dataStream = newBlockProcessingState(n) /\ headerOnlyStream = newBlockProcessingState(n)
          /\ latestConfig = Max({known, newBlockProcessingState(n).config})
          /\ out = [i \in 1..n |-> i - 1]
    BY Zenon DEF Init
  <1>2. n \in 0..LastNum + 1 /\ n \in Nat /\ known \in ConfigBlocks  BY DeliveryAssumption
  <1>3. newBlockProcessingState(n) = [next |-> n, updater |-> NoSource, config |-> ConfigFor(n)]
    BY DEF newBlockProcessingState
  <1>4. /\ dataStream.next = n /\ dataStream.config = ConfigFor(n)
        /\ headerOnlyStream.next = n /\ headerOnlyStream.config = ConfigFor(n)
        /\ latestConfig = Max({known, ConfigFor(n)})
        /\ DOMAIN dataStream = {"next", "updater", "config"}
        /\ DOMAIN headerOnlyStream = {"next", "updater", "config"}
    BY <1>1, <1>3
  <1>5. /\ ConfigFor(n) \in Config /\ latestConfig \in ConfigBlocks
        /\ configBlockNumber(latestConfig) >= Max({ConfigFor(n), ConfigFor(n)})
    BY <1>2, <1>4, Fresh
  <1>6. out \in Seq(Nat) /\ Len(out) = n /\ \A i \in 1..n : out[i] = i - 1  BY <1>1, <1>2
  <1>7. TypeOK
    BY <1>2, <1>4, <1>5, <1>6 DEF Init, TypeOK, Wrong
  <1>8. QueueInv /\ PendingInv  BY DEF Init, QueueInv, PendingInv
  <1>9. OutputRun
    <2>1. proc # "write" /\ lost = {}  BY DEF Init
    <2> QED  BY <1>2, <1>4, <1>6, <2>1, LedgerRun, SMTT(40) DEF OutputRun
  <1>10. ConfigExact  BY <1>4, <1>5 DEF ConfigExact
  <1> QED  BY <1>7, <1>8, <1>9, <1>10 DEF DInv

LEMMA ResumeStep == DInv /\ Resume => DInv'
  <1> SUFFICES ASSUME DInv, Resume PROVE DInv'  OBVIOUS
  <1>1. PICK n : n = Height  OBVIOUS
  <1>2. n \in 0..Len(out) /\ \A i \in 1..n : out[i] = i - 1  BY <1>1, HeightOf, SMTT(40) DEF DInv, TypeOK
  <1>3. out \in Seq(Nat) /\ Len(out) \in Nat  BY DEF DInv, TypeOK
  <1>4. n \in 0..LastNum + 1 /\ n \in Nat
    <2>1. CASE n = 0  BY <2>1, DeliveryAssumption
    <2>2. CASE n > 0
      <3>1. n \in 1..Len(out) /\ out[n] = n - 1  BY <1>2, <1>3, <2>2
      <3>2. out[n] \in 0..dataStream.next - 1  BY <3>1 DEF DInv, OutputRun
      <3>3. dataStream.next \in 0..LastNum + 1  BY DEF DInv, TypeOK
      <3> QED  BY <1>2, <1>3, <3>1, <3>2, <3>3, DeliveryAssumption, SMTT(40)
    <2> QED  BY <1>2, <1>3, <2>1, <2>2
  <1>5. /\ dataStream' = [next |-> n, updater |-> NoSource, config |-> ConfigFor(n)]
        /\ headerOnlyStream' = [next |-> n, updater |-> NoSource, config |-> ConfigFor(n)]
        /\ latestConfig' = Max({latestConfig, ConfigFor(n)})
        /\ queue' = <<>> /\ proc' = "read" /\ hold' = [num |-> Wrong, err |-> FALSE]
        /\ out' = SubSeq(out, 1, n) /\ lost' = {}
    BY <1>1 DEF Resume, newFTDelivery, newBlockProcessingState
  <1>6. PICK latest : latest = Max({latestConfig, ConfigFor(n)})  OBVIOUS
  <1>7. /\ ConfigFor(n) \in Config /\ latest \in ConfigBlocks
        /\ configBlockNumber(latest) >= Max({ConfigFor(n), ConfigFor(n)})
    BY <1>4, <1>6, Fresh, Zenon DEF DInv, TypeOK
  <1>8. /\ DOMAIN worker' \subseteq Party \cup {Joint}
        /\ \A p \in DOMAIN worker' : worker'[p] \in Nat
    <2>1. PICK st : st = newBlockProcessingState(n)  OBVIOUS
    <2>2. st.next = n /\ st.config = ConfigFor(n)  BY <2>1 DEF newBlockProcessingState
    <2>3. initStreams(st, st, latest)  BY <1>1, <1>6, <2>1, <2>2 DEF Resume, newFTDelivery
    <2> QED  BY <1>4, <1>7, <2>2, <2>3, Workers
  <1>9. out' \in Seq(Nat) /\ Len(out') = n /\ \A i \in 1..n : out'[i] = i - 1
    BY <1>2, <1>3, <1>5
  <1>10. /\ dataStream'.next = n /\ dataStream'.config = ConfigFor(n)
         /\ headerOnlyStream'.next = n /\ headerOnlyStream'.config = ConfigFor(n)
         /\ latestConfig' = latest
         /\ DOMAIN dataStream' = {"next", "updater", "config"}
         /\ DOMAIN headerOnlyStream' = {"next", "updater", "config"}
    BY <1>5, <1>6
  <1>11. TypeOK'  BY <1>4, <1>5, <1>7, <1>8, <1>9, <1>10 DEF TypeOK, Wrong
  <1>12. QueueInv' /\ PendingInv'  BY <1>5 DEF QueueInv, PendingInv
  <1>13. OutputRun'
    <2>1. proc' # "write" /\ lost' = {}  BY <1>5
    <2> QED  BY <1>4, <1>9, <1>10, <2>1, LedgerRun, Zenon DEF OutputRun
  <1>14. ConfigExact'  BY <1>7, <1>10 DEF ConfigExact
  <1> QED  BY <1>11, <1>12, <1>13, <1>14 DEF DInv

-----------------------------------------------------------------------------
(* The steps of the workers and of processBlocks *)

\* What a step leaves of the invariant when it touches neither the streams nor
\* the output.
LEMMA Untouched ==
  ASSUME DInv, UNCHANGED <<streams, hold, out, lost>>,
         proc' = proc \/ (proc # "write" /\ proc' \in {"read", "done"})
  PROVE  OutputRun' /\ ConfigExact' /\ PendingInv'
  <1>1. UNCHANGED <<dataStream, headerOnlyStream, latestConfig>>  BY DEF streams
  <1> QED  BY <1>1, Zenon DEF DInv, OutputRun, ConfigExact, PendingInv, configBlockNumber, ConfigFor

LEMMA ReceiveStep == ASSUME DInv, NEW p \in Party \cup {Joint}, Receive(p) PROVE DInv'
  <1>1. PICK d \in {"no"} \cup Damages : queue' = Append(queue, message(p, worker[p], d))  BY DEF Receive
  <1>2. worker[p] \in Nat /\ worker[p] \in 0..LastNum /\ p \in DOMAIN worker
    BY DeliveryAssumption DEF Receive, DInv, TypeOK
  <1>3. PICK m : m = message(p, worker[p], d)  OBVIOUS
  <1>4. m \in Message /\ (m.num \in ConfigBlocks => m.data)
    BY <1>2, <1>3, Zenon DEF message, Message
  <1>5. queue \in Seq(Message) /\ \A i \in DOMAIN queue : queue[i].num \in ConfigBlocks => queue[i].data
    BY DEF DInv, QueueInv, Message
  <1>6. queue' = Append(queue, m)  BY <1>1, <1>3
  <1>7. queue' \in Seq(Message) /\ \A i \in DOMAIN queue' : queue'[i] = m \/ (i \in DOMAIN queue /\ queue'[i] = queue[i])
    BY <1>4, <1>5, <1>6
  <1>8. QueueInv'  BY <1>4, <1>5, <1>7, SMTT(40) DEF QueueInv, Message
  <1>9. TypeOK'
    <2>1. worker' = [worker EXCEPT ![p] = worker[p] + 1]  BY DEF Receive
    <2>2. DOMAIN worker' = DOMAIN worker /\ \A q \in DOMAIN worker' : worker'[q] \in Nat
      BY <1>2, <2>1 DEF DInv, TypeOK
    <2> QED  BY <2>2 DEF DInv, TypeOK, Receive, streams
  <1> QED  BY <1>8, <1>9, Untouched DEF Receive, DInv

LEMMA ControlStep == DInv /\ (GiveUp \/ Expire \/ Timeout \/ Stop \/ Restart \/ UNCHANGED vars) => DInv'
  <1> SUFFICES ASSUME DInv, GiveUp \/ Expire \/ Timeout \/ Stop \/ Restart \/ UNCHANGED vars PROVE DInv'
    OBVIOUS
  <1>1. /\ UNCHANGED <<streams, queue, hold, out, lost>>
        /\ proc' = proc \/ (proc # "write" /\ proc' \in {"read", "done"})
    BY DEF GiveUp, Expire, Timeout, Stop, Restart, fails, loops, vars
  <1>2. UNCHANGED <<dataStream, headerOnlyStream, latestConfig>>  BY <1>1 DEF streams
  <1>3. /\ DOMAIN worker' \subseteq Party \cup {Joint}
        /\ \A p \in DOMAIN worker' : worker'[p] \in Nat
    <2>1. CASE Restart
      <3>1. dataStream.next \in Nat /\ headerOnlyStream.next \in Nat /\ latestConfig \in ConfigBlocks
        BY DeliveryAssumption DEF DInv, TypeOK
      <3> QED  BY <2>1, <3>1, Workers DEF Restart
    <2>2. CASE worker' = worker  BY <2>2 DEF DInv, TypeOK
    <2> QED  BY <2>1, <2>2 DEF GiveUp, Expire, Timeout, Stop, vars
  <1>4. TypeOK'  BY <1>1, <1>2, <1>3 DEF DInv, TypeOK
  <1>5. QueueInv'  BY <1>1 DEF DInv, QueueInv
  <1> QED  BY <1>1, <1>4, <1>5, Untouched DEF DInv

LEMMA WriteStep == DInv /\ Write => DInv'
  <1> SUFFICES ASSUME DInv, Write PROVE DInv'  OBVIOUS
  <1>1. /\ proc = "write" /\ proc' \in {"read", "done"}
        /\ UNCHANGED <<dataStream, headerOnlyStream, latestConfig, worker, queue>>
        /\ hold' = [num |-> Wrong, err |-> FALSE]
    BY DEF Write, streams, fails, loops
  <1>2. PICK h \in Nat : h = hold.num /\ h = dataStream.next - 1 /\ \A i \in 1..Len(out) : out[i] < h
    <2>1. out \in Seq(Nat) /\ dataStream.next \in Int  BY DEF DInv, TypeOK
    <2>2. hold.num = dataStream.next - 1 /\ \A i \in 1..Len(out) : out[i] < hold.num
      BY <1>1 DEF DInv, PendingInv
    <2>3. hold.num \in 0..dataStream.next - 1  BY <1>1 DEF DInv, OutputRun
    <2>4. hold.num \in Nat  BY <2>1, <2>3
    <2> QED  BY <2>2, <2>4
  <1>3. out \in Seq(Nat) /\ lost \subseteq Nat  BY DEF DInv, TypeOK
  <1>4. /\ \A i, j \in 1..Len(out) : i < j => out[i] < out[j]
        /\ (0..dataStream.next - 1) = {out[i] : i \in 1..Len(out)} \cup lost \cup {h}
    BY <1>1, <1>2 DEF DInv, OutputRun
  <1>5. out' \in Seq(Nat) /\ lost' \subseteq Nat
    <2>1. out' = out \/ out' = Append(out, h)  BY <1>2 DEF Write
    <2>2. lost' = lost \/ lost' = lost \cup {h}  BY <1>2 DEF Write
    <2>3. Append(out, h) \in Seq(Nat)  BY <1>2, <1>3
    <2> QED  BY <1>2, <1>3, <2>1, <2>2, <2>3, Zenon
  <1>6. OutputRun'
    <2>1. CASE out' = Append(out, h) /\ lost' = lost
      <3>1. /\ Len(out') = Len(out) + 1 /\ Len(out) \in Nat /\ out'[Len(out) + 1] = h
            /\ \A i \in 1..Len(out) : out'[i] = out[i]
        BY <1>2, <1>3, <2>1
      <3>2. ASSUME NEW i \in 1..Len(out'), NEW j \in 1..Len(out'), i < j PROVE out'[i] < out'[j]
        <4>1. i \in 1..Len(out)  BY <3>1, <3>2
        <4>2. CASE j \in 1..Len(out)  BY <1>4, <3>1, <3>2, <4>1, <4>2
        <4>3. CASE j = Len(out) + 1  BY <1>2, <3>1, <4>1, <4>3
        <4> QED  BY <3>1, <4>2, <4>3
      <3>3. {out'[i] : i \in 1..Len(out')} = {out[i] : i \in 1..Len(out)} \cup {h}
        <4>1. ASSUME NEW i \in 1..Len(out') PROVE out'[i] \in {out[k] : k \in 1..Len(out)} \cup {h}
          BY <3>1
        <4>2. ASSUME NEW k \in 1..Len(out) PROVE k \in 1..Len(out') /\ out[k] = out'[k]
          BY <3>1
        <4>3. Len(out) + 1 \in 1..Len(out')  BY <3>1
        <4> QED  BY <3>1, <4>1, <4>2, <4>3, Zenon
      <3> QED  BY <1>1, <1>4, <2>1, <3>2, <3>3 DEF OutputRun
    <2>2. CASE out' = out /\ lost' = lost \cup {h}
      BY <1>1, <1>4, <2>2 DEF OutputRun
    <2> QED  BY <1>2, <2>1, <2>2 DEF Write
  <1>7. TypeOK'  BY <1>1, <1>5 DEF DInv, TypeOK, Wrong
  <1>8. QueueInv' /\ PendingInv'  BY <1>1 DEF DInv, QueueInv, PendingInv
  <1>9. ConfigExact'  BY <1>1, Zenon DEF DInv, ConfigExact, configBlockNumber, ConfigFor
  <1> QED  BY <1>6, <1>7, <1>8, <1>9 DEF DInv

\* The state after an accepted block: one block further, under the config that is
\* then in force.
LEMMA Accepted ==
  ASSUME NEW s, NEW isData, NEW m \in Message, m.num \in ConfigBlocks => m.data,
         s.config = ConfigFor(s.next), accepts(s, isData, blockOf(m)),
         NEW t, t = verificationStepAndUpdateState(s, isData, blockOf(m), m.src)
  PROVE  /\ m.num = s.next /\ t.next = m.num + 1 /\ t.config = ConfigFor(t.next)
         /\ DOMAIN t = {"next", "updater", "config"}
         /\ t.next \in 0..LastNum + 1 /\ t.config \in Config
  <1>1. m.num \in Nat /\ m.num \in 0..LastNum  BY DeliveryAssumption DEF Message
  <1>2. blockOf(m).num = m.num /\ blockOf(m).data = m.data  BY DEF blockOf
  <1>3. m.num = s.next  BY <1>2 DEF accepts
  <1>4. PICK c : c = updateIfConfigBlock(s.config, isData, blockOf(m))  OBVIOUS
  <1>5. c = ConfigFor(m.num + 1)
    <2>1. c = IF m.num \in ConfigBlocks THEN m.num ELSE ConfigFor(m.num)
      BY <1>2, <1>3, <1>4, SMTT(40) DEF updateIfConfigBlock
    <2> QED  BY <1>1, <2>1, ConfigForNext
  <1>6. t = [next |-> m.num + 1, updater |-> m.src, config |-> c]
    BY <1>2, <1>4 DEF verificationStepAndUpdateState
  <1>7. c \in Config  BY <1>1, <1>5, ConfigForType
  <1>8. m.num + 1 \in 0..LastNum + 1  BY <1>1, DeliveryAssumption
  <1> QED  BY <1>3, <1>5, <1>6, <1>7, <1>8

\* checkNextStreamAction keeps the parties of a config block no stream is ahead of.
LEMMA LatestKept ==
  ASSUME NEW latest \in ConfigBlocks, NEW a \in Config, NEW c \in Config, NEW t \in Config, NEW l,
         configBlockNumber(latest) >= Max({a, c}),
         l = IF configBlockNumber(latest) < configBlockNumber(t) THEN t ELSE latest
  PROVE  /\ l \in ConfigBlocks
         /\ configBlockNumber(l) >= Max({t, c}) /\ configBlockNumber(l) >= Max({a, t})
  <1>1. latest \in Nat /\ a \in Int /\ c \in Int /\ t \in Int  BY ConfigType
  <1>2. \A x \in Int : configBlockNumber(x) = IF x >= 0 THEN x ELSE 0
    BY MaxOfTwo DEF configBlockNumber
  <1>3. Max({a, c}) = IF a >= c THEN a ELSE c  BY <1>1, MaxOfTwo
  <1>4. Max({t, c}) = IF t >= c THEN t ELSE c  BY <1>1, MaxOfTwo
  <1>5. Max({a, t}) = IF a >= t THEN a ELSE t  BY <1>1, MaxOfTwo
  <1>6. l \in ConfigBlocks /\ l \in Nat
    BY <1>1, <1>2, ConfigType DEF Config, NoConfig
  <1> DEFINE n == configBlockNumber(l)
  <1>7. /\ n \in Nat /\ n >= t /\ n >= a /\ n >= c
    BY <1>1, <1>2, <1>3, <1>6
  <1> HIDE DEF n
  <1>8. n >= Max({t, c}) /\ n >= Max({a, t})  BY <1>1, <1>4, <1>5, <1>7
  <1> QED  BY <1>6, <1>8 DEF n

LEMMA ProcessStep == DInv /\ processNextBlock => DInv'
  <1> SUFFICES ASSUME DInv, processNextBlock PROVE DInv'  OBVIOUS
  <1>1. /\ proc = "read" /\ queue # <<>> /\ queue' = Tail(queue)
        /\ UNCHANGED <<worker, out, lost>>
    BY DEF processNextBlock
  <1>2. queue \in Seq(Message) /\ \A i \in DOMAIN queue : queue[i].num \in ConfigBlocks => queue[i].data
    BY DEF DInv, QueueInv, Message
  <1>3. PICK m \in Message : m = Head(queue) /\ (m.num \in ConfigBlocks => m.data)
    BY <1>1, <1>2
  <1>4. queue' \in Seq(Message) /\ \A i \in DOMAIN queue' : i + 1 \in DOMAIN queue /\ queue'[i] = queue[i + 1]
    BY <1>1, <1>2
  <1>5. QueueInv'  BY <1>2, <1>4 DEF QueueInv, Message
  <1>6. PICK isData : isData = isDataBlock(m)  OBVIOUS
  <1>7. PICK s : s = IF isData THEN dataStream ELSE headerOnlyStream  OBVIOUS
  <1>8. CASE ~accepts(s, isData, blockOf(m))
    <2>1. proc' \in {"read", "done"} /\ UNCHANGED <<streams, hold>>
      BY <1>3, <1>6, <1>7, <1>8 DEF processNextBlock, fails, loops
    <2>2. TypeOK'  BY <1>1, <2>1 DEF DInv, TypeOK, streams
    <2> QED  BY <1>1, <1>5, <2>1, <2>2, Untouched DEF DInv
  <1>9. CASE accepts(s, isData, blockOf(m))
    <2>1. PICK t : t = verificationStepAndUpdateState(s, isData, blockOf(m), m.src)  BY SMTT(40)
    <2>2. checkNextStreamAction(isData, t, m)
      BY <1>3, <1>6, <1>7, <1>9, <2>1 DEF processNextBlock
    <2>3. s.config = ConfigFor(s.next)  BY <1>7, SMTT(40) DEF DInv, ConfigExact
    <2>4. /\ m.num = s.next /\ t.next = m.num + 1 /\ t.config = ConfigFor(t.next)
          /\ DOMAIN t = {"next", "updater", "config"}
          /\ t.next \in 0..LastNum + 1 /\ t.config \in Config
      BY <1>3, <1>9, <2>1, <2>3, Accepted
    <2>5. latestConfig' = IF configBlockNumber(latestConfig) < configBlockNumber(t.config)
                          THEN t.config ELSE latestConfig
      BY <2>2 DEF checkNextStreamAction
    <2>6. /\ latestConfig' \in ConfigBlocks
          /\ configBlockNumber(latestConfig') >= Max({t.config, headerOnlyStream.config})
          /\ configBlockNumber(latestConfig') >= Max({dataStream.config, t.config})
      <3>1. latestConfig \in ConfigBlocks /\ dataStream.config \in Config /\ headerOnlyStream.config \in Config
        BY DEF DInv, TypeOK
      <3>2. configBlockNumber(latestConfig) >= Max({dataStream.config, headerOnlyStream.config})
        BY DEF DInv, ConfigExact
      <3>3. PICK a, c, x, l : a = dataStream.config /\ c = headerOnlyStream.config /\ x = t.config /\ l = latestConfig'
        OBVIOUS
      <3>4. l \in ConfigBlocks /\ configBlockNumber(l) >= Max({x, c}) /\ configBlockNumber(l) >= Max({a, x})
        <4>1. a \in Config /\ c \in Config /\ x \in Config  BY <2>4, <3>1, <3>3
        <4>2. configBlockNumber(latestConfig) >= Max({a, c})  BY <3>2, <3>3
        <4>3. l = IF configBlockNumber(latestConfig) < configBlockNumber(x) THEN x ELSE latestConfig
          BY <2>5, <3>3
        <4> QED  BY <3>1, <4>1, <4>2, <4>3, LatestKept, Zenon
      <3> QED  BY <3>3, <3>4
    <2>7. CASE isData
      <3>1. /\ dataStream' = t /\ headerOnlyStream' = headerOnlyStream
            /\ proc' = "write" /\ hold'.num = m.num
        BY <2>2, <2>7 DEF checkNextStreamAction, onAccept
      <3>2. m.num = dataStream.next  BY <1>7, <2>4, <2>7, SMTT(40)
      <3>3. TypeOK'  BY <1>1, <2>4, <2>6, <3>1, SMTT(40) DEF DInv, TypeOK, Message
      <3>4. ConfigExact'  BY <2>4, <2>6, <3>1 DEF DInv, ConfigExact
      <3>5. /\ \A i, j \in 1..Len(out) : i < j => out[i] < out[j]
            /\ (0..dataStream.next - 1) = {out[i] : i \in 1..Len(out)} \cup lost
        BY <1>1 DEF DInv, OutputRun
      <3>6. m.num \in Nat  BY DeliveryAssumption DEF Message
      <3>7. (0..t.next - 1) = (0..dataStream.next - 1) \cup {m.num}  BY <2>4, <3>2, <3>6
      <3>8. OutputRun'  BY <1>1, <3>1, <3>5, <3>7 DEF OutputRun
      <3>9. PendingInv'
        <4>1. \A i \in 1..Len(out) : out[i] \in 0..m.num - 1  BY <3>2, <3>5
        <4>2. \A i \in 1..Len(out) : out[i] < m.num  BY <3>6, <4>1
        <4> QED  BY <1>1, <2>4, <3>1, <3>6, <4>2 DEF PendingInv
      <3> QED  BY <1>5, <3>3, <3>4, <3>8, <3>9, SMTT(40) DEF DInv
    <2>8. CASE ~isData
      <3>1. /\ dataStream' = dataStream /\ headerOnlyStream' = t
            /\ proc' \in {"read", "done"} /\ hold' = hold
        BY <2>2, <2>8, SMTT(40) DEF checkNextStreamAction, onAccept, fails, loops
      <3>2. TypeOK'  BY <1>1, <2>4, <2>6, <3>1 DEF DInv, TypeOK
      <3>3. ConfigExact'  BY <2>4, <2>6, <3>1, SMTT(40) DEF DInv, ConfigExact
      <3>4. OutputRun' /\ PendingInv'  BY <1>1, <3>1 DEF DInv, OutputRun, PendingInv
      <3> QED  BY <1>5, <3>2, <3>3, <3>4, SMTT(40) DEF DInv
    <2> QED  BY <2>7, <2>8
  <1> QED  BY <1>8, <1>9

-----------------------------------------------------------------------------
LEMMA DInvStep == DInv /\ [Next]_vars => DInv'
  <1> SUFFICES ASSUME DInv, [Next]_vars PROVE DInv'  OBVIOUS
  <1>1. CASE \E p \in Party \cup {Joint} : Receive(p)  BY <1>1, ReceiveStep
  <1>2. CASE GiveUp \/ Expire \/ Timeout \/ Stop \/ Restart \/ UNCHANGED vars  BY <1>2, ControlStep
  <1>3. CASE processNextBlock  BY <1>3, ProcessStep
  <1>4. CASE Write  BY <1>4, WriteStep
  <1>5. CASE Resume  BY <1>5, ResumeStep
  <1> QED  BY <1>1, <1>2, <1>3, <1>4, <1>5 DEF Next

\* What is proved of processBlocks: over every restart, change of source and new
\* session the caller is handed the chain in order, no block twice and none skipped
\* but those whose write was dropped with a cancelled context.
THEOREM OutputIsTheChain == Spec => []OutputRun
  <1>1. DInv => OutputRun  BY DEF DInv
  <1> QED  BY <1>1, DInvInit, DInvStep, PTL DEF Spec

\* What is proved of updateIfConfigBlock and checkNextStreamAction: both streams
\* verify each block under the config block in force for it, and the parties dialled
\* are those of a config block that neither stream is ahead of.
THEOREM ConfigInForce == Spec => []ConfigExact
  <1>1. DInv => ConfigExact  BY DEF DInv
  <1> QED  BY <1>1, DInvInit, DInvStep, PTL DEF Spec

=============================================================================
