-------------------------- MODULE PointTableProofs --------------------------
(***************************************************************************)
(* Proofs about the point table, for any set of threads, points, values    *)
(* and limits: the two copies of a value agree outside the mutex, in net32     *)
(* mode no illegal value is stored or reported, and of a point one thread  *)
(* deals with the network and the station end up with the last value.      *)
(***************************************************************************)
EXTENDS PointTable, SequenceTheorems, FiniteSetTheorems, WellFoundedInduction, TLAPS

-----------------------------------------------------------------------------
\* The messages of M in a queue, and what the last of them will make of w.
Of(q, M) == {i \in 1 .. Len(q) : q[i] \in M}
WillHold(q, M, w) == IF Of(q, M) = {} THEN w ELSE q[LastIndex(Of(q, M))].value

\* The last of some messages is one of them.
LEMMA LastMax ==
    ASSUME NEW n \in Nat, NEW S \in SUBSET (1 .. n), S # {}
    PROVE  LastIndex(S) \in S /\ \A i \in S : i <= LastIndex(S)
  <1> DEFINE Above(j) == {i \in S : j < i}
             R == StrictSubsetOrdering(S)
             T == {Above(j) : j \in S}
  <1>1. IsFiniteSet(S)
    <2>1. IsFiniteSet(1 .. n)
      BY FS_Interval
    <2> QED BY <2>1, FS_Subset
  <1>2. IsWellFoundedOn(R, SUBSET S)
    BY <1>1, FS_StrictSubsetOrderingWellFounded, FS_FiniteSubsetsOfFinite
  <1>3. T \subseteq SUBSET S /\ T # {}
    OBVIOUS
  <1>4. PICK A \in T : \A B \in T : ~(<<B, A>> \in R)
    <2> HIDE DEF T, R
    <2> QED BY <1>2, <1>3, WFMin
  <1>5. PICK j \in S : A = Above(j)
    OBVIOUS
  <1>6. ASSUME NEW k \in S, j < k PROVE FALSE
    <2>1. Above(k) \subseteq Above(j) /\ k \in Above(j) /\ k \notin Above(k)
      <3>1. \A x \in S : k < x => j < x
        BY <1>6
      <3>2. ~(k < k)
        OBVIOUS
      <3> QED BY <1>6, <3>1, <3>2
    <2>2. <<Above(k), Above(j)>> \in R
      BY <2>1 DEF StrictSubsetOrdering
    <2> QED BY <2>2, <1>4, <1>5
  <1>7. \A i \in S : i <= j
    BY <1>6
  <1> QED BY <1>7 DEF LastIndex

LEMMA LastIs ==
    ASSUME NEW S \in SUBSET Nat, NEW i \in S, \A j \in S : j <= i
    PROVE  LastIndex(S) = i
  <1>1. \A k \in S : (\A j \in S : j <= k) => k = i
    OBVIOUS
  <1> QED BY <1>1 DEF LastIndex

\* A message pushed to a queue is the last one.
LEMMA WillHoldAppend ==
    ASSUME NEW X, NEW q \in Seq(X), NEW m \in X, NEW M, NEW w
    PROVE  WillHold(Append(q, m), M, w)
              = IF m \in M THEN m.value ELSE WillHold(q, M, w)
  <1> DEFINE n == Len(q)
             r == Append(q, m)
  <1>1. /\ n \in Nat /\ Len(r) = n + 1 /\ r[n + 1] = m
        /\ \A i \in 1 .. n : r[i] = q[i]
    OBVIOUS
  <1> HIDE DEF r, n
  <1>2. CASE m \in M
    <2>1. n + 1 \in Of(r, M) /\ \A i \in Of(r, M) : i <= n + 1
      BY <1>1, <1>2 DEF Of
    <2>2. Of(r, M) \in SUBSET Nat
      BY <1>1 DEF Of
    <2>3. LastIndex(Of(r, M)) = n + 1
      BY <2>1, <2>2, LastIs
    <2> QED BY <1>1, <1>2, <2>1, <2>3 DEF WillHold, r
  <1>3. CASE m \notin M
    <2>1. Of(r, M) = Of(q, M)
      BY <1>1, <1>3 DEF Of, n
    <2>2. Of(q, M) # {} => LastIndex(Of(q, M)) \in 1 .. n
      <3>1. Of(q, M) \in SUBSET (1 .. n)
        BY DEF Of, n
      <3> QED BY <1>1, <3>1, LastMax
    <2> QED BY <1>1, <1>3, <2>1, <2>2 DEF WillHold, r
  <1> QED BY <1>2, <1>3

\* The head of a queue is taken: it is told, or does not count, or another
\* message is still behind it.
LEMMA WillHoldTail ==
    ASSUME NEW X, NEW q \in Seq(X), q # << >>, NEW M, NEW w, NEW told,
           \/ Head(q) \notin M /\ told = w
           \/ Head(q) \in M /\ told = Head(q).value
           \/ \E i \in 2 .. Len(q) : q[i] \in M
    PROVE  WillHold(Tail(q), M, told) = WillHold(q, M, w)
  <1> DEFINE n == Len(q)
             r == Tail(q)
  <1>1. /\ n \in Nat \ {0} /\ Len(r) = n - 1 /\ Head(q) = q[1]
        /\ \A i \in 1 .. n - 1 : r[i] = q[i + 1]
    OBVIOUS
  <1>2. \/ q[1] \notin M /\ told = w
        \/ q[1] \in M /\ told = q[1].value
        \/ \E i \in 2 .. n : q[i] \in M
    BY <1>1
  <1> HIDE DEF r, n
  <1>3. /\ Of(q, M) = {i \in 1 .. n : q[i] \in M}
        /\ Of(r, M) = {i \in 1 .. n - 1 : q[i + 1] \in M}
    BY <1>1 DEF Of, n
  <1>4. CASE Of(r, M) = {}
    <2>1. ~\E i \in 2 .. n : q[i] \in M
      <3> SUFFICES ASSUME NEW i \in 2 .. n, q[i] \in M PROVE FALSE
        OBVIOUS
      <3>1. i - 1 \in 1 .. n - 1 /\ (i - 1) + 1 = i
        BY <1>1
      <3> QED BY <1>3, <1>4, <3>1
    <2>2. CASE q[1] \in M
      <3>1. 1 \in Of(q, M) /\ \A i \in Of(q, M) : i <= 1
        BY <1>1, <1>3, <2>1, <2>2
      <3>2. Of(q, M) \in SUBSET Nat
        BY <1>1, <1>3
      <3>3. LastIndex(Of(q, M)) = 1
        BY <3>1, <3>2, LastIs
      <3> QED BY <1>2, <1>4, <2>1, <2>2, <3>1, <3>3 DEF WillHold, r
    <2>3. CASE q[1] \notin M
      <3>1. Of(q, M) = {}
        BY <1>1, <1>3, <2>1, <2>3
      <3> QED BY <1>2, <1>4, <2>1, <2>3, <3>1 DEF WillHold, r
    <2> QED BY <2>2, <2>3
  <1>5. CASE Of(r, M) # {}
    <2> DEFINE k == LastIndex(Of(r, M))
    <2>1. k \in Of(r, M) /\ \A i \in Of(r, M) : i <= k
      <3>1. Of(r, M) \in SUBSET (1 .. n - 1) /\ n - 1 \in Nat
        BY <1>1, <1>3
      <3> QED BY <1>5, <3>1, LastMax
    <2> HIDE DEF k
    <2>2. k \in 1 .. n - 1 /\ q[k + 1] \in M
      BY <1>3, <2>1
    <2>3. k + 1 \in Of(q, M)
      BY <1>1, <1>3, <2>2
    <2>4. ASSUME NEW i \in Of(q, M) PROVE i <= k + 1
      <3>1. i \in 1 .. n /\ q[i] \in M
        BY <1>3
      <3>2. CASE i = 1
        BY <1>1, <2>2, <3>2
      <3>3. CASE i # 1
        <4>1. i - 1 \in 1 .. n - 1 /\ (i - 1) + 1 = i
          BY <1>1, <3>1, <3>3
        <4>2. i - 1 \in Of(r, M)
          BY <1>3, <3>1, <4>1
        <4> QED BY <1>1, <2>1, <2>2, <3>1, <4>2
      <3> QED BY <3>2, <3>3
    <2>5. Of(q, M) \in SUBSET Nat
      BY <1>1, <1>3
    <2>6. LastIndex(Of(q, M)) = k + 1
      BY <2>3, <2>4, <2>5, LastIs
    <2> QED BY <1>1, <1>5, <2>2, <2>3, <2>6 DEF WillHold, r, k
  <1> QED BY <1>4, <1>5

\* Reports of an own point, and messages to the station about a point.
ReportsIn(p) == {m \in MessageType : m.type = "REPORT" /\ m.pno = p}
NewsIn(pcm, p) == {m \in PointType : m.pcm = pcm /\ m.pno = p}

LEMMA ReportsAre ==
    ASSUME NEW q \in Seq(MessageType), NEW p
    PROVE  {i \in 1 .. Len(q) : q[i].type = "REPORT" /\ q[i].pno = p} = Of(q, ReportsIn(p))
  <1>1. \A i \in 1 .. Len(q) : q[i] \in MessageType
    OBVIOUS
  <1> QED BY <1>1 DEF Of, ReportsIn

LEMMA NewsAre ==
    ASSUME NEW q \in Seq(PointType), NEW pcm, NEW p
    PROVE  {i \in 1 .. Len(q) : q[i].pcm = pcm /\ q[i].pno = p} = Of(q, NewsIn(pcm, p))
  <1>1. \A i \in 1 .. Len(q) : q[i] \in PointType
    OBVIOUS
  <1> QED BY <1>1 DEF Of, NewsIn

\* What the receivers will hold, before and after a step.
LEMMA NetworkHolds ==
    ASSUME TypeOK, TypeOK', NEW p \in Points
    PROVE  /\ NetworkWillHold(p) = WillHold(net32Queue, ReportsIn(p), netView[p])
           /\ NetworkWillHold(p)' = WillHold(net32Queue', ReportsIn(p), netView'[p])
  <1>1. net32Queue \in Seq(MessageType) /\ net32Queue' \in Seq(MessageType)
    BY DEF TypeOK
  <1>2. /\ ReportsOf(p) = Of(net32Queue, ReportsIn(p))
        /\ ReportsOf(p)' = Of(net32Queue', ReportsIn(p))
    BY <1>1, ReportsAre DEF ReportsOf
  <1> QED BY <1>2 DEF NetworkWillHold, WillHold

LEMMA StationHolds ==
    ASSUME TypeOK, TypeOK', NEW pcm \in Pcms, NEW p \in Points
    PROVE  /\ StationWillHold(pcm, p)
                  = WillHold(elbaQueue, NewsIn(pcm, p), stationView[pcm][p])
           /\ StationWillHold(pcm, p)'
                  = WillHold(elbaQueue', NewsIn(pcm, p), stationView'[pcm][p])
  <1>1. elbaQueue \in Seq(PointType) /\ elbaQueue' \in Seq(PointType)
    BY DEF TypeOK
  <1>2. /\ MessagesOf(pcm, p) = Of(elbaQueue, NewsIn(pcm, p))
        /\ MessagesOf(pcm, p)' = Of(elbaQueue', NewsIn(pcm, p))
    BY <1>1, NewsAre DEF MessagesOf
  <1> QED BY <1>2 DEF StationWillHold, WillHold

-----------------------------------------------------------------------------
USE TableAssumption

\* pnt_ismax and pnt_ismin leave a value within the limits of the point.
LEMMA ClampLegal ==
    ASSUME NEW p \in Points, NEW v \in Int
    PROVE  Clamp(p, v) \in Int /\ Legal(p, Clamp(p, v))
  <1>1. MinVal[p] \in Int /\ MaxVal[p] \in Int /\ MinVal[p] <= MaxVal[p]
    OBVIOUS
  <1> QED BY <1>1 DEF Clamp, AtMostMax, AtLeastMin, Legal

\* A push leaves a queue of messages a queue of messages.
LEMMA PushType ==
    ASSUME NEW S, NEW q \in Seq(S), NEW room \in Nat, NEW m \in S
    PROVE  Push(q, room, m) \in Seq(S)
  BY DEF Push

\* The record a *_push_queue stores is a message of its queue.
LEMMA MessageOfCall ==
    ASSUME NEW c \in CallRecord
    PROVE  /\ PointOf(c) \in PointType
           /\ [type |-> c.type, pcm |-> c.pcm, pno |-> c.pno, value |-> c.value]
                 \in MessageType
  BY DEF CallRecord, PointOf, PointType, MessageType

\* What the type and the call of a thread say at each label.
LEMMA AtCall ==
    ASSUME TypeOK, NEW t \in Threads, CallInv(t), pc[t] \notin {"idle", "recv"}
    PROVE  /\ call[t] \in CallRecord
           /\ call[t].op \in Ops
           /\ call[t].type \in MessageTypes
           /\ call[t].pcm \in Pcms
           /\ call[t].pno \in Points
           /\ call[t].value \in Int
           /\ pc[t] \in OwnLabels => call[t].pcm = MyPcm
  BY DEF CallInv, CallRecord

-----------------------------------------------------------------------------
(* GoTo moves one thread and touches no other: the invariants of a call    *)
(* need to be checked for that thread only.                                *)
LEMMA Moved ==
    ASSUME TypeOK, NEW t \in Threads, NEW l \in Labels,
           NEW c \in CallRecord \cup {NoCall}, GoTo(t, l, c)
    PROVE  /\ pc' \in [Threads -> Labels]
           /\ call' \in [Threads -> CallRecord \cup {NoCall}]
           /\ pc'[t] = l
           /\ call'[t] = IF l = "idle" THEN NoCall ELSE c
           /\ \A u \in Threads \ {t} : pc'[u] = pc[u] /\ call'[u] = call[u]
  BY DEF GoTo, TypeOK

\* What makes a call c legitimate at label l.
Fits(t, l, c) ==
    IF l = "recv" THEN c = NoCall
    ELSE l # "idle" =>
         /\ c \in CallRecord
         /\ l \in OwnLabels => c.pcm = MyPcm
         /\ c.op = "command" => MultiDdc /\ t \in ElbaThreads
         /\ l = "cmd_ex" => c.op = "command"
         /\ l = "multi_val" => MultiDdc
         /\ \/ MultiDdc
            \/ l \notin OwnLabels /\ (Reporting(l, c) => Stands(c.pno, c.value))
            \/ Legal(c.pno, c.value)

LEMMA CallStep ==
    ASSUME TypeOK, \A u \in Threads : CallInv(u),
           NEW t \in Threads, NEW l \in Labels,
           NEW c \in CallRecord \cup {NoCall}, GoTo(t, l, c), Fits(t, l, c)
    PROVE  \A u \in Threads : CallInv(u)'
  <1> SUFFICES ASSUME NEW u \in Threads PROVE CallInv(u)'
    OBVIOUS
  <1>1. /\ pc'[t] = l
        /\ call'[t] = IF l = "idle" THEN NoCall ELSE c
        /\ \A w \in Threads \ {t} : pc'[w] = pc[w] /\ call'[w] = call[w]
    BY Moved
  <1>2. CASE u = t
    BY <1>1, <1>2 DEF CallInv, Fits, Reporting, Legal, Stands
  <1>3. CASE u # t
    <2>1. pc'[u] = pc[u] /\ call'[u] = call[u]
      BY <1>1, <1>3
    <2>2. CallInv(u)
      OBVIOUS
    <2> QED BY <2>1, <2>2 DEF CallInv, Reporting, Legal, Stands
  <1> QED BY <1>2, <1>3

\* The mutex is taken, given back or left alone by a thread that moves.
Enters(t, l) == lock = NoThread /\ lock' = t /\ l \in Locked
Leaves(t, l) == pc[t] \in Locked /\ lock' = NoThread /\ l \notin Locked
StaysOut(t, l) == pc[t] \notin Locked /\ lock' = lock /\ l \notin Locked

LEMMA LockStep ==
    ASSUME TypeOK, LockInv, NEW t \in Threads, NEW l \in Labels,
           NEW c \in CallRecord \cup {NoCall}, GoTo(t, l, c),
           Enters(t, l) \/ Leaves(t, l) \/ StaysOut(t, l)
    PROVE  LockInv' /\ lock' \in Threads \cup {NoThread}
  <1>1. /\ pc'[t] = l
        /\ \A u \in Threads \ {t} : pc'[u] = pc[u]
    BY Moved
  <1>2. lock \in Threads \cup {NoThread} /\ NoThread \notin Threads
    BY DEF TypeOK
  <1> QED BY <1>1, <1>2 DEF LockInv, Enters, Leaves, StaysOut

(* Agreement survives a step that leaves both copies alone, unless it lets *)
(* go of the mutex.                                                        *)
LEMMA AgreeKept ==
    ASSUME TypeOK, AgreeInv, NEW t \in Threads, NEW l \in Labels \ Locked,
           NEW c \in CallRecord \cup {NoCall}, GoTo(t, l, c),
           pc[t] \notin Locked,
           fVal' = fVal, fExPtbl'[MyPcm] = fExPtbl[MyPcm]
    PROVE  AgreeInv'
  <1>1. /\ pc'[t] = l
        /\ \A u \in Threads \ {t} : pc'[u] = pc[u] /\ call'[u] = call[u]
    BY Moved
  <1>2. ASSUME NEW p \in Points, NEW u \in Threads, pc[u] \in Locked, call[u].pno = p
        PROVE  pc'[u] \in Locked /\ call'[u].pno = p
    <2>1. u # t
      BY <1>2
    <2> QED BY <1>1, <1>2, <2>1
  <1>3. \A p \in Points : \/ fVal'[p] = fExPtbl'[MyPcm][p]
                         \/ \E u \in Threads : pc'[u] \in Locked /\ call'[u].pno = p
    BY <1>2 DEF AgreeInv
  <1>4. ASSUME NEW u \in Threads
        PROVE  LET p == call'[u].pno
               IN /\ pc'[u] = "write_ex" => fVal'[p] = call'[u].value
                  /\ pc'[u] \in {"multi_val", "adc_val"}
                        => fExPtbl'[MyPcm][p] = call'[u].value
    <2>1. CASE u = t
      BY <1>1, <2>1 DEF Locked
    <2>2. CASE u # t
      BY <1>1, <2>2 DEF AgreeInv
    <2> QED BY <2>1, <2>2
  <1> QED BY <1>3, <1>4 DEF AgreeInv

(* A step outside the mutex that leaves f_val and the own row of g_fExPtbl *)
(* alone: what it does to the queues must be well typed and legal.         *)
LEMMA OutsideStep ==
    ASSUME TableInv, NEW t \in Threads, NEW l \in Labels \ Locked,
           NEW c \in CallRecord \cup {NoCall}, GoTo(t, l, c), Fits(t, l, c),
           pc[t] \notin Locked, TypeOK', lock' = lock, fVal' = fVal,
           \/ fExPtbl'[MyPcm] = fExPtbl[MyPcm]
           \/ MultiDdc /\ ElbaThreads # {},
           ~MultiDdc => WithinLimits'
    PROVE  TableInv'
  <1> USE DEF TableInv
  <1>1. \A u \in Threads : CallInv(u)'
    BY CallStep
  <1>2. LockInv'
    BY LockStep DEF StaysOut
  <1>3. ASSUME AgreeInv, fExPtbl'[MyPcm] = fExPtbl[MyPcm] PROVE AgreeInv'
    BY <1>3, AgreeKept
  <1>4. ASSUME LimitInv, WithinLimits', ~MultiDdc PROVE LimitInv'
    BY <1>4 DEF LimitInv, Legal, Stands
  <1> QED BY <1>1, <1>2, <1>3, <1>4

LEMMA QuietStep ==
    ASSUME TableInv, NEW t \in Threads, NEW l \in Labels \ Locked,
           NEW c \in CallRecord \cup {NoCall}, GoTo(t, l, c), Fits(t, l, c),
           pc[t] \notin Locked, UNCHANGED <<table, queues, views>>
    PROVE  TableInv'
  <1>1. TypeOK'
    BY Moved DEF TableInv, TypeOK, table, queues, views
  <1>2. ~MultiDdc => WithinLimits'
    BY DEF TableInv, LimitInv, WithinLimits, Legal, Stands, table, queues, views
  <1>3. lock' = lock /\ fVal' = fVal /\ fExPtbl' = fExPtbl
    BY DEF table
  <1> QED BY <1>1, <1>2, <1>3, OutsideStep

\* One of the copies of an own value is assigned, the other is not.
WriteVal(p, v) == fVal' = [fVal EXCEPT ![p] = v] /\ fExPtbl' = fExPtbl
WriteEx(p, v) == fExPtbl' = [fExPtbl EXCEPT ![MyPcm][p] = v] /\ fVal' = fVal

\* What either assignment leaves alone.
OthersKept(p) ==
    /\ fVal' \in [Points -> Int]
    /\ fExPtbl' \in [Pcms -> [Points -> Int]]
    /\ \A q \in Points \ {p} : /\ fVal'[q] = fVal[q]
                               /\ fExPtbl'[MyPcm][q] = fExPtbl[MyPcm][q]

LEMMA WriteValFacts ==
    ASSUME TypeOK, NEW p \in Points, NEW v \in Int, WriteVal(p, v)
    PROVE  /\ OthersKept(p)
           /\ fVal'[p] = v
           /\ fExPtbl'[MyPcm][p] = fExPtbl[MyPcm][p]
  BY DEF TypeOK, WriteVal, OthersKept

LEMMA WriteExFacts ==
    ASSUME TypeOK, NEW p \in Points, NEW v \in Int, WriteEx(p, v)
    PROVE  /\ OthersKept(p)
           /\ fExPtbl'[MyPcm][p] = v
           /\ fVal'[p] = fVal[p]
  <1>1. fVal \in [Points -> Int] /\ fExPtbl \in [Pcms -> [Points -> Int]] /\ MyPcm \in Pcms
    BY DEF TypeOK
  <1>2. fVal' = fVal /\ fExPtbl' = [fExPtbl EXCEPT ![MyPcm] = [fExPtbl[MyPcm] EXCEPT ![p] = v]]
    BY <1>1 DEF WriteEx
  <1>3. fExPtbl[MyPcm] \in [Points -> Int]
    BY <1>1
  <1>4. [fExPtbl[MyPcm] EXCEPT ![p] = v] \in [Points -> Int]
    BY <1>3
  <1>5. fExPtbl'[MyPcm] = [fExPtbl[MyPcm] EXCEPT ![p] = v]
    BY <1>1, <1>2
  <1>6. fExPtbl' \in [Pcms -> [Points -> Int]]
    BY <1>1, <1>2, <1>4
  <1> QED BY <1>1, <1>2, <1>3, <1>5, <1>6 DEF OthersKept

\* A legal value in one of the copies leaves the limits as they are.
LEMMA LimitWrite ==
    ASSUME LimitInv, NEW q \in Points, NEW v \in Int, Legal(q, v), OthersKept(q),
           fVal'[q] = fVal[q] \/ fVal'[q] = v,
           fExPtbl'[MyPcm][q] = fExPtbl[MyPcm][q] \/ fExPtbl'[MyPcm][q] = v,
           UNCHANGED <<queues, views>>
    PROVE  LimitInv'
  <1>1. UNCHANGED <<net32Queue, netView, pointFile>>
    BY DEF queues, views
  <1>2. \A p \in Points : fVal'[p] = fVal[p] \/ Legal(p, fVal'[p])
    BY DEF OthersKept
  <1>3. \A p \in Points : \/ fExPtbl'[MyPcm][p] = fExPtbl[MyPcm][p]
                          \/ Legal(p, fExPtbl'[MyPcm][p])
    BY DEF OthersKept
  <1>4. \A p \in Points : /\ Stands(p, fVal'[p])
                          /\ Stands(p, fExPtbl'[MyPcm][p])
                          /\ Legal(p, fVal'[p]) \/ pointFile[MyPcm][p] = fVal'[p]
    BY <1>2, <1>3 DEF LimitInv, WithinLimits, Stands
  <1>5. WithinLimits'
    BY <1>1, <1>4 DEF LimitInv, WithinLimits, Stands, Legal
  <1>6. (\A p \in Points : Stands(p, fExPtbl[MyPcm][p]))'
    BY <1>4 DEF Stands, Legal
  <1> QED BY <1>5, <1>6 DEF LimitInv

(* Taking the mutex and writing one copy of an own value: every other      *)
(* point agrees, because nobody else is inside.                            *)
LEMMA EnterStep ==
    ASSUME TableInv, NEW t \in Threads, NEW l \in Locked,
           NEW c \in CallRecord, GoTo(t, l, c), Fits(t, l, c),
           lock = NoThread, lock' = t, c.pcm = MyPcm,
           \/ l = "write_ex" /\ WriteVal(c.pno, c.value)
           \/ l # "write_ex" /\ WriteEx(c.pno, c.value),
           UNCHANGED <<fPreval, queues, views>>
    PROVE  TableInv'
  <1> USE DEF TableInv
  <1>1. c.pno \in Points /\ c.value \in Int /\ l \in Labels /\ l \in OwnLabels /\ l # "idle"
    BY DEF CallRecord, Labels, Locked, OwnLabels
  <1>2. /\ pc'[t] = l /\ call'[t] = c
        /\ pc' \in [Threads -> Labels]
        /\ call' \in [Threads -> CallRecord \cup {NoCall}]
    BY <1>1, Moved
  <1>0. /\ OthersKept(c.pno)
        /\ l = "write_ex" => /\ fVal'[c.pno] = c.value
                             /\ fExPtbl'[MyPcm][c.pno] = fExPtbl[MyPcm][c.pno]
        /\ l # "write_ex" => /\ fExPtbl'[MyPcm][c.pno] = c.value
                             /\ fVal'[c.pno] = fVal[c.pno]
    BY <1>1, WriteValFacts, WriteExFacts
  <1>3. TypeOK'
    BY <1>0, <1>1, <1>2 DEF TypeOK, OthersKept, queues, views
  <1>4. \A u \in Threads : CallInv(u)'
    BY <1>1, CallStep
  <1>5. LockInv'
    BY <1>1, LockStep DEF Enters
  <1>6. ASSUME AgreeInv PROVE AgreeInv'
    <2>1. \A p \in Points : fVal[p] = fExPtbl[MyPcm][p]
      BY <1>6 DEF AgreeInv, LockInv
    <2>2. \A p \in Points \ {c.pno} : fVal'[p] = fExPtbl'[MyPcm][p]
      BY <1>0, <2>1 DEF OthersKept
    <2>3. pc'[t] \in Locked /\ call'[t].pno = c.pno
      BY <1>2
    <2>4. /\ l = "write_ex" => fVal'[c.pno] = c.value
          /\ l # "write_ex" => fExPtbl'[MyPcm][c.pno] = c.value
      BY <1>0
    <2>5. \A u \in Threads \ {t} : pc'[u] \notin Locked
      BY <1>5 DEF LockInv
    <2> QED BY <1>2, <2>2, <2>3, <2>4, <2>5 DEF AgreeInv, Locked
  <1>7. ASSUME ~MultiDdc, LimitInv PROVE LimitInv'
    <2>1. Legal(c.pno, c.value)
      BY <1>1, <1>7 DEF Fits, Locked
    <2> QED BY <1>0, <1>1, <1>7, <2>1, LimitWrite
  <1> QED BY <1>3, <1>4, <1>5, <1>6, <1>7

(* Writing the other copy and giving the mutex back.                       *)
LEMMA LeaveStep ==
    ASSUME TableInv, NEW t \in Threads, pc[t] \in Locked,
           NEW l \in {"hyst", "elba_push"}, GoTo(t, l, call[t]),
           lock' = NoThread,
           \/ pc[t] = "write_ex" /\ WriteEx(call[t].pno, call[t].value)
           \/ pc[t] # "write_ex" /\ WriteVal(call[t].pno, call[t].value),
           UNCHANGED <<fPreval, queues, views>>
    PROVE  TableInv'
  <1> USE DEF TableInv
  <1> DEFINE c == call[t]
  <1>1. /\ c \in CallRecord /\ c.pno \in Points /\ c.value \in Int /\ c.pcm = MyPcm
        /\ pc[t] \in OwnLabels /\ pc[t] \notin {"idle", "recv"}
    BY AtCall DEF Locked, OwnLabels
  <1>2. CallInv(t)
    OBVIOUS
  <1>3. ~MultiDdc => Legal(c.pno, c.value)
    BY <1>1, <1>2 DEF CallInv
  <1>4. Fits(t, l, c) /\ l \in Labels \ Locked
    BY <1>1, <1>2, <1>3 DEF Fits, CallInv, Labels, Locked
  <1>0. /\ OthersKept(c.pno)
        /\ pc[t] # "write_ex" => /\ fVal'[c.pno] = c.value
                                 /\ fExPtbl'[MyPcm][c.pno] = fExPtbl[MyPcm][c.pno]
        /\ pc[t] = "write_ex" => /\ fExPtbl'[MyPcm][c.pno] = c.value
                                 /\ fVal'[c.pno] = fVal[c.pno]
    BY <1>1, WriteValFacts, WriteExFacts
  <1>10. /\ pc' \in [Threads -> Labels]
         /\ call' \in [Threads -> CallRecord \cup {NoCall}]
    BY <1>1, <1>4, Moved
  <1>5. TypeOK'
    BY <1>0, <1>10 DEF TypeOK, OthersKept, queues, views
  <1>6. \A u \in Threads : CallInv(u)'
    BY <1>1, <1>4, CallStep
  <1>7. LockInv'
    BY <1>1, <1>4, LockStep DEF Leaves
  <1>8. ASSUME AgreeInv PROVE AgreeInv'
    <2>1. \A u \in Threads : pc[u] \in Locked => u = t
      BY DEF LockInv
    <2>2. \A p \in Points : p # c.pno => fVal[p] = fExPtbl[MyPcm][p]
      BY <1>8, <2>1 DEF AgreeInv
    <2>3. IF pc[t] = "write_ex" THEN fVal[c.pno] = c.value
          ELSE fExPtbl[MyPcm][c.pno] = c.value
      BY <1>8 DEF AgreeInv, Locked
    <2>4. ASSUME NEW p \in Points PROVE fVal'[p] = fExPtbl'[MyPcm][p]
      BY <1>0, <2>2, <2>3 DEF OthersKept
    <2>5. \A u \in Threads : pc'[u] \notin Locked
      BY <1>7 DEF LockInv
    <2> QED BY <2>4, <2>5 DEF AgreeInv, Locked
  <1>9. ASSUME ~MultiDdc, LimitInv PROVE LimitInv'
    BY <1>0, <1>1, <1>3, <1>9, LimitWrite
  <1> QED BY <1>5, <1>6, <1>7, <1>8, <1>9

-----------------------------------------------------------------------------
LEMMA LocalPsetStep ==
    ASSUME TableInv, NEW t \in Threads, NEW p \in Points, NEW v \in Int,
           pc[t] \in {"idle", "recv"}, LocalPset(t, p, v)
    PROVE  TableInv'
  <1> DEFINE c == Call("pset", "NONE", MyPcm, p, Clamp(p, v))
             l == IF p \in Outputs THEN "compare" ELSE "idle"
  <1>1. /\ c \in CallRecord /\ c.op = "pset" /\ c.pcm = MyPcm /\ c.pno = p
        /\ c.value = Clamp(p, v)
    BY ClampLegal DEF Call, CallRecord, Ops, MessageTypes
  <1>2. Legal(c.pno, c.value)
    BY <1>1, ClampLegal
  <1>3. Fits(t, l, c)
    <2> HIDE DEF c
    <2> QED BY <1>1, <1>2 DEF Fits
  <1>4. l \in Labels \ Locked /\ pc[t] \notin Locked
    BY DEF Labels, Locked
  <1>5. GoTo(t, l, c) /\ UNCHANGED <<table, queues, views>>
    BY DEF LocalPset
  <1> HIDE DEF c, l
  <1> QED BY <1>1, <1>3, <1>4, <1>5, QuietStep

(* pSet, whichever branch it takes.                                        *)
LEMMA PSetStep ==
    ASSUME TableInv, NEW t \in Threads, NEW op \in {"pset", "command"},
           op = "command" => MultiDdc /\ t \in ElbaThreads,
           NEW pcm \in Pcms, NEW p \in Points, NEW v \in Int,
           pc[t] = "idle", PSet(t, op, pcm, p, v)
    PROVE  TableInv'
  <1>0. pc[t] \notin Locked
    BY DEF Locked
  <1>1. CASE PSetMultiOther(t, op, pcm, p, v)
    <2> DEFINE c == Call(op, "NONE", pcm, p, v)
               l == IF fExPtbl[pcm][p] # v THEN "elba_push"
                    ELSE IF op = "command" THEN "cmd_ex" ELSE "idle"
    <2>1. c \in CallRecord /\ c.op = op
      BY DEF Call, CallRecord, Ops, MessageTypes
    <2>2. /\ GoTo(t, l, c) /\ MultiDdc /\ pcm # MyPcm
          /\ fExPtbl' = [fExPtbl EXCEPT ![pcm][p] = v]
          /\ UNCHANGED <<fVal, fPreval, lock, queues, views>>
      BY <1>1 DEF PSetMultiOther
    <2>3. l \in Labels \ Locked /\ l \notin OwnLabels
      BY DEF Labels, Locked, OwnLabels
    <2>4. Fits(t, l, c)
      <3>1. l # "recv" /\ (l = "cmd_ex" => op = "command") /\ l # "multi_val"
        OBVIOUS
      <3> HIDE DEF c, l
      <3> QED BY <2>1, <2>2, <2>3, <3>1 DEF Fits
    <2> HIDE DEF c, l
    <2>5. fExPtbl' \in [Pcms -> [Points -> Int]] /\ fExPtbl'[MyPcm] = fExPtbl[MyPcm]
      BY <2>2 DEF TableInv, TypeOK
    <2>6. TypeOK'
      BY <2>1, <2>2, <2>3, <2>5, Moved DEF TableInv, TypeOK, queues, views
    <2> QED BY <1>0, <2>1, <2>2, <2>3, <2>4, <2>5, <2>6, OutsideStep
  <1>2. CASE pcm = MyPcm /\ PSetMultiOwn(t, op, p, v)
    <2> DEFINE c == Call(op, "NONE", MyPcm, p, v)
    <2>1. /\ c \in CallRecord /\ c.op = op /\ c.pcm = MyPcm /\ c.pno = p /\ c.value = v
      BY DEF Call, CallRecord, Ops, MessageTypes
    <2>2. /\ GoTo(t, "multi_val", c) /\ MultiDdc /\ lock = NoThread /\ lock' = t
          /\ fExPtbl' = [fExPtbl EXCEPT ![MyPcm][p] = v]
          /\ UNCHANGED <<fVal, fPreval, queues, views>>
      BY <1>2 DEF PSetMultiOwn
    <2> HIDE DEF c
    <2>3. Fits(t, "multi_val", c) /\ WriteEx(c.pno, c.value)
      BY <2>1, <2>2 DEF Fits, WriteEx
    <2> QED BY <2>1, <2>2, <2>3, EnterStep DEF Locked
  <1>3. CASE PSetForward(t, pcm, p, v)
    <2> DEFINE c == Call("forward", "COMMAND", pcm, p, v)
    <2>1. c \in CallRecord /\ c.op = "forward" /\ c.type = "COMMAND"
      BY DEF Call, CallRecord, Ops, MessageTypes
    <2>2. GoTo(t, "net_push", c) /\ UNCHANGED <<table, queues, views>>
      BY <1>3 DEF PSetForward
    <2> HIDE DEF c
    <2>3. Fits(t, "net_push", c) /\ "net_push" \in Labels \ Locked
      BY <2>1 DEF Fits, OwnLabels, Labels, Locked, Reporting
    <2> QED BY <1>0, <2>1, <2>2, <2>3, QuietStep
  <1>4. CASE LocalPset(t, p, v)
    BY <1>4, LocalPsetStep
  <1> QED BY <1>1, <1>2, <1>3, <1>4 DEF PSet

-----------------------------------------------------------------------------
\* The steps of a call in progress.

LEMMA LockedSteps ==
    ASSUME TableInv, NEW t \in Threads,
           \/ PsetLock(t) \/ PsetUnlock(t) \/ MultiVal(t)
           \/ AdcLock(t) \/ AdcUnlock(t)
    PROVE  TableInv'
  <1> DEFINE c == call[t]
  <1>0. /\ pc[t] \notin {"idle", "recv"} /\ CallInv(t) /\ TypeOK
    BY DEF PsetLock, PsetUnlock, MultiVal, AdcLock, AdcUnlock, At, TableInv
  <1>1. /\ c \in CallRecord
        /\ pc[t] \in OwnLabels => c.pcm = MyPcm
    BY <1>0, AtCall
  <1>2. CASE PsetLock(t)
    <2>1. Fits(t, "write_ex", c) /\ c.pcm = MyPcm
      BY <1>0, <1>1, <1>2 DEF PsetLock, At, CallInv, Fits, OwnLabels
    <2> QED BY <1>1, <1>2, <2>1, EnterStep DEF PsetLock, Stay, WriteVal, Locked
  <1>3. CASE AdcLock(t)
    <2>1. Fits(t, "adc_val", c) /\ c.pcm = MyPcm
      BY <1>0, <1>1, <1>3 DEF AdcLock, At, CallInv, Fits, OwnLabels
    <2> QED BY <1>1, <1>3, <2>1, EnterStep DEF AdcLock, Stay, WriteEx, Locked
  <1>4. CASE PsetUnlock(t)
    BY <1>4, LeaveStep DEF PsetUnlock, At, Stay, WriteEx, Locked
  <1>5. CASE MultiVal(t)
    BY <1>5, LeaveStep DEF MultiVal, At, Stay, WriteVal, Locked
  <1>6. CASE AdcUnlock(t)
    BY <1>6, LeaveStep DEF AdcUnlock, At, Stay, WriteVal, Locked
  <1> QED BY <1>2, <1>3, <1>4, <1>5, <1>6

LEMMA TestSteps ==
    ASSUME TableInv, NEW t \in Threads,
           PsetSame(t) \/ PsetChanged(t) \/ IsHyst(t)
    PROVE  TableInv'
  <1> DEFINE c == call[t]
  <1>0. /\ pc[t] \in {"compare", "hyst"} /\ CallInv(t) /\ TypeOK
        /\ pc[t] \notin {"idle", "recv"} /\ pc[t] \notin Locked /\ pc[t] \in OwnLabels
    BY DEF PsetSame, PsetChanged, IsHyst, At, TableInv, Locked, OwnLabels
  <1>1. c \in CallRecord /\ c.pcm = MyPcm
    BY <1>0, AtCall
  <1>2. CASE PsetSame(t)
    <2>1. Fits(t, "elba_push", c) /\ "elba_push" \in Labels \ Locked
      BY <1>0, <1>1 DEF CallInv, Fits, OwnLabels, Labels, Locked, Reporting
    <2> QED BY <1>0, <1>1, <1>2, <2>1, QuietStep DEF PsetSame, Stay
  <1>3. CASE PsetChanged(t)
    <2>1. Fits(t, "pset_lock", c) /\ "pset_lock" \in Labels \ Locked
      BY <1>0, <1>1 DEF CallInv, Fits, OwnLabels, Labels, Locked, Reporting
    <2> QED BY <1>0, <1>1, <1>3, <2>1, QuietStep DEF PsetChanged, Stay
  <1>4. CASE IsHyst(t)
    <2> DEFINE d == [c EXCEPT !.type = "REPORT"]
               l == IF OverHyst(c.pno, fPreval[c.pno], c.value) THEN "preval"
                    ELSE IF c.op = "pset" THEN "elba_push" ELSE "idle"
    <2>1. d \in CallRecord /\ d.pcm = MyPcm /\ d.op = c.op /\ d.pno = c.pno /\ d.value = c.value
      BY <1>1 DEF CallRecord, MessageTypes
    <2>2. GoTo(t, l, d) /\ UNCHANGED <<table, queues, views>>
      BY <1>4 DEF IsHyst
    <2>3. l \in {"preval", "elba_push", "idle"}
      OBVIOUS
    <2> HIDE DEF d, l
    <2>4. Fits(t, l, d)
      BY <1>0, <1>1, <2>1, <2>3 DEF CallInv, Fits, Legal, Stands
    <2>5. l \in Labels \ Locked
      BY <2>3 DEF Labels, Locked
    <2> QED BY <1>0, <2>1, <2>2, <2>4, <2>5, QuietStep
  <1> QED BY <1>2, <1>3, <1>4

LEMMA SetPrevalStep ==
    ASSUME TableInv, NEW t \in Threads, SetPreval(t)
    PROVE  TableInv'
  <1> DEFINE c == call[t]
  <1>0. /\ pc[t] = "preval" /\ CallInv(t) /\ TypeOK
        /\ pc[t] \notin {"idle", "recv"} /\ pc[t] \notin Locked /\ pc[t] \in OwnLabels
    BY DEF SetPreval, At, TableInv, Locked, OwnLabels
  <1>1. c \in CallRecord /\ c.pcm = MyPcm /\ c.pno \in Points /\ c.value \in Int
    BY <1>0, AtCall
  <1>2. Fits(t, "net_push", c) /\ "net_push" \in Labels \ Locked
    BY <1>0, <1>1 DEF CallInv, Fits, OwnLabels, Labels, Locked, Reporting
  <1>3. GoTo(t, "net_push", c)
    BY DEF SetPreval, Stay
  <1>4. TypeOK'
    <2>1. fPreval' \in [Points -> Int]
      BY <1>0, <1>1 DEF SetPreval, TypeOK
    <2> QED BY <1>0, <1>1, <1>2, <1>3, <2>1, Moved DEF SetPreval, TypeOK, queues, views
  <1>5. ~MultiDdc => WithinLimits'
    BY DEF SetPreval, TableInv, LimitInv, WithinLimits, Legal, Stands, queues, views
  <1> QED BY <1>0, <1>1, <1>2, <1>3, <1>4, <1>5, OutsideStep DEF SetPreval

\* A report that is pushed is legal when its value is.
LEMMA NetPushStep ==
    ASSUME TableInv, NEW t \in Threads, NetPush(t)
    PROVE  TableInv'
  <1> DEFINE c == call[t]
             m == [type |-> c.type, pcm |-> c.pcm, pno |-> c.pno, value |-> c.value]
             l == AfterNetPush(c.op)
  <1>0. /\ pc[t] = "net_push" /\ CallInv(t) /\ TypeOK
        /\ pc[t] \notin {"idle", "recv"} /\ pc[t] \notin Locked
    BY DEF NetPush, At, TableInv, Locked
  <1>1. c \in CallRecord /\ c.pcm \in Pcms /\ c.pno \in Points /\ c.value \in Int
    BY <1>0, AtCall
  <1>2. m \in MessageType
    BY <1>1, MessageOfCall
  <1>3. l \in {"elba_push", "uclient_push", "idle"}
    BY DEF AfterNetPush
  <1>4. Fits(t, l, c) /\ l \in Labels \ Locked
    BY <1>0, <1>1, <1>3 DEF CallInv, Fits, OwnLabels, Labels, Locked, Reporting
  <1>5. /\ GoTo(t, l, c)
        /\ net32Queue' = Push(net32Queue, Net32Capacity, m)
        /\ lost' \in {lost, Missed(lost, net32Queue, Net32Capacity, c.pno)}
        /\ UNCHANGED <<table, elbaQueue, uclientQueue, netView, stationView, pointFile, untold>>
    BY DEF NetPush, Stay
  <1>6. net32Queue' \in Seq(MessageType) /\ lost' \subseteq Points
    <2>1. net32Queue' \in Seq(MessageType)
      BY <1>0, <1>2, <1>5, PushType DEF TypeOK
    <2>2. lost' \subseteq Points
      BY <1>0, <1>1, <1>5 DEF Missed, TypeOK
    <2> QED BY <2>1, <2>2
  <1> HIDE DEF l
  <1>7. TypeOK'
    BY <1>0, <1>1, <1>4, <1>5, <1>6, Moved DEF TypeOK, table
  <1>8. ASSUME ~MultiDdc PROVE WithinLimits'
    <2>1. WithinLimits
      BY <1>8 DEF TableInv, LimitInv
    <2>2. c.type = "REPORT" => Stands(c.pno, c.value)
      BY <1>0, <1>8 DEF CallInv, OwnLabels, Reporting, Stands
    <2>3. m.type = c.type /\ m.pno = c.pno /\ m.value = c.value
      OBVIOUS
    <2> HIDE DEF m, c
    <2>4. ASSUME NEW i \in 1 .. Len(net32Queue'), net32Queue'[i].type = "REPORT"
          PROVE  Stands(net32Queue'[i].pno, net32Queue'[i].value)
      <3>1. \/ i \in 1 .. Len(net32Queue) /\ net32Queue'[i] = net32Queue[i]
            \/ net32Queue'[i] = m
        BY <1>0, <1>2, <1>5 DEF TypeOK, Push
      <3> QED BY <2>1, <2>2, <2>3, <2>4, <3>1 DEF WithinLimits
    <2>5. fVal' = fVal /\ netView' = netView /\ pointFile' = pointFile
      BY <1>5 DEF table
    <2> QED BY <2>1, <2>4, <2>5 DEF WithinLimits, Legal, Stands
  <1>9. lock' = lock /\ fVal' = fVal /\ fExPtbl' = fExPtbl
    BY <1>5 DEF table
  <1> QED BY <1>0, <1>1, <1>4, <1>5, <1>7, <1>8, <1>9, OutsideStep

LEMMA StationPushSteps ==
    ASSUME TableInv, NEW t \in Threads, ElbaPush(t) \/ UclientPush(t)
    PROVE  TableInv'
  <1> DEFINE c == call[t]
  <1>0. /\ pc[t] \in {"elba_push", "uclient_push"} /\ CallInv(t) /\ TypeOK
        /\ pc[t] \notin {"idle", "recv"} /\ pc[t] \notin Locked
    BY DEF ElbaPush, UclientPush, At, TableInv, Locked
  <1>1. c \in CallRecord /\ c.pcm \in Pcms /\ c.pno \in Points /\ c.value \in Int
    BY <1>0, AtCall
  <1>2. PointOf(c) \in PointType
    BY <1>1, MessageOfCall
  <1>3. PICK l \in {AfterElbaPush(c.op), "idle"} :
           /\ GoTo(t, l, c)
           /\ l = "idle" \/ ElbaPush(t)
    BY DEF ElbaPush, UclientPush, Stay
  <1>4. l \in {"cmd_ex", "uclient_push", "idle"} /\ (l = "cmd_ex" => c.op = "command")
    BY <1>3 DEF AfterElbaPush
  <1>5. Fits(t, l, c) /\ l \in Labels \ Locked
    BY <1>0, <1>1, <1>4 DEF CallInv, Fits, OwnLabels, Labels, Locked, Reporting
  <1>6. /\ elbaQueue' \in Seq(PointType) /\ uclientQueue' \in Seq(PointType)
        /\ untold' \subseteq Pcms \X Points
        /\ UNCHANGED <<table, net32Queue, netView, stationView, pointFile, lost>>
    <2>1. CASE ElbaPush(t)
      <3>1. /\ elbaQueue' = Push(elbaQueue, ElbaCapacity, PointOf(c))
            /\ untold' = Missed(untold, elbaQueue, ElbaCapacity, <<c.pcm, c.pno>>)
            /\ UNCHANGED <<table, net32Queue, uclientQueue, netView, stationView, pointFile, lost>>
        BY <2>1 DEF ElbaPush
      <3>2. elbaQueue' \in Seq(PointType)
        BY <1>0, <1>2, <3>1, PushType DEF TypeOK
      <3>3. untold' \subseteq Pcms \X Points
        BY <1>0, <1>1, <3>1 DEF Missed, TypeOK
      <3> QED BY <1>0, <3>1, <3>2, <3>3 DEF TypeOK
    <2>2. CASE UclientPush(t)
      <3>1. /\ uclientQueue' = Push(uclientQueue, UclientCapacity, PointOf(c))
            /\ UNCHANGED <<table, net32Queue, elbaQueue, views>>
        BY <2>2 DEF UclientPush
      <3>2. uclientQueue' \in Seq(PointType)
        BY <1>0, <1>2, <3>1, PushType DEF TypeOK
      <3> QED BY <1>0, <3>1, <3>2 DEF TypeOK, views
    <2> QED BY <2>1, <2>2
  <1>7. TypeOK'
    BY <1>0, <1>1, <1>3, <1>5, <1>6, Moved DEF TypeOK, table
  <1>8. ~MultiDdc => WithinLimits'
    BY <1>6 DEF TableInv, LimitInv, WithinLimits, Legal, Stands, table
  <1>9. lock' = lock /\ fVal' = fVal /\ fExPtbl' = fExPtbl
    BY <1>6 DEF table
  <1> QED BY <1>0, <1>1, <1>3, <1>5, <1>7, <1>8, <1>9, OutsideStep

\* The second write of a command happens with a station in multi-DDC mode only.
LEMMA CommandExStep ==
    ASSUME TableInv, NEW t \in Threads, CommandEx(t)
    PROVE  TableInv'
  <1> DEFINE c == call[t]
             d == [c EXCEPT !.op = "echo"]
  <1>0. /\ pc[t] = "cmd_ex" /\ CallInv(t) /\ TypeOK
        /\ pc[t] \notin {"idle", "recv"} /\ pc[t] \notin Locked
    BY DEF CommandEx, At, TableInv, Locked
  <1>1. c \in CallRecord /\ c.pcm \in Pcms /\ c.pno \in Points /\ c.value \in Int
    BY <1>0, AtCall
  <1>2. MultiDdc /\ ElbaThreads # {}
    BY <1>0 DEF CallInv
  <1>3. d \in CallRecord /\ d.op = "echo"
    BY <1>1 DEF CallRecord, Ops
  <1>4. GoTo(t, "elba_push", d)
    BY DEF CommandEx
  <1> HIDE DEF d
  <1>5. Fits(t, "elba_push", d) /\ "elba_push" \in Labels \ Locked
    BY <1>2, <1>3 DEF Fits, OwnLabels, Labels, Locked, Reporting
  <1>6. fExPtbl' \in [Pcms -> [Points -> Int]]
    <2>1. fExPtbl' = [fExPtbl EXCEPT ![c.pcm] = [fExPtbl[c.pcm] EXCEPT ![c.pno] = c.value]]
      BY <1>0, <1>1 DEF CommandEx, TypeOK
    <2>2. fExPtbl[c.pcm] \in [Points -> Int]
      BY <1>0, <1>1 DEF TypeOK
    <2>3. [fExPtbl[c.pcm] EXCEPT ![c.pno] = c.value] \in [Points -> Int]
      BY <1>1, <2>2
    <2> QED BY <1>0, <1>1, <2>1, <2>3 DEF TypeOK
  <1>7. TypeOK'
    BY <1>0, <1>3, <1>4, <1>5, <1>6, Moved DEF CommandEx, TypeOK, queues, views
  <1> QED BY <1>0, <1>2, <1>3, <1>4, <1>5, <1>7, OutsideStep DEF CommandEx

LEMMA ContinueStep ==
    ASSUME TableInv, NEW t \in Threads, Continue(t)
    PROVE  TableInv'
  BY LockedSteps, TestSteps, SetPrevalStep, NetPushStep, StationPushSteps,
     CommandExStep DEF Continue

-----------------------------------------------------------------------------
\* The steps that begin a call, and those of the two sending loops.

(* A step that only moves a thread to a push with a fresh call, when what  *)
(* it reports is legal.                                                    *)
LEMMA BeginStep ==
    ASSUME TableInv, NEW t \in Threads, pc[t] \in {"idle", "recv"},
           NEW l \in {"net_push", "elba_push", "uclient_push"},
           NEW op \in Ops \ {"command"}, NEW type \in MessageTypes,
           NEW pcm \in Pcms, NEW p \in Points, NEW v \in Int,
           GoTo(t, l, Call(op, type, pcm, p, v)),
           UNCHANGED <<table, queues, views>>,
           ~MultiDdc /\ type = "REPORT" /\ l = "net_push" => Stands(p, v)
    PROVE  TableInv'
  <1> DEFINE c == Call(op, type, pcm, p, v)
  <1>1. c \in CallRecord /\ c.op = op /\ c.type = type /\ c.pno = p /\ c.value = v
    BY DEF Call, CallRecord
  <1> HIDE DEF c
  <1>2. Fits(t, l, c) /\ l \in Labels \ Locked /\ pc[t] \notin Locked
    BY <1>1 DEF Fits, OwnLabels, Labels, Locked, Reporting
  <1> QED BY <1>1, <1>2, QuietStep DEF c

LEMMA SetterStepInv ==
    ASSUME TableInv, NEW t \in Setters, SetterStep(t)
    PROVE  TableInv'
  <1>1. PICK x \in Touches[t] : \/ \E v \in Values : Set(t, x[1], x[2], v)
                               \/ PReq(t, x[1], x[2])
    BY DEF SetterStep
  <1>2. t \in Threads /\ x[1] \in Pcms /\ x[2] \in Points
    BY <1>1 DEF Threads
  <1>3. ASSUME NEW v \in Values, Set(t, x[1], x[2], v) PROVE TableInv'
    BY <1>2, <1>3, PSetStep DEF Set, At
  <1>4. CASE PReq(t, x[1], x[2])
    BY <1>2, <1>4, BeginStep DEF PReq, At, Ops, MessageTypes
  <1> QED BY <1>1, <1>3, <1>4

LEMMA SampleStep ==
    ASSUME TableInv, NEW t \in Threads, NEW op \in {"adc", "subio"},
           NEW p \in Points, NEW v \in Int, Sample(t, op, p, v)
    PROVE  TableInv'
  <1> DEFINE c == Call(op, "NONE", MyPcm, p, Clamp(p, v))
  <1>1. /\ c \in CallRecord /\ c.op = op /\ c.pcm = MyPcm /\ c.pno = p
        /\ c.value = Clamp(p, v)
    BY ClampLegal DEF Call, CallRecord, Ops, MessageTypes
  <1>2. GoTo(t, "adc_lock", c) /\ pc[t] = "idle" /\ UNCHANGED <<table, queues, views>>
    BY DEF Sample, At
  <1> HIDE DEF c
  <1>3. Fits(t, "adc_lock", c) /\ "adc_lock" \in Labels \ Locked /\ pc[t] \notin Locked
    BY <1>1, <1>2, ClampLegal DEF Fits, Labels, Locked
  <1> QED BY <1>1, <1>2, <1>3, QuietStep

LEMMA ScanStepsInv ==
    ASSUME TableInv, NEW t \in Scanners \cup SubioThreads,
           (t \in Scanners /\ ScannerStep(t)) \/ (t \in SubioThreads /\ SubioStep(t))
    PROVE  TableInv'
  <1>1. PICK x \in Touches[t], v \in Values, op \in {"adc", "subio"} :
           Sample(t, op, x[2], v)
    BY DEF ScannerStep, SubioStep
  <1>2. t \in Threads /\ x[2] \in Points
    BY <1>1 DEF Threads
  <1> QED BY <1>1, <1>2, SampleStep

LEMMA ElbaStepInv ==
    ASSUME TableInv, NEW t \in ElbaThreads, ElbaStep(t)
    PROVE  TableInv'
  <1>1. t \in Threads /\ pc[t] = "idle" /\ CallInv(t) /\ TypeOK
    BY DEF Threads, ElbaStep, ElbaSend, ElbaRequest, ElbaCommand, At, TableInv
  <1>2. CASE ElbaSend(t)
    <2>1. call[t] = NoCall /\ pc' = pc /\ call' = call
      BY <1>1, <1>2 DEF CallInv, ElbaSend
    <2>2. GoTo(t, "idle", NoCall) /\ Fits(t, "idle", NoCall)
      BY <1>1, <2>1 DEF GoTo, Fits, TypeOK
    <2>3. /\ Head(elbaQueue) \in PointType
          /\ elbaQueue' \in Seq(PointType)
      BY <1>1, <1>2 DEF ElbaSend, TypeOK
    <2>4. /\ stationView' \in [Pcms -> [Points -> Int]]
          /\ untold' \subseteq Pcms \X Points
      <3> DEFINE m == Head(elbaQueue)
      <3>1. m.pcm \in Pcms /\ m.pno \in Points /\ m.value \in Int
        BY <2>3 DEF PointType
      <3>2. \/ /\ stationView' = [stationView EXCEPT ![m.pcm] =
                                   [stationView[m.pcm] EXCEPT ![m.pno] = m.value]]
               /\ untold' = untold
            \/ /\ stationView' = stationView
               /\ untold' = untold \/ untold' = untold \cup {<<m.pcm, m.pno>>}
        BY <1>1, <1>2, <3>1 DEF ElbaSend, TypeOK
      <3> HIDE DEF m
      <3>3. [stationView[m.pcm] EXCEPT ![m.pno] = m.value] \in [Points -> Int]
        <4>1. stationView[m.pcm] \in [Points -> Int]
          BY <1>1, <3>1 DEF TypeOK
        <4> QED BY <3>1, <4>1
      <3>4. <<m.pcm, m.pno>> \in Pcms \X Points
        BY <3>1
      <3>5. stationView' \in [Pcms -> [Points -> Int]]
        <4>1. stationView \in [Pcms -> [Points -> Int]]
          BY <1>1 DEF TypeOK
        <4>2. CASE stationView' = stationView
          BY <4>1, <4>2
        <4>3. ASSUME stationView' # stationView
              PROVE  stationView' \in [Pcms -> [Points -> Int]]
          <5>1. PICK row \in [Points -> Int] :
                  stationView' = [stationView EXCEPT ![m.pcm] = row]
            BY <3>2, <3>3, <4>3
          <5> QED BY <3>1, <4>1, <5>1
        <4> QED BY <4>2, <4>3
      <3>6. untold' \subseteq Pcms \X Points
        BY <1>1, <3>2, <3>4 DEF TypeOK
      <3> QED BY <3>5, <3>6
    <2>5. TypeOK'
      BY <1>1, <1>2, <2>1, <2>3, <2>4 DEF ElbaSend, TypeOK, table
    <2>6. ~MultiDdc => WithinLimits'
      BY <1>2 DEF ElbaSend, TableInv, LimitInv, WithinLimits, Legal, Stands, table
    <2>7. lock' = lock /\ fVal' = fVal /\ fExPtbl' = fExPtbl
      BY <1>2 DEF ElbaSend, table
    <2>8. "idle" \in Labels \ Locked /\ pc[t] \notin Locked
      BY <1>1 DEF Labels, Locked
    <2> QED BY <1>1, <2>2, <2>5, <2>6, <2>7, <2>8, OutsideStep
  <1>3. ASSUME NEW x \in Touches[t], ElbaRequest(t, x[1], x[2]) PROVE TableInv'
    <2>1. x[1] \in Pcms /\ x[2] \in Points
      BY <1>1
    <2>2. fExPtbl[x[1]][x[2]] \in Int
      BY <1>1, <2>1 DEF TypeOK
    <2> QED BY <1>1, <1>3, <2>1, <2>2, BeginStep DEF ElbaRequest, Ops, MessageTypes
  <1>4. ASSUME NEW x \in Touches[t], NEW v \in Values, ElbaCommand(t, x[1], x[2], v)
        PROVE  TableInv'
    <2>1. x[1] \in Pcms /\ x[2] \in Points
      BY <1>1
    <2> QED BY <1>1, <1>4, <2>1, PSetStep DEF ElbaCommand
  <1> QED BY <1>2, <1>3, <1>4 DEF ElbaStep

\* What is sent was legal in the queue; what stays in the queue moves up.
LEMMA Net32SendInv ==
    ASSUME TableInv, NEW t \in Net32Threads, Net32Send(t)
    PROVE  TableInv'
  <1> DEFINE m == Head(net32Queue)
  <1>1. /\ t \in Threads /\ pc[t] = "idle" /\ CallInv(t) /\ TypeOK
        /\ net32Queue \in Seq(MessageType) /\ net32Queue # << >>
    BY DEF Threads, Net32Send, At, TableInv, TypeOK
  <1>2. call[t] = NoCall
    BY <1>1 DEF CallInv
  <1>3. /\ m \in MessageType /\ net32Queue' = Tail(net32Queue)
        /\ net32Queue' \in Seq(MessageType)
        /\ \/ netView' = IF m.type = "REPORT" THEN [netView EXCEPT ![m.pno] = m.value]
                                              ELSE netView
           \/ netView' = netView
        /\ UNCHANGED <<table, elbaQueue, uclientQueue, stationView, pointFile, untold>>
    BY <1>1 DEF Net32Send
  <1>4. m.pno \in Points /\ m.value \in Int
    BY <1>3 DEF MessageType
  <1>l. lost' \subseteq Points
    BY <1>1, <1>4 DEF Net32Send, TypeOK
  <1>5. GoTo(t, "recv", NoCall) /\ Fits(t, "recv", NoCall)
    BY <1>2 DEF Net32Send, Stay, Fits
  <1>6. "recv" \in Labels \ Locked /\ pc[t] \notin Locked
    BY <1>1 DEF Labels, Locked
  <1>7. m = net32Queue[1]
    BY <1>1
  <1> HIDE DEF m
  <1>8. TypeOK'
    <2>1. netView' \in [Points -> Int]
      BY <1>1, <1>3, <1>4 DEF TypeOK
    <2> QED BY <1>1, <1>3, <1>l, <1>5, <1>6, <2>1, Moved DEF TypeOK, table
  <1>9. ASSUME ~MultiDdc PROVE WithinLimits'
    <2>1. WithinLimits
      BY <1>9 DEF TableInv, LimitInv
    <2>2. m.type = "REPORT" => Stands(m.pno, m.value)
      BY <1>1, <1>7, <2>1 DEF WithinLimits
    <2>3. ASSUME NEW i \in 1 .. Len(net32Queue')
          PROVE  i + 1 \in 1 .. Len(net32Queue) /\ net32Queue'[i] = net32Queue[i + 1]
      BY <1>1, <1>3
    <2>4. \A p \in Points : Stands(p, netView'[p])
      BY <1>1, <1>3, <1>4, <2>1, <2>2 DEF WithinLimits, TypeOK
    <2>5. fVal' = fVal /\ pointFile' = pointFile
      BY <1>3 DEF table
    <2>6. ASSUME NEW i \in 1 .. Len(net32Queue'), net32Queue'[i].type = "REPORT"
          PROVE  Stands(net32Queue'[i].pno, net32Queue'[i].value)
      <3>1. PICK k \in 1 .. Len(net32Queue) : net32Queue'[i] = net32Queue[k]
        BY <2>3, <2>6
      <3>2. net32Queue[k].type = "REPORT"
        BY <2>6, <3>1
      <3>3. Stands(net32Queue[k].pno, net32Queue[k].value)
        BY <2>1, <3>2 DEF WithinLimits
      <3> QED BY <3>1, <3>3
    <2> QED BY <2>1, <2>4, <2>5, <2>6 DEF WithinLimits, Legal, Stands
  <1>10. lock' = lock /\ fVal' = fVal /\ fExPtbl' = fExPtbl
    BY <1>3 DEF table
  <1> QED BY <1>1, <1>5, <1>6, <1>8, <1>9, <1>10, OutsideStep

LEMMA Net32StepInv ==
    ASSUME TableInv, NEW t \in Net32Threads, Net32Step(t)
    PROVE  TableInv'
  <1>1. t \in Threads /\ CallInv(t) /\ TypeOK /\ (~MultiDdc => LimitInv)
    BY DEF Threads, TableInv
  <1>2. CASE Net32Send(t)
    BY <1>2, Net32SendInv
  <1>3. CASE Net32NothingToSend(t) \/ Net32NothingReceived(t)
    <2>1. PICK l \in {"idle", "recv"} : GoTo(t, l, NoCall)
      BY <1>1, <1>3 DEF Net32NothingToSend, Net32NothingReceived, Stay, At, CallInv
    <2>2. /\ Fits(t, l, NoCall) /\ l \in Labels \ Locked /\ pc[t] \notin Locked
          /\ UNCHANGED <<table, queues, views>>
      BY <1>3 DEF Fits, Labels, Locked, Net32NothingToSend, Net32NothingReceived, At
    <2> QED BY <1>1, <2>1, <2>2, QuietStep
  <1>4. ASSUME NEW x \in Touches[t], NEW v \in Values, Net32Report(t, x[1], x[2], v)
        PROVE  TableInv'
    <2> DEFINE c == Call("report", "REPORT", x[1], x[2], v)
    <2>1. x[1] \in Pcms /\ x[2] \in Points /\ v \in Int
      BY <1>1
    <2>2. c \in CallRecord /\ c.op = "report"
      BY <2>1 DEF Call, CallRecord, Ops, MessageTypes
    <2>3. /\ GoTo(t, "elba_push", c) /\ pc[t] = "recv" /\ x[1] # MyPcm
          /\ fExPtbl' = [fExPtbl EXCEPT ![x[1]][x[2]] = v]
          /\ UNCHANGED <<fVal, fPreval, lock, queues, views>>
      BY <1>4 DEF Net32Report, At
    <2> HIDE DEF c
    <2>4. Fits(t, "elba_push", c) /\ "elba_push" \in Labels \ Locked /\ pc[t] \notin Locked
      BY <2>2, <2>3 DEF Fits, OwnLabels, Labels, Locked, Reporting
    <2>5. fExPtbl' \in [Pcms -> [Points -> Int]] /\ fExPtbl'[MyPcm] = fExPtbl[MyPcm]
      BY <1>1, <2>1, <2>3 DEF TypeOK
    <2>6. TypeOK'
      BY <1>1, <2>2, <2>3, <2>4, <2>5, Moved DEF TypeOK, queues, views
    <2>7. ~MultiDdc => WithinLimits'
      BY <1>1, <2>3 DEF LimitInv, WithinLimits, Legal, Stands, queues, views
    <2> QED BY <1>1, <2>2, <2>3, <2>4, <2>5, <2>6, <2>7, OutsideStep
  <1>5. ASSUME NEW x \in Touches[t], NEW v \in Values, Net32CommandOther(t, x[1], x[2], v)
        PROVE  TableInv'
    <2>1. x[1] \in Pcms /\ x[2] \in Points /\ v \in Int
      BY <1>1
    <2> QED BY <1>1, <1>5, <2>1, BeginStep DEF Net32CommandOther, At, Ops, MessageTypes
  <1>6. ASSUME NEW x \in Touches[t], NEW v \in Values, Net32CommandSame(t, x[2], v)
        PROVE  TableInv'
    <2>1. x[2] \in Points /\ v \in Int /\ MyPcm \in Pcms
      BY <1>1
    <2>2. ~MultiDdc => Stands(x[2], v)
      BY <1>1, <1>6, <2>1 DEF Net32CommandSame, LimitInv, WithinLimits
    <2>3. "same" \in Ops \ {"command"} /\ "REPORT" \in MessageTypes
      BY DEF Ops, MessageTypes
    <2> QED BY <1>1, <1>6, <2>1, <2>2, <2>3, BeginStep DEF Net32CommandSame, At
  <1>7. ASSUME NEW x \in Touches[t], NEW v \in Values, Net32CommandSet(t, x[2], v)
        PROVE  TableInv'
    <2>1. x[2] \in Points /\ v \in Int
      BY <1>1
    <2> QED BY <1>1, <1>7, <2>1, LocalPsetStep DEF Net32CommandSet, At
  <1>8. ASSUME NEW x \in Touches[t], Net32Require(t, x[2])
        PROVE  TableInv'
    <2>1. x[2] \in Points /\ MyPcm \in Pcms
      BY <1>1
    <2>2. fExPtbl[MyPcm][x[2]] \in Int
      BY <1>1, <2>1 DEF TypeOK
    <2>4. ~MultiDdc => Stands(x[2], fExPtbl[MyPcm][x[2]])
      BY <1>1, <2>1 DEF LimitInv
    <2>3. "answer" \in Ops \ {"command"} /\ "REPORT" \in MessageTypes
      BY DEF Ops, MessageTypes
    <2> QED BY <1>1, <1>8, <2>1, <2>2, <2>3, <2>4, BeginStep DEF Net32Require, At
  <1> QED BY <1>2, <1>3, <1>4, <1>5, <1>6, <1>7, <1>8
          DEF Net32Step, Net32Loop, Net32Handler

\* Where the copies agree the observer leaves f_val as it is.
LEMMA ObserverStepInv ==
    ASSUME TableInv, NEW t \in Observers, ObserverStep(t)
    PROVE  TableInv'
  <1>1. PICK x \in Touches[t] : Observe(x[1], x[2])
    BY DEF ObserverStep
  <1> DEFINE pcm == x[1]
             p == x[2]
             v == fExPtbl[pcm][p]
  <1>2. pcm \in Pcms /\ p \in Points /\ MyPcm \in Pcms
    BY DEF Threads
  <1> HIDE DEF pcm, p
  <1>3. TypeOK /\ LockInv /\ v \in Int
    <2>1. TypeOK /\ LockInv
      BY DEF TableInv
    <2>2. fExPtbl \in [Pcms -> [Points -> Int]]
      BY <2>1 DEF TypeOK
    <2> QED BY <1>2, <2>1, <2>2
  <1>4. /\ lock = NoThread
        /\ pointFile' = [pointFile EXCEPT ![pcm] = [pointFile[pcm] EXCEPT ![p] = v]]
        /\ fVal' = IF pcm = MyPcm THEN [fVal EXCEPT ![p] = v] ELSE fVal
        /\ UNCHANGED <<fPreval, fExPtbl, lock, pc, call, queues,
                       netView, stationView, lost, untold>>
    BY <1>1, <1>2, <1>3 DEF Observe, TypeOK, pcm, p
  <1>5. \A u \in Threads : pc[u] \notin Locked
    BY <1>3, <1>4 DEF LockInv
  <1>6. TypeOK'
    <2>1. fVal' \in [Points -> Int]
      BY <1>2, <1>3, <1>4 DEF TypeOK
    <2>2. [pointFile[pcm] EXCEPT ![p] = v] \in [Points -> Int]
      BY <1>2, <1>3 DEF TypeOK
    <2>3. pointFile' \in [Pcms -> [Points -> Int]]
      BY <1>2, <1>3, <1>4, <2>2 DEF TypeOK
    <2> QED BY <1>3, <1>4, <2>1, <2>3 DEF TypeOK, queues
  <1>7. (\A u \in Threads : CallInv(u))' /\ LockInv'
    BY <1>4 DEF TableInv, CallInv, LockInv, Reporting, Legal, Stands
  <1>8. ASSUME AgreeInv PROVE AgreeInv'
    <2>1. \A q \in Points : fVal[q] = fExPtbl[MyPcm][q]
      BY <1>5, <1>8 DEF AgreeInv
    <2>2. \A q \in Points : fVal'[q] = fExPtbl'[MyPcm][q]
      BY <1>2, <1>3, <1>4, <2>1 DEF TypeOK
    <2>3. \A u \in Threads : pc'[u] \notin {"write_ex", "multi_val", "adc_val"}
      BY <1>4, <1>5 DEF Locked
    <2> QED BY <2>2, <2>3 DEF AgreeInv
  <1>9. ASSUME AgreeInv, LimitInv PROVE LimitInv'
    <2>1. \A q \in Points : fVal[q] = fExPtbl[MyPcm][q]
      BY <1>5, <1>9 DEF AgreeInv
    <2>2. \A q \in Points : fVal'[q] = fVal[q]
      BY <1>2, <1>3, <1>4, <2>1 DEF TypeOK
    <2>3. \A q \in Points : \/ pointFile'[MyPcm][q] = pointFile[MyPcm][q]
                             \/ pointFile'[MyPcm][q] = fVal[q]
      <3>1. CASE pcm = MyPcm
        <4>1. pointFile'[MyPcm] = [pointFile[MyPcm] EXCEPT ![p] = v]
          BY <1>2, <1>3, <1>4, <3>1 DEF TypeOK
        <4>2. pointFile[MyPcm] \in [Points -> Int]
          BY <1>2, <1>3 DEF TypeOK
        <4>3. v = fVal[p]
          BY <1>2, <2>1, <3>1
        <4> QED BY <4>1, <4>2, <4>3
      <3>2. CASE pcm # MyPcm
        BY <1>2, <1>3, <1>4, <3>2 DEF TypeOK
      <3> QED BY <3>1, <3>2
    <2>4. WithinLimits'
      BY <1>4, <1>9, <2>2, <2>3 DEF LimitInv, WithinLimits, Legal, Stands, queues
    <2> QED BY <1>4, <1>9, <2>4 DEF LimitInv, Stands, Legal
  <1> QED BY <1>6, <1>7, <1>8, <1>9 DEF TableInv

-----------------------------------------------------------------------------
LEMMA TableInit == Init => TableInv
  <1> SUFFICES ASSUME Init PROVE TableInv
    OBVIOUS
  <1>1. TypeOK
    BY DEF Init, TypeOK, Labels
  <1>2. \A t \in Threads : CallInv(t)
    BY DEF Init, CallInv
  <1>3. LockInv
    BY DEF Init, LockInv, Locked
  <1>4. AgreeInv
    BY DEF Init, AgreeInv
  <1>5. LimitInv
    BY DEF Init, LimitInv, WithinLimits, Legal, Stands
  <1> QED BY <1>1, <1>2, <1>3, <1>4, <1>5 DEF TableInv

LEMMA TableStep == TableInv /\ [Next]_vars => TableInv'
  <1> SUFFICES ASSUME TableInv, [Next]_vars PROVE TableInv'
    OBVIOUS
  <1>1. CASE UNCHANGED vars
    BY <1>1 DEF vars, TableInv, TypeOK, CallInv, LockInv, AgreeInv, LimitInv,
                WithinLimits, Legal, Stands, Reporting
  <1>2. ASSUME NEW t \in Threads, Continue(t) PROVE TableInv'
    BY <1>2, ContinueStep
  <1>3. ASSUME NEW t \in Setters, SetterStep(t) PROVE TableInv'
    BY <1>3, SetterStepInv
  <1>4. ASSUME NEW t \in Scanners, ScannerStep(t) PROVE TableInv'
    BY <1>4, ScanStepsInv
  <1>5. ASSUME NEW t \in SubioThreads, SubioStep(t) PROVE TableInv'
    BY <1>5, ScanStepsInv
  <1>6. ASSUME NEW t \in ElbaThreads, ElbaStep(t) PROVE TableInv'
    BY <1>6, ElbaStepInv
  <1>7. ASSUME NEW t \in Net32Threads, Net32Step(t) PROVE TableInv'
    BY <1>7, Net32StepInv
  <1>8. ASSUME NEW t \in Observers, ObserverStep(t) PROVE TableInv'
    BY <1>8, ObserverStepInv
  <1> QED BY <1>1, <1>2, <1>3, <1>4, <1>5, <1>6, <1>7, <1>8 DEF Next

(* The inductive invariant of the point table holds for any number of      *)
(* threads of every kind, in both modes.                                   *)
THEOREM TableInvariant == Spec => []TableInv
  BY TableInit, TableStep, PTL DEF Spec

(* Every variable of the point table keeps its type.                       *)
THEOREM TypeCorrect == Spec => []TypeOK
  <1>1. TableInv => TypeOK
    BY DEF TableInv
  <1> QED BY <1>1, TableInvariant, PTL

(* Outside the mutex f_val and g_fExPtbl agree on every own point, however *)
(* many threads write (pnt_local_pset, pnt_local_adc, pSet), in net32 mode *)
(* and, without a station to send commands, in multi-DDC mode.             *)
THEOREM Agreement ==
    ASSUME ~MultiDdc \/ ElbaThreads = {}
    PROVE  Spec => []TablesAgree
  <1>1. TableInv => TablesAgree
    BY DEF TableInv, AgreeInv, LockInv, TablesAgree
  <1> QED BY <1>1, TableInvariant, PTL

(* In net32 mode no call brings a value outside the limits of a point into *)
(* the table, the files or a report (pnt_ismax, pnt_ismin and all that     *)
(* reaches net32_push_queue and the files after them), whatever values     *)
(* point_table_init found: only such a value may still be there.           *)
THEOREM Limits ==
    ASSUME ~MultiDdc
    PROVE  Spec => []WithinLimits
  <1>1. TableInv => WithinLimits
    BY DEF TableInv, LimitInv
  <1> QED BY <1>1, TableInvariant, PTL

\* In net32 mode f_val changes to a clamped value only, and the file to f_val.
LEMMA ValueSteps ==
    ASSUME ~MultiDdc, TableInv, Next, NEW p \in Points
    PROVE  /\ fVal'[p] = fVal[p] \/ Legal(p, fVal'[p])
           /\ \/ pointFile'[MyPcm][p] = pointFile[MyPcm][p]
              \/ pointFile'[MyPcm][p] = fVal[p]
  <1>0. TypeOK /\ LockInv /\ AgreeInv /\ MyPcm \in Pcms
    BY DEF TableInv
  <1> DEFINE Same == fVal' = fVal /\ pointFile' = pointFile
  <1>1. ASSUME NEW t \in Threads, PsetLock(t) \/ AdcUnlock(t)
        PROVE  (fVal'[p] = fVal[p] \/ Legal(p, fVal'[p])) /\ pointFile' = pointFile
    <2>1. pc[t] \in OwnLabels /\ pc[t] \notin {"idle", "recv"} /\ CallInv(t)
      BY <1>1 DEF PsetLock, AdcUnlock, At, OwnLabels, TableInv
    <2>2. Legal(call[t].pno, call[t].value)
      BY <2>1 DEF CallInv
    <2>3. fVal' = [fVal EXCEPT ![call[t].pno] = call[t].value] /\ pointFile' = pointFile
      BY <1>1 DEF PsetLock, AdcUnlock, views
    <2>4. fVal \in [Points -> Int]
      BY <1>0 DEF TypeOK
    <2> QED BY <2>2, <2>3, <2>4
  <1>2. ASSUME NEW t \in Threads PROVE ~MultiVal(t)
    <2>1. CallInv(t)
      BY DEF TableInv
    <2> QED BY <2>1 DEF MultiVal, At, CallInv
  <1>3. ASSUME NEW t \in Threads, Continue(t), ~PsetLock(t), ~AdcUnlock(t) PROVE Same
    BY <1>2, <1>3 DEF Continue, PsetSame, PsetChanged, PsetUnlock, AdcLock, IsHyst, SetPreval,
       NetPush, ElbaPush, UclientPush, CommandEx, table, views
  <1>4. ASSUME NEW t, \/ SetterStep(t) \/ ScannerStep(t) \/ SubioStep(t)
                     \/ ElbaStep(t) \/ Net32Step(t)
        PROVE  Same
    <2>1. CASE SetterStep(t)
      BY <2>1 DEF SetterStep, Set, PReq, PSet, PSetMultiOther, PSetMultiOwn, PSetForward,
         LocalPset, table, views
    <2>2. CASE ScannerStep(t) \/ SubioStep(t)
      BY <2>2 DEF ScannerStep, SubioStep, Sample, table, views
    <2>3. CASE ElbaStep(t)
      BY <2>3 DEF ElbaStep, ElbaSend, ElbaRequest, ElbaCommand, PSet, PSetMultiOther,
         PSetMultiOwn, PSetForward, LocalPset, table, views
    <2>4. CASE Net32Step(t)
      BY <2>4 DEF Net32Step, Net32Loop, Net32Handler, Net32Send, Net32NothingToSend,
         Net32NothingReceived, Net32Report, Net32CommandSame, Net32CommandSet,
         Net32CommandOther, Net32Require, LocalPset, table, views
    <2> QED BY <1>4, <2>1, <2>2, <2>3, <2>4
  <1>5. ASSUME NEW t \in Observers, ObserverStep(t)
        PROVE  /\ fVal'[p] = fVal[p]
               /\ \/ pointFile'[MyPcm][p] = pointFile[MyPcm][p]
                  \/ pointFile'[MyPcm][p] = fVal[p]
    <2>1. PICK x \in Touches[t] : Observe(x[1], x[2])
      BY <1>5 DEF ObserverStep
    <2>2. PICK n, q : n = x[1] /\ q = x[2]
      OBVIOUS
    <2>3. n \in Pcms /\ q \in Points
      BY <2>2 DEF Threads
    <2>4. /\ lock = NoThread
          /\ pointFile' = [pointFile EXCEPT ![n][q] = fExPtbl[n][q]]
          /\ fVal' = IF n = MyPcm THEN [fVal EXCEPT ![q] = fExPtbl[n][q]] ELSE fVal
      BY <2>1, <2>2 DEF Observe
    <2>5. \A u \in Threads : pc[u] \notin Locked
      BY <1>0, <2>4 DEF LockInv
    <2>6. \A r \in Points : fVal[r] = fExPtbl[MyPcm][r]
      BY <1>0, <2>5 DEF AgreeInv
    <2>7. fVal \in [Points -> Int] /\ pointFile \in [Pcms -> [Points -> Int]]
      BY <1>0 DEF TypeOK
    <2>8. fVal'[p] = fVal[p]
      BY <2>3, <2>4, <2>6, <2>7
    <2>9. CASE n = MyPcm /\ q = p
      BY <1>0, <2>3, <2>4, <2>6, <2>7, <2>8, <2>9
    <2>10. CASE n # MyPcm \/ q # p
      <3>1. pointFile'[MyPcm] = IF n = MyPcm
                                THEN [pointFile[MyPcm] EXCEPT ![q] = fExPtbl[n][q]]
                                ELSE pointFile[MyPcm]
        BY <1>0, <2>3, <2>4, <2>7
      <3>2. pointFile[MyPcm] \in [Points -> Int]
        BY <1>0, <2>7
      <3>3. pointFile'[MyPcm][p] = pointFile[MyPcm][p]
        BY <2>10, <3>1, <3>2
      <3> QED BY <2>8, <3>3
    <2> HIDE DEF Same
    <2> QED BY <2>8, <2>9, <2>10
  <1> QED
    <2>1. \/ \E t \in Threads : Continue(t)
          \/ \E t : SetterStep(t) \/ ScannerStep(t) \/ SubioStep(t)
                     \/ ElbaStep(t) \/ Net32Step(t)
          \/ \E t \in Observers : ObserverStep(t)
      BY DEF Next
    <2> QED BY <1>1, <1>3, <1>4, <1>5, <2>1

(* In net32 mode the table and the files never lose a legal value to an    *)
(* illegal one: once written, a point is within its limits for good,       *)
(* although point_table_init takes over what it finds in the files.        *)
THEOREM LimitsStay ==
    ASSUME ~MultiDdc
    PROVE  Spec => LimitsKept
  <1>1. TableInv /\ [Next]_vars => [\A p \in Points : StaysLegal(p)]_vars
    <2> SUFFICES ASSUME TableInv, Next, NEW p \in Points PROVE StaysLegal(p)
      BY DEF vars
    <2>1. /\ fVal'[p] = fVal[p] \/ Legal(p, fVal'[p])
          /\ pointFile'[MyPcm][p] = pointFile[MyPcm][p] \/ pointFile'[MyPcm][p] = fVal[p]
      BY ValueSteps
    <2>2. Legal(p, fVal[p]) \/ pointFile[MyPcm][p] = fVal[p]
      BY DEF TableInv, LimitInv, WithinLimits
    <2>3. Legal(p, fVal[p]) => Legal(p, fVal'[p])
      BY <2>1
    <2>4. Legal(p, pointFile[MyPcm][p]) => Legal(p, pointFile'[MyPcm][p])
      BY <2>1, <2>2
    <2> QED BY <2>3, <2>4 DEF StaysLegal
  <1> QED BY <1>1, TableInvariant, PTL DEF Spec, LimitsKept

-----------------------------------------------------------------------------
\* The threads that sample hardware, and the points they sample.
Samplers == Scanners \cup SubioThreads
Sampled(pcm, p) == /\ pcm = MyPcm /\ p \in Inputs
                   /\ \E t \in Samplers : <<pcm, p>> \in Touches[t]

\* Call c deals with the point.
About(c, pcm, p) == c # NoCall /\ c.pcm = pcm /\ c.pno = p

\* pnt_is_hyst finds nothing to report between two values.
Close(p, v, w) == ~OverHyst(p, v, w)

SampleOps == {"adc", "subio"}
SampleLabels == {"idle", "adc_lock", "adc_val", "hyst", "preval", "net_push", "elba_push",
                 "uclient_push"}

\* Who carries call c at label l, and what for.
Role(t, l, c) ==
    /\ t \notin Observers
    /\ <<c.pcm, c.pno>> \in Touches[t]
    /\ t \in Samplers <=> c.op \in SampleOps
    /\ c.op \in SampleOps => c.pcm = MyPcm /\ c.pno \in Inputs /\ l \in SampleLabels
    /\ l \in {"adc_lock", "adc_val"} => c.op \in SampleOps
    /\ l \in {"compare", "pset_lock", "write_ex"} => c.op = "pset"
    /\ l \in {"hyst", "preval"} => c.op \in SampleOps \cup {"pset"}
    /\ l = "preval" => c.type = "REPORT"
    /\ l = "net_push" /\ c.type = "REPORT" => c.pcm = MyPcm

(* The network will hold what was reported last of p, which is within the  *)
(* hysteresis of f_preval; so is the value, once nobody works on it.       *)
NetTold(p) == p \in lost \/ Close(p, fPreval[p], NetworkWillHold(p))
NetSettled(p) == NetTold(p) /\ (p \in lost \/ Close(p, fPreval[p], fVal[p]))
NetCall(l, c) ==
    LET p == c.pno
    IN /\ l \in {"write_ex", "hyst"} => fVal[p] = c.value /\ NetTold(p)
       /\ l = "preval" => fVal[p] = c.value
       /\ Reporting(l, c) => /\ fVal[p] = c.value
                             /\ p \in lost \/ Close(p, fPreval[p], fVal[p])
       /\ l \notin {"write_ex", "hyst", "preval"} /\ ~Reporting(l, c) => NetSettled(p)

\* The copies of an own point, as AgreeInv has them.
AgreeCall(l, c) ==
    LET p == c.pno
    IN /\ l \notin Locked => fVal[p] = fExPtbl[MyPcm][p]
       /\ l = "write_ex" => fVal[p] = c.value
       /\ l \in {"multi_val", "adc_val"} => fExPtbl[MyPcm][p] = c.value

\* The station will hold the value of the table, of a sampled point one
\* within the hysteresis of f_preval.
StationTold(pcm, p) ==
    \/ <<pcm, p>> \in untold
    \/ IF Sampled(pcm, p) THEN Close(p, fPreval[p], StationWillHold(pcm, p))
                          ELSE StationWillHold(pcm, p) = fExPtbl[pcm][p]

\* What was sampled last of p is within the hysteresis of f_preval, too.
Carried(p) == <<MyPcm, p>> \in untold \/ Close(p, fPreval[p], fVal[p])

\* A value on its way to the station, and a call that will not change it.
Telling(l, c) == \/ l \in {"hyst", "preval", "elba_push", "cmd_ex"}
                 \/ l = "net_push" /\ c.op \in {"pset", "request"}
Passing(l, c) == \/ l \in {"compare", "uclient_push"}
                 \/ l = "net_push" /\ c.op \notin {"pset", "request"}
ExactCall(l, c) ==
    /\ Telling(l, c) => fExPtbl[c.pcm][c.pno] = c.value
    /\ Passing(l, c) => StationTold(c.pcm, c.pno)
SampledCall(l, c) ==
    LET p == c.pno
    IN /\ l \in {"adc_lock", "adc_val", "uclient_push"} => Carried(p)
       /\ l \in {"adc_lock", "adc_val", "uclient_push", "hyst"} => StationTold(MyPcm, p)
       /\ l \in {"hyst", "preval", "net_push", "elba_push"} => fVal[p] = c.value
       /\ l \in {"net_push", "elba_push"} => fPreval[p] = c.value

\* What holds of a point nobody works on, and what of the call that does.
Settled(pcm, p) ==
    /\ pcm = MyPcm => fVal[p] = fExPtbl[MyPcm][p]
    /\ pcm = MyPcm /\ ~MultiDdc => NetSettled(p)
    /\ Sampled(pcm, p) => Carried(p)
    /\ StationTold(pcm, p)
Claim(l, c) ==
    /\ c.pcm = MyPcm => AgreeCall(l, c)
    /\ c.pcm = MyPcm /\ ~MultiDdc => NetCall(l, c)
    /\ IF Sampled(c.pcm, c.pno) THEN SampledCall(l, c) ELSE ExactCall(l, c)

RoleInv(t) == call[t] # NoCall => Role(t, pc[t], call[t])
Follows(pcm, p) ==
    /\ Quiet(pcm, p) => Settled(pcm, p)
    /\ \A t \in Threads : About(call[t], pcm, p) => Claim(pc[t], call[t])
FollowInv == /\ \A t \in Threads : RoleInv(t)
             /\ \A pcm \in Pcms, p \in Points : Sole(pcm, p) => Follows(pcm, p)

-----------------------------------------------------------------------------
\* A step that leaves the values of a point alone, and what its receivers
\* will hold, or one that loses a message about it.
NetKept(p) == p \in lost' \/ (p \notin lost /\ NetworkWillHold(p)' = NetworkWillHold(p))
StationKept(pcm, p) ==
    \/ <<pcm, p>> \in untold'
    \/ <<pcm, p>> \notin untold /\ StationWillHold(pcm, p)' = StationWillHold(pcm, p)
ValuesKept(pcm, p) ==
    /\ fExPtbl'[pcm][p] = fExPtbl[pcm][p]
    /\ pcm = MyPcm => fVal'[p] = fVal[p] /\ fPreval'[p] = fPreval[p]
Kept(pcm, p) == /\ ValuesKept(pcm, p) /\ StationKept(pcm, p)
                /\ pcm = MyPcm => NetKept(p)

LEMMA ToldKept ==
    ASSUME NEW pcm \in Pcms, NEW p \in Points, Kept(pcm, p)
    PROVE  /\ StationTold(pcm, p) => StationTold(pcm, p)'
           /\ pcm = MyPcm /\ NetTold(p) => NetTold(p)'
           /\ pcm = MyPcm /\ Carried(p) => Carried(p)'
           /\ pcm = MyPcm /\ p \in lost => p \in lost'
  BY DEF Kept, ValuesKept, StationKept, NetKept, StationTold, NetTold, Sampled, Carried

LEMMA SettledKept ==
    ASSUME NEW pcm \in Pcms, NEW p \in Points, Kept(pcm, p), Settled(pcm, p)
    PROVE  Settled(pcm, p)'
  <1>1. /\ StationTold(pcm, p) => StationTold(pcm, p)'
        /\ pcm = MyPcm /\ NetTold(p) => NetTold(p)'
        /\ pcm = MyPcm /\ Carried(p) => Carried(p)'
        /\ pcm = MyPcm /\ p \in lost => p \in lost'
    BY ToldKept
  <1>2. ValuesKept(pcm, p) /\ (Sampled(pcm, p) => pcm = MyPcm)
    BY DEF Kept, Sampled
  <1> QED BY <1>1, <1>2 DEF Settled, NetSettled, ValuesKept

LEMMA ClaimKept ==
    ASSUME NEW l, NEW c \in CallRecord, Kept(c.pcm, c.pno), Claim(l, c)
    PROVE  Claim(l, c)'
  <1> DEFINE pcm == c.pcm
             p == c.pno
  <1>0. pcm \in Pcms /\ p \in Points
    BY DEF CallRecord
  <1>1. /\ StationTold(pcm, p) => StationTold(pcm, p)'
        /\ pcm = MyPcm /\ NetTold(p) => NetTold(p)'
        /\ pcm = MyPcm /\ Carried(p) => Carried(p)'
        /\ pcm = MyPcm /\ p \in lost => p \in lost'
    BY <1>0, ToldKept
  <1>2. ValuesKept(pcm, p) /\ (Sampled(pcm, p) => pcm = MyPcm)
    BY DEF Kept, Sampled
  <1>3. pcm = MyPcm /\ AgreeCall(l, c) => AgreeCall(l, c)'
    BY <1>2 DEF AgreeCall, ValuesKept
  <1>4. pcm = MyPcm /\ NetCall(l, c) => NetCall(l, c)'
    BY <1>1, <1>2 DEF NetCall, NetSettled, ValuesKept
  <1>5. Sampled(pcm, p) /\ SampledCall(l, c) => SampledCall(l, c)'
    BY <1>1, <1>2 DEF SampledCall, ValuesKept
  <1>6. ExactCall(l, c) => ExactCall(l, c)'
    BY <1>1, <1>2 DEF ExactCall, ValuesKept
  <1> QED BY <1>3, <1>4, <1>5, <1>6 DEF Claim

(* One thread moves, with a call about one point, and keeps what is said   *)
(* of every other point: it is enough to look at its call, before and      *)
(* after the step, where it alone deals with the point.                    *)
LEMMA FollowStep ==
    ASSUME TypeOK, FollowInv, NEW t \in Threads, NEW l \in Labels,
           NEW c \in CallRecord, GoTo(t, l, c), Role(t, l, c),
           call[t] = NoCall \/ About(call[t], c.pcm, c.pno),
           \A pcm \in Pcms, p \in Points :
              pcm # c.pcm \/ p # c.pno => Kept(pcm, p),
           /\ Sole(c.pcm, c.pno)
           /\ call[t] = NoCall => Settled(c.pcm, c.pno)
           /\ call[t] # NoCall => Claim(pc[t], call[t])
           => IF l = "idle" THEN Settled(c.pcm, c.pno)' ELSE Claim(l, c)'
    PROVE  FollowInv'
  <1>1. /\ pc'[t] = l /\ call'[t] = IF l = "idle" THEN NoCall ELSE c
        /\ \A u \in Threads \ {t} : pc'[u] = pc[u] /\ call'[u] = call[u]
    BY Moved
  <1>2. c.pcm \in Pcms /\ c.pno \in Points /\ c # NoCall
    BY DEF CallRecord, NoCall, Ops
  <1>3. \A u \in Threads : RoleInv(u)'
    <2> SUFFICES ASSUME NEW u \in Threads PROVE RoleInv(u)'
      OBVIOUS
    <2>1. RoleInv(u)
      BY DEF FollowInv
    <2>2. CASE u = t
      BY <1>1, <2>2 DEF RoleInv, Role
    <2>3. CASE u # t
      BY <1>1, <2>1, <2>3 DEF RoleInv, Role
    <2> QED BY <2>2, <2>3
  <1>4. ASSUME NEW pcm \in Pcms, NEW p \in Points, Sole(pcm, p), pcm # c.pcm \/ p # c.pno
        PROVE  Follows(pcm, p)'
    <2>1. Kept(pcm, p) /\ Follows(pcm, p)
      BY <1>4 DEF FollowInv
    <2>2. ~About(call[t], pcm, p) /\ ~About(call'[t], pcm, p)
      BY <1>1, <1>4 DEF About
    <2>3. Quiet(pcm, p)' => Quiet(pcm, p)
      BY <1>1, <2>2 DEF Quiet, About
    <2>4. Quiet(pcm, p)' => Settled(pcm, p)'
      BY <2>1, <2>3, SettledKept DEF Follows
    <2>5. ASSUME NEW u \in Threads, About(call'[u], pcm, p)
          PROVE  Claim(pc[u], call[u])'
      <3>1. u # t /\ pc'[u] = pc[u] /\ call'[u] = call[u]
        BY <1>1, <2>2, <2>5
      <3>2. PICK d, k : d = call[u] /\ k = pc[u]
        OBVIOUS
      <3>3. d \in CallRecord /\ d.pcm = pcm /\ d.pno = p
        BY <2>5, <3>1, <3>2 DEF TypeOK, About
      <3>4. Claim(k, d)
        BY <2>1, <2>5, <3>1, <3>2 DEF Follows
      <3>5. Claim(k, d)'
        BY <2>1, <3>3, <3>4, ClaimKept
      <3> QED BY <3>1, <3>2, <3>5
    <2> QED BY <2>4, <2>5 DEF Follows
  <1>5. ASSUME Sole(c.pcm, c.pno) PROVE Follows(c.pcm, c.pno)'
    <2>1. \A u \in Threads : About(call[u], c.pcm, c.pno) =>
              u \notin Observers /\ <<c.pcm, c.pno>> \in Touches[u]
      BY DEF FollowInv, RoleInv, Role, About
    <2>2. \A u \in Threads \ {t} : ~About(call[u], c.pcm, c.pno)
      BY <1>5, <2>1 DEF Sole, Role
    <2>3. call[t] = NoCall => Quiet(c.pcm, c.pno)
      BY <2>2 DEF Quiet, About
    <2>4. Follows(c.pcm, c.pno)
      BY <1>2, <1>5 DEF FollowInv
    <2>5. IF l = "idle" THEN Settled(c.pcm, c.pno)' ELSE Claim(l, c)'
      BY <1>5, <2>3, <2>4 DEF Follows
    <2>6. \A u \in Threads \ {t} : ~About(call'[u], c.pcm, c.pno)
      BY <1>1, <2>2
    <2>7. Quiet(c.pcm, c.pno)' => l = "idle"
      BY <1>1, <1>2 DEF Quiet, About
    <2>8. l = "idle" => ~About(call'[t], c.pcm, c.pno)
      BY <1>1 DEF About
    <2>9. ASSUME l # "idle" PROVE Claim(pc[t], call[t])'
      BY <1>1, <2>5, <2>9
    <2> QED BY <2>5, <2>6, <2>7, <2>8, <2>9 DEF Follows
  <1> QED BY <1>3, <1>4, <1>5 DEF FollowInv

\* No call begins, goes on or ends.
LEMMA FollowIdle ==
    ASSUME TypeOK, FollowInv,
           \A u \in Threads : /\ call'[u] = call[u]
                              /\ call[u] # NoCall => pc'[u] = pc[u],
           \A pcm \in Pcms, p \in Points : Sole(pcm, p) => Kept(pcm, p)
    PROVE  FollowInv'
  <1>1. \A u \in Threads : RoleInv(u)'
    BY DEF FollowInv, RoleInv, Role
  <1>2. ASSUME NEW pcm \in Pcms, NEW p \in Points, Sole(pcm, p)
        PROVE  Follows(pcm, p)'
    <2>1. Kept(pcm, p) /\ Follows(pcm, p)
      BY <1>2 DEF FollowInv
    <2>2. Quiet(pcm, p)' => Settled(pcm, p)'
      BY <2>1, SettledKept DEF Follows, Quiet
    <2>3. ASSUME NEW u \in Threads, About(call'[u], pcm, p)
          PROVE  Claim(pc[u], call[u])'
      <3>1. pc'[u] = pc[u] /\ call'[u] = call[u]
        BY <2>3 DEF About
      <3>2. PICK d, k : d = call[u] /\ k = pc[u]
        OBVIOUS
      <3>3. d \in CallRecord /\ d.pcm = pcm /\ d.pno = p
        BY <2>3, <3>1, <3>2 DEF TypeOK, About
      <3>4. Claim(k, d)
        BY <2>1, <2>3, <3>1, <3>2 DEF Follows
      <3>5. Claim(k, d)'
        BY <2>1, <3>3, <3>4, ClaimKept
      <3> QED BY <3>1, <3>2, <3>5
    <2> QED BY <2>2, <2>3 DEF Follows
  <1> QED BY <1>1, <1>2 DEF FollowInv

\* Of a point one thread deals with, its samples and nothing else are sampled.
LEMMA SampledBy ==
    ASSUME NEW t \in Threads, NEW l, NEW c \in CallRecord, Role(t, l, c),
           Sole(c.pcm, c.pno)
    PROVE  Sampled(c.pcm, c.pno) <=> c.op \in SampleOps
  <1>1. \A u \in Samplers : u \in Threads /\ u \notin Observers
    BY DEF Samplers, Threads
  <1>2. ASSUME Sampled(c.pcm, c.pno) PROVE c.op \in SampleOps
    <2>1. PICK u \in Samplers : <<c.pcm, c.pno>> \in Touches[u]
      BY <1>2 DEF Sampled
    <2>2. u = t
      BY <1>1, <2>1 DEF Sole, Role
    <2> QED BY <2>1, <2>2 DEF Role
  <1>3. ASSUME c.op \in SampleOps PROVE Sampled(c.pcm, c.pno)
    BY <1>3 DEF Sampled, Role
  <1> QED BY <1>2, <1>3

\* Who carries a call has the role for it.
LEMMA CarriedCall ==
    ASSUME TableInv, FollowInv, NEW t \in Threads, pc[t] \notin {"idle", "recv"}
    PROVE  /\ call[t] \in CallRecord /\ Role(t, pc[t], call[t])
           /\ About(call[t], call[t].pcm, call[t].pno)
           /\ call[t] # NoCall
           /\ pc[t] \in OwnLabels => call[t].pcm = MyPcm
           /\ call[t].op = "command" \/ pc[t] = "multi_val" => MultiDdc
           /\ pc[t] = "cmd_ex" => call[t].op = "command"
  <1>1. CallInv(t) /\ RoleInv(t)
    BY DEF TableInv, FollowInv
  <1>2. call[t] \in CallRecord
    BY <1>1 DEF CallInv
  <1>3. call[t] # NoCall
    BY <1>2 DEF CallRecord, NoCall, Ops
  <1> QED BY <1>1, <1>2, <1>3 DEF CallInv, RoleInv, About

-----------------------------------------------------------------------------
\* The receivers hold what they held where no queue changes.
LEMMA QueuesKept ==
    ASSUME UNCHANGED <<queues, views>>, NEW pcm \in Pcms, NEW p \in Points
    PROVE  NetKept(p) /\ StationKept(pcm, p)
  BY DEF queues, views, NetKept, StationKept, NetworkWillHold, ReportsOf,
         StationWillHold, MessagesOf

LEMMA AllKept ==
    ASSUME UNCHANGED <<table, queues, views>>, NEW pcm \in Pcms, NEW p \in Points
    PROVE  Kept(pcm, p)
  BY QueuesKept DEF Kept, ValuesKept, table

\* One value of a table with a row for every node.
LEMMA OneValue ==
    ASSUME NEW f \in [Pcms -> [Points -> Int]], NEW n \in Pcms, NEW q \in Points, NEW v,
           NEW pcm \in Pcms, NEW p \in Points
    PROVE  [f EXCEPT ![n][q] = v][pcm][p] = IF pcm = n /\ p = q THEN v ELSE f[pcm][p]
  <1>1. f[n] \in [Points -> Int]
    OBVIOUS
  <1>2. [f EXCEPT ![n][q] = v] = [f EXCEPT ![n] = [f[n] EXCEPT ![q] = v]]
    OBVIOUS
  <1> QED BY <1>1, <1>2

\* One value of one point changes.
LEMMA OthersAreKept ==
    ASSUME TypeOK, UNCHANGED <<queues, views>>,
           NEW pc0 \in Pcms, NEW p0 \in Points, NEW v,
           \/ /\ fExPtbl' = [fExPtbl EXCEPT ![pc0][p0] = v]
              /\ UNCHANGED <<fVal, fPreval>>
           \/ /\ pc0 = MyPcm /\ fVal' = [fVal EXCEPT ![p0] = v]
              /\ UNCHANGED <<fExPtbl, fPreval>>
           \/ /\ pc0 = MyPcm /\ fPreval' = [fPreval EXCEPT ![p0] = v]
              /\ UNCHANGED <<fExPtbl, fVal>>
    PROVE  \A pcm \in Pcms, p \in Points : pcm # pc0 \/ p # p0 => Kept(pcm, p)
  <1> SUFFICES ASSUME NEW pcm \in Pcms, NEW p \in Points, pcm # pc0 \/ p # p0
               PROVE  Kept(pcm, p)
    OBVIOUS
  <1>1. fExPtbl \in [Pcms -> [Points -> Int]] /\ fVal \in [Points -> Int]
        /\ fPreval \in [Points -> Int] /\ MyPcm \in Pcms
    BY DEF TypeOK
  <1>2. [fExPtbl EXCEPT ![pc0][p0] = v][pcm][p] = fExPtbl[pcm][p]
    BY <1>1, OneValue
  <1>3. ValuesKept(pcm, p)
    BY <1>1, <1>2 DEF ValuesKept
  <1> QED BY <1>3, QueuesKept DEF Kept

\* What a push to the network does to what the other nodes will hold.
LEMMA NetPushed ==
    ASSUME TypeOK, TypeOK', NEW t \in Threads, NEW c \in CallRecord, c = call[t], NetPush(t)
    PROVE  /\ \A p \in Points : p # c.pno \/ c.type # "REPORT" => NetKept(p)
           /\ c.type = "REPORT" => c.pno \in lost' \/ NetworkWillHold(c.pno)' = c.value
           /\ c.type = "REPORT" /\ c.pno \in lost
                 => c.pno \in lost' \/ Close(c.pno, fPreval[c.pno], c.value)
           /\ \A pcm \in Pcms, p \in Points : StationKept(pcm, p) /\ ValuesKept(pcm, p)
  <1> DEFINE m == [type |-> c.type, pcm |-> c.pcm, pno |-> c.pno, value |-> c.value]
             fits == Len(net32Queue) < Net32Capacity
             strays == c.pno \in lost /\ OverHyst(c.pno, fPreval[c.pno], c.value)
  <1>1. m \in MessageType /\ c.pno \in Points
    BY MessageOfCall DEF CallRecord
  <1>2. /\ net32Queue' = IF fits THEN Append(net32Queue, m) ELSE net32Queue
        /\ lost' = IF c.type # "REPORT" \/ strays THEN lost
                   ELSE IF fits THEN lost \ {c.pno} ELSE lost \cup {c.pno}
        /\ UNCHANGED <<table, elbaQueue, uclientQueue, netView, stationView, pointFile, untold>>
    BY DEF NetPush, Push, Missed
  <1>3. net32Queue \in Seq(MessageType)
    BY DEF TypeOK
  <1>4. ASSUME NEW p \in Points
        PROVE  m \in ReportsIn(p) <=> c.type = "REPORT" /\ p = c.pno
    BY <1>1 DEF ReportsIn
  <1>5. m.value = c.value
    OBVIOUS
  <1>s. strays => c.pno \in lost
    OBVIOUS
  <1>t. c.pno \in lost /\ ~Close(c.pno, fPreval[c.pno], c.value) => strays
    BY DEF Close
  <1> HIDE DEF m, fits, strays
  <1>6. ASSUME NEW p \in Points, fits
        PROVE  NetworkWillHold(p)' = IF m \in ReportsIn(p) THEN m.value ELSE NetworkWillHold(p)
    <2>1. WillHold(Append(net32Queue, m), ReportsIn(p), netView[p])
             = IF m \in ReportsIn(p) THEN m.value
               ELSE WillHold(net32Queue, ReportsIn(p), netView[p])
      BY <1>1, <1>3, WillHoldAppend
    <2> QED BY <1>2, <1>6, <2>1, NetworkHolds
  <1>7. ASSUME NEW p \in Points, ~fits
        PROVE  NetworkWillHold(p)' = NetworkWillHold(p)
    BY <1>2, <1>7, NetworkHolds
  <1>8. \A pcm \in Pcms, p \in Points : StationKept(pcm, p) /\ ValuesKept(pcm, p)
    BY <1>2 DEF StationKept, ValuesKept, StationWillHold, MessagesOf, table
  <1>9. ASSUME NEW p \in Points, p # c.pno \/ c.type # "REPORT" PROVE NetKept(p)
    BY <1>2, <1>s, <1>4, <1>6, <1>7, <1>9 DEF NetKept
  <1>10. c.type = "REPORT" => c.pno \in lost' \/ NetworkWillHold(c.pno)' = c.value
    BY <1>1, <1>2, <1>s, <1>4, <1>5, <1>6
  <1>11. c.type = "REPORT" /\ c.pno \in lost
            => c.pno \in lost' \/ Close(c.pno, fPreval[c.pno], c.value)
    BY <1>2, <1>s, <1>t
  <1> QED BY <1>8, <1>9, <1>10, <1>11

LEMMA ElbaPushed ==
    ASSUME TypeOK, TypeOK', NEW t \in Threads, NEW c \in CallRecord, c = call[t], ElbaPush(t)
    PROVE  /\ \A pcm \in Pcms, p \in Points : pcm # c.pcm \/ p # c.pno => StationKept(pcm, p)
           /\ \/ <<c.pcm, c.pno>> \in untold'
              \/ StationWillHold(c.pcm, c.pno)' = c.value
           /\ \A pcm \in Pcms, p \in Points : NetKept(p) /\ ValuesKept(pcm, p)
  <1> DEFINE m == PointOf(c)
             fits == Len(elbaQueue) < ElbaCapacity
  <1>1. m \in PointType /\ c.pno \in Points /\ c.pcm \in Pcms
    BY MessageOfCall DEF CallRecord
  <1>2. /\ elbaQueue' = IF fits THEN Append(elbaQueue, m) ELSE elbaQueue
        /\ untold' = IF fits THEN untold \ {<<c.pcm, c.pno>>}
                             ELSE untold \cup {<<c.pcm, c.pno>>}
        /\ UNCHANGED <<table, net32Queue, uclientQueue, netView, stationView, pointFile, lost>>
    BY DEF ElbaPush, Push, Missed
  <1>3. elbaQueue \in Seq(PointType)
    BY DEF TypeOK
  <1>4. ASSUME NEW pcm \in Pcms, NEW p \in Points
        PROVE  m \in NewsIn(pcm, p) <=> pcm = c.pcm /\ p = c.pno
    BY <1>1 DEF NewsIn, PointOf
  <1>5. m.value = c.value
    BY DEF PointOf
  <1> HIDE DEF m, fits
  <1>6. ASSUME NEW pcm \in Pcms, NEW p \in Points, fits
        PROVE  StationWillHold(pcm, p)'
                  = IF m \in NewsIn(pcm, p) THEN m.value ELSE StationWillHold(pcm, p)
    <2>1. WillHold(Append(elbaQueue, m), NewsIn(pcm, p), stationView[pcm][p])
             = IF m \in NewsIn(pcm, p) THEN m.value
               ELSE WillHold(elbaQueue, NewsIn(pcm, p), stationView[pcm][p])
      BY <1>1, <1>3, WillHoldAppend
    <2> QED BY <1>2, <1>6, <2>1, StationHolds
  <1>7. ASSUME NEW pcm \in Pcms, NEW p \in Points, ~fits
        PROVE  StationWillHold(pcm, p)' = StationWillHold(pcm, p)
    BY <1>2, <1>7, StationHolds
  <1>8. \A pcm \in Pcms, p \in Points : NetKept(p) /\ ValuesKept(pcm, p)
    BY <1>2 DEF NetKept, ValuesKept, NetworkWillHold, ReportsOf, table
  <1>9. ASSUME NEW pcm \in Pcms, NEW p \in Points, pcm # c.pcm \/ p # c.pno
        PROVE  StationKept(pcm, p)
    BY <1>2, <1>4, <1>6, <1>7, <1>9 DEF StationKept
  <1>10. \/ <<c.pcm, c.pno>> \in untold'
         \/ StationWillHold(c.pcm, c.pno)' = c.value
    BY <1>1, <1>2, <1>4, <1>5, <1>6
  <1> QED BY <1>8, <1>9, <1>10

\* What is popped has been told, or is lost if it was the last.
LEMMA Net32Sent ==
    ASSUME TypeOK, TypeOK', NEW t \in Threads, Net32Send(t)
    PROVE  \A pcm \in Pcms, p \in Points : Kept(pcm, p)
  <1> DEFINE m == Head(net32Queue)
  <1>1. /\ net32Queue \in Seq(MessageType) /\ net32Queue # << >>
        /\ net32Queue' = Tail(net32Queue)
        /\ UNCHANGED <<table, elbaQueue, uclientQueue, stationView, pointFile, untold>>
    BY DEF Net32Send, TypeOK
  <1>2. m \in MessageType /\ m.pno \in Points
    <2>1. m \in MessageType
      BY <1>1
    <2> HIDE DEF m
    <2> QED BY <2>1 DEF MessageType
  <1>3. \A p \in Points : m \in ReportsIn(p) <=> m.type = "REPORT" /\ p = m.pno
    BY <1>2 DEF ReportsIn
  <1>4. ASSUME NEW p \in Points,
               \E i \in 2 .. Len(net32Queue) :
                    net32Queue[i].type = "REPORT" /\ net32Queue[i].pno = p
        PROVE  \E i \in 2 .. Len(net32Queue) : net32Queue[i] \in ReportsIn(p)
    <2>1. \A i \in 2 .. Len(net32Queue) : net32Queue[i] \in MessageType
      BY <1>1
    <2> QED BY <1>4, <2>1 DEF ReportsIn
  <1>5. ASSUME NEW p \in Points PROVE NetKept(p)
    <2>1. CASE \/ m \notin ReportsIn(p) /\ netView'[p] = netView[p]
               \/ m \in ReportsIn(p) /\ netView'[p] = m.value
               \/ \E i \in 2 .. Len(net32Queue) : net32Queue[i] \in ReportsIn(p)
      <3>1. WillHold(Tail(net32Queue), ReportsIn(p), netView'[p])
               = WillHold(net32Queue, ReportsIn(p), netView[p])
        BY <1>1, <2>1, WillHoldTail
      <3>2. NetworkWillHold(p)' = NetworkWillHold(p)
        BY <1>1, <3>1, NetworkHolds
      <3>3. p \in lost => p \in lost'
        BY DEF Net32Send
      <3> QED BY <3>2, <3>3 DEF NetKept
    <2>2. CASE /\ \/ m \in ReportsIn(p) \/ netView'[p] # netView[p]
               /\ m \notin ReportsIn(p) \/ netView'[p] # m.value
               /\ ~\E i \in 2 .. Len(net32Queue) : net32Queue[i] \in ReportsIn(p)
      <3>1. \/ netView' = IF m.type = "REPORT" THEN [netView EXCEPT ![m.pno] = m.value]
                                               ELSE netView
            \/ netView' = netView
        BY DEF Net32Send
      <3>2. m \in ReportsIn(p) /\ netView'[p] # m.value
        BY <1>2, <1>3, <2>2, <3>1 DEF TypeOK
      <3>3. p = m.pno /\ m.type = "REPORT"
        BY <1>3, <3>2
      <3>4. p \in lost'
        <4>1. ~\E i \in 2 .. Len(net32Queue) :
                  net32Queue[i].type = "REPORT" /\ net32Queue[i].pno = m.pno
          BY <1>4, <2>2, <3>3
        <4>2. netView' # [netView EXCEPT ![m.pno] = m.value]
          BY <3>2, <3>3 DEF TypeOK
        <4> QED BY <3>3, <4>1, <4>2 DEF Net32Send
      <3> QED BY <3>4 DEF NetKept
    <2> QED BY <2>1, <2>2
  <1>6. \A pcm \in Pcms, p \in Points : StationKept(pcm, p) /\ ValuesKept(pcm, p)
    BY <1>1 DEF StationKept, ValuesKept, StationWillHold, MessagesOf, table
  <1> QED BY <1>5, <1>6 DEF Kept

LEMMA ElbaSent ==
    ASSUME TypeOK, TypeOK', NEW t \in Threads, ElbaSend(t)
    PROVE  \A pcm \in Pcms, p \in Points : Kept(pcm, p)
  <1> DEFINE m == Head(elbaQueue)
  <1>1. /\ elbaQueue \in Seq(PointType) /\ elbaQueue # << >>
        /\ elbaQueue' = Tail(elbaQueue)
        /\ UNCHANGED <<table, net32Queue, uclientQueue, netView, pointFile, lost>>
    BY DEF ElbaSend, TypeOK
  <1>2. m \in PointType /\ m.pno \in Points /\ m.pcm \in Pcms
    <2>1. m \in PointType
      BY <1>1
    <2> HIDE DEF m
    <2> QED BY <2>1 DEF PointType
  <1>3. \A pcm \in Pcms, p \in Points : m \in NewsIn(pcm, p) <=> pcm = m.pcm /\ p = m.pno
    BY <1>2 DEF NewsIn
  <1>4. ASSUME NEW pcm \in Pcms, NEW p \in Points,
               \E i \in 2 .. Len(elbaQueue) :
                    elbaQueue[i].pcm = pcm /\ elbaQueue[i].pno = p
        PROVE  \E i \in 2 .. Len(elbaQueue) : elbaQueue[i] \in NewsIn(pcm, p)
    <2>1. \A i \in 2 .. Len(elbaQueue) : elbaQueue[i] \in PointType
      BY <1>1
    <2> QED BY <1>4, <2>1 DEF NewsIn
  <1>5. ASSUME NEW pcm \in Pcms, NEW p \in Points PROVE StationKept(pcm, p)
    <2> DEFINE told == stationView'[pcm][p]
    <2>1. CASE \/ m \notin NewsIn(pcm, p) /\ told = stationView[pcm][p]
               \/ m \in NewsIn(pcm, p) /\ told = m.value
               \/ \E i \in 2 .. Len(elbaQueue) : elbaQueue[i] \in NewsIn(pcm, p)
      <3>1. WillHold(Tail(elbaQueue), NewsIn(pcm, p), told)
               = WillHold(elbaQueue, NewsIn(pcm, p), stationView[pcm][p])
        <4> HIDE DEF told
        <4> QED BY <1>1, <2>1, WillHoldTail
      <3>2. StationWillHold(pcm, p)' = StationWillHold(pcm, p)
        BY <1>1, <3>1, StationHolds
      <3>3. <<pcm, p>> \in untold => <<pcm, p>> \in untold'
        BY DEF ElbaSend
      <3> QED BY <3>2, <3>3 DEF StationKept
    <2>2. CASE /\ \/ m \in NewsIn(pcm, p) \/ told # stationView[pcm][p]
               /\ m \notin NewsIn(pcm, p) \/ told # m.value
               /\ ~\E i \in 2 .. Len(elbaQueue) : elbaQueue[i] \in NewsIn(pcm, p)
      <3>1. \/ stationView' = [stationView EXCEPT ![m.pcm][m.pno] = m.value]
            \/ stationView' = stationView
        BY DEF ElbaSend
      <3>2. m \in NewsIn(pcm, p) /\ told # m.value
        <4>1. stationView \in [Pcms -> [Points -> Int]]
          BY DEF TypeOK
        <4>2. [stationView EXCEPT ![m.pcm][m.pno] = m.value][pcm][p]
                 = IF pcm = m.pcm /\ p = m.pno THEN m.value ELSE stationView[pcm][p]
          BY <1>2, <4>1, OneValue
        <4> HIDE DEF m
        <4>3. told = stationView[pcm][p] \/ (pcm = m.pcm /\ p = m.pno /\ told = m.value)
          BY <3>1, <4>2
        <4> QED BY <1>3, <2>2, <4>3
      <3>3. p = m.pno /\ pcm = m.pcm
        BY <1>3, <3>2
      <3>4. <<pcm, p>> \in untold'
        <4>1. ~\E i \in 2 .. Len(elbaQueue) :
                  elbaQueue[i].pcm = m.pcm /\ elbaQueue[i].pno = m.pno
          BY <1>4, <2>2, <3>3
        <4>2. stationView' # [stationView EXCEPT ![m.pcm][m.pno] = m.value]
          <5>1. stationView \in [Pcms -> [Points -> Int]]
            BY DEF TypeOK
          <5>2. [stationView EXCEPT ![m.pcm][m.pno] = m.value][pcm][p] = m.value
            BY <1>2, <3>3, <5>1, OneValue
          <5> QED BY <3>2, <5>2
        <4> QED BY <3>3, <4>1, <4>2 DEF ElbaSend
      <3> QED BY <3>4 DEF StationKept
    <2> QED BY <2>1, <2>2
  <1>6. \A pcm \in Pcms, p \in Points : NetKept(p) /\ ValuesKept(pcm, p)
    BY <1>1 DEF NetKept, ValuesKept, NetworkWillHold, ReportsOf, table
  <1> QED BY <1>5, <1>6 DEF Kept

\* A call goes on: what is claimed of it follows from what was.
LEMMA GoOn ==
    ASSUME TableInv, FollowInv, NEW t \in Threads, pc[t] \notin {"idle", "recv"},
           NEW k, NEW c, k = pc[t], c = call[t],
           NEW l \in Labels, NEW d \in CallRecord, d.pcm = c.pcm, d.pno = c.pno,
           GoTo(t, l, d), Role(t, l, d),
           \A pcm \in Pcms, p \in Points :
              pcm # c.pcm \/ p # c.pno => Kept(pcm, p),
           /\ Sampled(c.pcm, c.pno) <=> c.op \in SampleOps
           /\ Claim(k, c)
           => IF l = "idle" THEN Settled(c.pcm, c.pno)' ELSE Claim(l, d)'
    PROVE  FollowInv'
  <1>1. /\ c \in CallRecord /\ Role(t, k, c) /\ About(c, c.pcm, c.pno) /\ c # NoCall
        /\ TypeOK
    BY CarriedCall DEF TableInv
  <1>2. Sole(c.pcm, c.pno) => (Sampled(c.pcm, c.pno) <=> c.op \in SampleOps)
    BY <1>1, SampledBy
  <1> QED BY <1>1, <1>2, FollowStep

LEMMA GoOnQuiet ==
    ASSUME TableInv, FollowInv, NEW t \in Threads, pc[t] \notin {"idle", "recv"},
           NEW k, NEW c, k = pc[t], c = call[t],
           NEW l \in Labels, NEW d \in CallRecord, d.pcm = c.pcm, d.pno = c.pno,
           GoTo(t, l, d), Role(t, l, d), UNCHANGED <<table, queues, views>>,
           /\ Sampled(c.pcm, c.pno) <=> c.op \in SampleOps
           /\ Claim(k, c)
           => IF l = "idle" THEN Settled(c.pcm, c.pno) ELSE Claim(l, d)
    PROVE  FollowInv'
  <1>1. \A pcm \in Pcms, p \in Points : Kept(pcm, p)
    BY AllKept
  <1>2. c.pcm \in Pcms /\ c.pno \in Points
    BY DEF CallRecord
  <1>3. Settled(c.pcm, c.pno) => Settled(c.pcm, c.pno)'
    BY <1>1, <1>2, SettledKept
  <1>4. Claim(l, d) => Claim(l, d)'
    BY <1>1, <1>2, ClaimKept
  <1> QED BY <1>1, <1>3, <1>4, GoOn

\* A call begins at a point that is settled, if one thread alone deals with it.
LEMMA Begin ==
    ASSUME TableInv, FollowInv, NEW t \in Threads, pc[t] \in {"idle", "recv"},
           NEW l \in Labels, NEW c \in CallRecord, GoTo(t, l, c), Role(t, l, c),
           \A pcm \in Pcms, p \in Points :
              pcm # c.pcm \/ p # c.pno => Kept(pcm, p),
           /\ Sampled(c.pcm, c.pno) <=> c.op \in SampleOps
           /\ Settled(c.pcm, c.pno)
           => IF l = "idle" THEN Settled(c.pcm, c.pno)' ELSE Claim(l, c)'
    PROVE  FollowInv'
  <1>1. call[t] = NoCall /\ TypeOK
    BY DEF TableInv, CallInv
  <1>2. Sole(c.pcm, c.pno) => (Sampled(c.pcm, c.pno) <=> c.op \in SampleOps)
    BY SampledBy
  <1> QED BY <1>1, <1>2, FollowStep

LEMMA BeginQuiet ==
    ASSUME TableInv, FollowInv, NEW t \in Threads, pc[t] \in {"idle", "recv"},
           NEW l \in Labels, NEW c \in CallRecord, GoTo(t, l, c), Role(t, l, c),
           UNCHANGED <<table, queues, views>>,
           l \in {"idle", "compare", "adc_lock", "net_push", "uclient_push"},
           l = "adc_lock" <=> c.op \in SampleOps,
           Settled(c.pcm, c.pno) =>
              /\ Reporting(l, c) /\ c.pcm = MyPcm => c.value = fVal[c.pno]
              /\ Telling(l, c) => c.value = fExPtbl[c.pcm][c.pno]
    PROVE  FollowInv'
  <1>1. \A pcm \in Pcms, p \in Points : Kept(pcm, p)
    BY AllKept
  <1>2. c.pcm \in Pcms /\ c.pno \in Points
    BY DEF CallRecord
  <1>3. Settled(c.pcm, c.pno) => Settled(c.pcm, c.pno)'
    BY <1>1, <1>2, SettledKept
  <1>4. Claim(l, c) => Claim(l, c)'
    BY <1>1, <1>2, ClaimKept
  <1>5. ASSUME Settled(c.pcm, c.pno), l # "idle",
               Sampled(c.pcm, c.pno) <=> c.op \in SampleOps
        PROVE  Claim(l, c)
    <2>1. c.pcm = MyPcm => AgreeCall(l, c)
      BY <1>5 DEF Settled, AgreeCall
    <2>2. c.pcm = MyPcm /\ ~MultiDdc => NetCall(l, c)
      BY <1>5 DEF Settled, NetCall, NetSettled, Reporting
    <2>3. CASE Sampled(c.pcm, c.pno)
      BY <1>5, <2>1, <2>2, <2>3 DEF Settled, Claim, SampledCall, Carried, Sampled
    <2>4. CASE ~Sampled(c.pcm, c.pno)
      BY <1>5, <2>1, <2>2, <2>4 DEF Settled, Claim, ExactCall
    <2> QED BY <2>3, <2>4
  <1> QED BY <1>1, <1>3, <1>4, <1>5, Begin

\* The type of a call that goes on.
-----------------------------------------------------------------------------
LEMMA PsetCompareFollows ==
    ASSUME TableInv, FollowInv, NEW t \in Threads, PsetSame(t) \/ PsetChanged(t)
    PROVE  FollowInv'
  <1>1. pc[t] = "compare" /\ UNCHANGED <<table, queues, views>>
    BY DEF PsetSame, PsetChanged, At
  <1>2. PICK c : c = call[t]
    OBVIOUS
  <1>3. PICK l : /\ (l = "elba_push" /\ fVal[c.pno] = c.value) \/ l = "pset_lock"
                 /\ GoTo(t, l, c)
    BY <1>2 DEF PsetSame, PsetChanged, Stay
  <1>4. c \in CallRecord /\ Role(t, "compare", c) /\ c.pcm = MyPcm
    BY <1>1, <1>2, CarriedCall DEF OwnLabels
  <1>5. l \in Labels /\ Role(t, l, c)
    BY <1>3, <1>4 DEF Role, Labels, SampleOps
  <1>6. ASSUME Sampled(c.pcm, c.pno) <=> c.op \in SampleOps, Claim("compare", c)
        PROVE  Claim(l, c)
    BY <1>3, <1>4, <1>6 DEF Claim, AgreeCall, NetCall, ExactCall, Telling, Passing,
       Reporting, Locked, Role, SampleOps
  <1>7. l # "idle"
    BY <1>3
  <1> QED BY <1>1, <1>2, <1>3, <1>4, <1>5, <1>6, <1>7, GoOnQuiet

LEMMA PsetLockFollows ==
    ASSUME TableInv, FollowInv, NEW t \in Threads, PsetLock(t)
    PROVE  FollowInv'
  <1>1. pc[t] = "pset_lock" /\ UNCHANGED <<fPreval, fExPtbl, queues, views>>
    BY DEF PsetLock, At
  <1>2. PICK c : c = call[t]
    OBVIOUS
  <1>3. GoTo(t, "write_ex", c) /\ fVal' = [fVal EXCEPT ![c.pno] = c.value]
    BY <1>2 DEF PsetLock, Stay
  <1>4. /\ c \in CallRecord /\ Role(t, "pset_lock", c) /\ c.pcm = MyPcm /\ TypeOK
        /\ c.pno \in Points
    BY <1>1, <1>2, CarriedCall DEF OwnLabels, TableInv, CallRecord
  <1>5. "write_ex" \in Labels /\ Role(t, "write_ex", c)
    BY <1>4 DEF Role, Labels, SampleOps
  <1>6. \A pcm \in Pcms, p \in Points : pcm # c.pcm \/ p # c.pno => Kept(pcm, p)
    BY <1>1, <1>3, <1>4, OthersAreKept
  <1>7. ASSUME Sampled(c.pcm, c.pno) <=> c.op \in SampleOps, Claim("pset_lock", c)
        PROVE  Claim("write_ex", c)'
    <2>1. fVal'[c.pno] = c.value
      BY <1>3, <1>4 DEF TypeOK
    <2>2. ~Sampled(c.pcm, c.pno)
      BY <1>4, <1>7 DEF Role, SampleOps
    <2>3. NetTold(c.pno) => NetTold(c.pno)'
      BY <1>1, <1>4, QueuesKept DEF NetTold, NetKept
    <2> QED BY <1>7, <2>1, <2>2, <2>3
        DEF Claim, AgreeCall, NetCall, NetSettled, ExactCall, Telling, Passing,
            Reporting, Locked, Sampled
  <1> QED BY <1>1, <1>2, <1>3, <1>4, <1>5, <1>6, <1>7, GoOn

LEMMA PsetUnlockFollows ==
    ASSUME TableInv, FollowInv, NEW t \in Threads, PsetUnlock(t)
    PROVE  FollowInv'
  <1>1. pc[t] = "write_ex" /\ UNCHANGED <<fVal, fPreval, queues, views>>
    BY DEF PsetUnlock, At
  <1>2. PICK c : c = call[t]
    OBVIOUS
  <1>3. GoTo(t, "hyst", c) /\ fExPtbl' = [fExPtbl EXCEPT ![MyPcm][c.pno] = c.value]
    BY <1>2 DEF PsetUnlock, Stay
  <1>4. /\ c \in CallRecord /\ Role(t, "write_ex", c) /\ c.pcm = MyPcm /\ TypeOK
        /\ c.pno \in Points
    BY <1>1, <1>2, CarriedCall DEF OwnLabels, TableInv, CallRecord
  <1>5. "hyst" \in Labels /\ Role(t, "hyst", c)
    BY <1>4 DEF Role, Labels, SampleOps
  <1>6. \A pcm \in Pcms, p \in Points : pcm # c.pcm \/ p # c.pno => Kept(pcm, p)
    BY <1>1, <1>3, <1>4, OthersAreKept
  <1>7. ASSUME Sampled(c.pcm, c.pno) <=> c.op \in SampleOps, Claim("write_ex", c)
        PROVE  Claim("hyst", c)'
    <2>1. fExPtbl'[MyPcm][c.pno] = c.value
      BY <1>3, <1>4, OneValue DEF TypeOK
    <2>2. ~Sampled(c.pcm, c.pno)
      BY <1>4, <1>7 DEF Role, SampleOps
    <2>3. NetTold(c.pno) => NetTold(c.pno)'
      BY <1>1, <1>4, QueuesKept DEF NetTold, NetKept
    <2> QED BY <1>1, <1>4, <1>7, <2>1, <2>2, <2>3
        DEF Claim, AgreeCall, NetCall, NetSettled, ExactCall, Telling, Passing,
            Reporting, Locked, Sampled
  <1> QED BY <1>1, <1>2, <1>3, <1>4, <1>5, <1>6, <1>7, GoOn

LEMMA AdcLockFollows ==
    ASSUME TableInv, FollowInv, NEW t \in Threads, AdcLock(t)
    PROVE  FollowInv'
  <1>1. pc[t] = "adc_lock" /\ UNCHANGED <<fVal, fPreval, queues, views>>
    BY DEF AdcLock, At
  <1>2. PICK c : c = call[t]
    OBVIOUS
  <1>3. GoTo(t, "adc_val", c) /\ fExPtbl' = [fExPtbl EXCEPT ![MyPcm][c.pno] = c.value]
    BY <1>2 DEF AdcLock, Stay
  <1>4. /\ c \in CallRecord /\ Role(t, "adc_lock", c) /\ c.pcm = MyPcm /\ TypeOK
        /\ c.pno \in Points
    BY <1>1, <1>2, CarriedCall DEF OwnLabels, TableInv, CallRecord
  <1>5. "adc_val" \in Labels /\ Role(t, "adc_val", c)
    BY <1>4 DEF Role, Labels, SampleOps, SampleLabels
  <1>6. \A pcm \in Pcms, p \in Points : pcm # c.pcm \/ p # c.pno => Kept(pcm, p)
    BY <1>1, <1>3, <1>4, OthersAreKept
  <1>7. ASSUME Sampled(c.pcm, c.pno) <=> c.op \in SampleOps, Claim("adc_lock", c)
        PROVE  Claim("adc_val", c)'
    <2>1. fExPtbl'[MyPcm][c.pno] = c.value
      BY <1>3, <1>4, OneValue DEF TypeOK
    <2>2. Sampled(c.pcm, c.pno)
      BY <1>4, <1>7 DEF Role, SampleOps
    <2>3. /\ NetTold(c.pno) => NetTold(c.pno)'
          /\ StationTold(MyPcm, c.pno) => StationTold(MyPcm, c.pno)'
          /\ UNCHANGED <<lost, untold>>
      BY <1>1, <1>4, <2>2, QueuesKept
      DEF NetTold, NetKept, StationTold, StationKept, Sampled, views
    <2>4. AgreeCall("adc_val", c)'
      BY <1>1, <2>1 DEF AgreeCall, Locked
    <2>5. ~MultiDdc => NetCall("adc_val", c)'
      BY <1>1, <1>4, <1>7, <2>3 DEF Claim, NetCall, NetSettled, Reporting
    <2>6. SampledCall("adc_val", c)'
      BY <1>1, <1>4, <1>7, <2>2, <2>3 DEF Claim, SampledCall, Carried
    <2> QED BY <2>2, <2>4, <2>5, <2>6 DEF Claim, Sampled
  <1> QED BY <1>1, <1>2, <1>3, <1>4, <1>5, <1>6, <1>7, GoOn

LEMMA AdcUnlockFollows ==
    ASSUME TableInv, FollowInv, NEW t \in Threads, AdcUnlock(t)
    PROVE  FollowInv'
  <1>1. pc[t] = "adc_val" /\ UNCHANGED <<fExPtbl, fPreval, queues, views>>
    BY DEF AdcUnlock, At
  <1>2. PICK c : c = call[t]
    OBVIOUS
  <1>3. GoTo(t, "hyst", c) /\ fVal' = [fVal EXCEPT ![c.pno] = c.value]
    BY <1>2 DEF AdcUnlock, Stay
  <1>4. /\ c \in CallRecord /\ Role(t, "adc_val", c) /\ c.pcm = MyPcm /\ TypeOK
        /\ c.pno \in Points
    BY <1>1, <1>2, CarriedCall DEF OwnLabels, TableInv, CallRecord
  <1>5. "hyst" \in Labels /\ Role(t, "hyst", c)
    BY <1>4 DEF Role, Labels, SampleOps, SampleLabels
  <1>6. \A pcm \in Pcms, p \in Points : pcm # c.pcm \/ p # c.pno => Kept(pcm, p)
    BY <1>1, <1>3, <1>4, OthersAreKept
  <1>7. ASSUME Sampled(c.pcm, c.pno) <=> c.op \in SampleOps, Claim("adc_val", c)
        PROVE  Claim("hyst", c)'
    <2>1. fVal'[c.pno] = c.value
      BY <1>3, <1>4 DEF TypeOK
    <2>2. Sampled(c.pcm, c.pno)
      BY <1>4, <1>7 DEF Role, SampleOps
    <2>3. /\ NetTold(c.pno) => NetTold(c.pno)'
          /\ StationTold(MyPcm, c.pno) => StationTold(MyPcm, c.pno)'
      BY <1>1, <1>4, <2>2, QueuesKept DEF NetTold, NetKept, StationTold, StationKept, Sampled
    <2> QED BY <1>1, <1>4, <1>7, <2>1, <2>2, <2>3
        DEF Claim, AgreeCall, NetCall, NetSettled, SampledCall, Carried, Reporting, Locked, Sampled
  <1> QED BY <1>1, <1>2, <1>3, <1>4, <1>5, <1>6, <1>7, GoOn

LEMMA IsHystFollows ==
    ASSUME TableInv, FollowInv, NEW t \in Threads, IsHyst(t)
    PROVE  FollowInv'
  <1>1. pc[t] = "hyst" /\ UNCHANGED <<table, queues, views>>
    BY DEF IsHyst, At
  <1>2. PICK c : c = call[t]
    OBVIOUS
  <1>3. /\ c \in CallRecord /\ Role(t, "hyst", c) /\ c.pcm = MyPcm
    BY <1>1, <1>2, CarriedCall DEF OwnLabels
  <1> DEFINE d == [c EXCEPT !.type = "REPORT"]
             over == OverHyst(c.pno, fPreval[c.pno], c.value)
             l == IF over THEN "preval" ELSE IF c.op = "pset" THEN "elba_push" ELSE "idle"
  <1>4. GoTo(t, l, d)
    BY <1>2 DEF IsHyst
  <1>5. /\ d \in CallRecord /\ d.pcm = c.pcm /\ d.pno = c.pno /\ d.op = c.op
        /\ d.value = c.value /\ d.type = "REPORT"
    BY <1>3 DEF CallRecord, MessageTypes
  <1>6. over <=> ~Close(c.pno, fPreval[c.pno], c.value)
    BY DEF Close
  <1>7. l = IF over THEN "preval" ELSE IF c.op = "pset" THEN "elba_push" ELSE "idle"
    OBVIOUS
  <1> HIDE DEF d, over, l
  <1>8. l \in Labels /\ Role(t, l, d)
    BY <1>3, <1>5, <1>7 DEF Role, Labels, SampleLabels
  <1>9. ASSUME Sampled(c.pcm, c.pno) <=> c.op \in SampleOps, Claim("hyst", c)
        PROVE  IF l = "idle" THEN Settled(c.pcm, c.pno) ELSE Claim(l, d)
    <2>1. AgreeCall("hyst", c) /\ (~MultiDdc => NetCall("hyst", c))
      BY <1>3, <1>9 DEF Claim
    <2>2. CASE l = "idle"
      <3>1. c.op \in SampleOps /\ ~over
        BY <1>3, <1>7, <2>2 DEF Role
      <3>2. SampledCall("hyst", c)
        BY <1>9, <3>1 DEF Claim
      <3> QED BY <1>3, <1>6, <2>1, <2>2, <3>1, <3>2
          DEF Settled, AgreeCall, NetCall, NetSettled, SampledCall, Carried, Locked
    <2>3. CASE l = "elba_push"
      <3>1. c.op \notin SampleOps /\ ~over
        BY <1>7, <2>3 DEF SampleOps
      <3>2. ExactCall("hyst", c)
        BY <1>9, <3>1 DEF Claim
      <3> QED BY <1>3, <1>5, <1>6, <1>9, <2>1, <2>3, <3>1, <3>2
          DEF Claim, AgreeCall, NetCall, NetSettled, ExactCall, Locked, Telling, Passing,
              Reporting
    <2>4. CASE l = "preval"
      <3>1. CASE Sampled(c.pcm, c.pno)
        BY <1>3, <1>5, <1>9, <2>1, <2>4, <3>1
        DEF Claim, AgreeCall, NetCall, SampledCall, Carried, Locked, Reporting
      <3>2. CASE ~Sampled(c.pcm, c.pno)
        BY <1>3, <1>5, <1>9, <2>1, <2>4, <3>2
        DEF Claim, AgreeCall, NetCall, ExactCall, Locked, Telling, Passing, Reporting
      <3> QED BY <3>1, <3>2
    <2> QED BY <1>7, <2>2, <2>3, <2>4
  <1> QED BY <1>1, <1>2, <1>3, <1>4, <1>5, <1>8, <1>9, GoOnQuiet

LEMMA SetPrevalFollows ==
    ASSUME TableInv, FollowInv, NEW t \in Threads, SetPreval(t)
    PROVE  FollowInv'
  <1>1. pc[t] = "preval" /\ UNCHANGED <<fExPtbl, fVal, queues, views>>
    BY DEF SetPreval, At
  <1>2. PICK c : c = call[t]
    OBVIOUS
  <1>3. GoTo(t, "net_push", c) /\ fPreval' = [fPreval EXCEPT ![c.pno] = c.value]
    BY <1>2 DEF SetPreval, Stay
  <1>4. /\ c \in CallRecord /\ Role(t, "preval", c) /\ c.pcm = MyPcm /\ TypeOK
        /\ c.pno \in Points
    BY <1>1, <1>2, CarriedCall DEF OwnLabels, TableInv, CallRecord
  <1>5. "net_push" \in Labels /\ Role(t, "net_push", c)
    BY <1>4 DEF Role, Labels, SampleLabels
  <1>6. \A pcm \in Pcms, p \in Points : pcm # c.pcm \/ p # c.pno => Kept(pcm, p)
    BY <1>1, <1>3, <1>4, OthersAreKept
  <1>7. ASSUME Sampled(c.pcm, c.pno) <=> c.op \in SampleOps, Claim("preval", c)
        PROVE  Claim("net_push", c)'
    <2>1. fPreval'[c.pno] = c.value
      BY <1>3, <1>4 DEF TypeOK
    <2>2. Close(c.pno, c.value, c.value) /\ c.type = "REPORT"
      BY <1>4 DEF Close, OverHyst, Role
    <2>3. AgreeCall("net_push", c)'
      BY <1>1, <1>4, <1>7 DEF Claim, AgreeCall, Locked
    <2>4. ~MultiDdc => NetCall("net_push", c)'
      BY <1>1, <1>4, <1>7, <2>1, <2>2 DEF Claim, NetCall, Reporting
    <2>5. CASE Sampled(c.pcm, c.pno)
      BY <1>1, <1>4, <1>7, <2>1, <2>3, <2>4, <2>5 DEF Claim, SampledCall, Carried, Sampled
    <2>6. CASE ~Sampled(c.pcm, c.pno)
      BY <1>1, <1>4, <1>7, <2>3, <2>4, <2>6
      DEF Claim, ExactCall, Telling, Passing, Sampled, Role
    <2> QED BY <2>5, <2>6
  <1> QED BY <1>1, <1>2, <1>3, <1>4, <1>5, <1>6, <1>7, GoOn

LEMMA MultiValFollows ==
    ASSUME TableInv, FollowInv, NEW t \in Threads, MultiVal(t)
    PROVE  FollowInv'
  <1>1. pc[t] = "multi_val" /\ UNCHANGED <<fExPtbl, fPreval, queues, views>>
    BY DEF MultiVal, At
  <1>2. PICK c : c = call[t]
    OBVIOUS
  <1>3. GoTo(t, "elba_push", c) /\ fVal' = [fVal EXCEPT ![c.pno] = c.value]
    BY <1>2 DEF MultiVal, Stay
  <1>4. /\ c \in CallRecord /\ Role(t, "multi_val", c) /\ c.pcm = MyPcm /\ TypeOK
        /\ c.pno \in Points /\ MultiDdc
    BY <1>1, <1>2, CarriedCall DEF OwnLabels, TableInv, CallRecord
  <1>5. "elba_push" \in Labels /\ Role(t, "elba_push", c) /\ c.op \notin SampleOps
    BY <1>4 DEF Role, Labels, SampleLabels
  <1>6. \A pcm \in Pcms, p \in Points : pcm # c.pcm \/ p # c.pno => Kept(pcm, p)
    BY <1>1, <1>3, <1>4, OthersAreKept
  <1>7. ASSUME Sampled(c.pcm, c.pno) <=> c.op \in SampleOps, Claim("multi_val", c)
        PROVE  Claim("elba_push", c)'
    <2>1. fVal'[c.pno] = c.value
      BY <1>3, <1>4 DEF TypeOK
    <2> QED BY <1>1, <1>4, <1>5, <1>7, <2>1
        DEF Claim, AgreeCall, ExactCall, Telling, Passing, Locked, Sampled
  <1> QED BY <1>1, <1>2, <1>3, <1>4, <1>5, <1>6, <1>7, GoOn

LEMMA CommandExFollows ==
    ASSUME TableInv, FollowInv, NEW t \in Threads, CommandEx(t)
    PROVE  FollowInv'
  <1>1. pc[t] = "cmd_ex" /\ UNCHANGED <<fVal, fPreval, queues, views>>
    BY DEF CommandEx, At
  <1>2. PICK c : c = call[t]
    OBVIOUS
  <1> DEFINE d == [c EXCEPT !.op = "echo"]
  <1>3. GoTo(t, "elba_push", d) /\ fExPtbl' = [fExPtbl EXCEPT ![c.pcm][c.pno] = c.value]
    BY <1>2 DEF CommandEx
  <1>4. /\ c \in CallRecord /\ Role(t, "cmd_ex", c) /\ TypeOK /\ c.op = "command"
        /\ c.pno \in Points /\ c.pcm \in Pcms /\ MultiDdc
    BY <1>1, <1>2, CarriedCall DEF TableInv, CallRecord
  <1>5. /\ d \in CallRecord /\ d.pcm = c.pcm /\ d.pno = c.pno /\ d.op = "echo"
        /\ d.value = c.value
    BY <1>4 DEF CallRecord, Ops
  <1> HIDE DEF d
  <1>6. "elba_push" \in Labels /\ Role(t, "elba_push", d) /\ c.op \notin SampleOps
    BY <1>4, <1>5 DEF Role, Labels, SampleLabels, SampleOps
  <1>7. \A pcm \in Pcms, p \in Points : pcm # c.pcm \/ p # c.pno => Kept(pcm, p)
    BY <1>1, <1>3, <1>4, OthersAreKept
  <1>8. ASSUME Sampled(c.pcm, c.pno) <=> c.op \in SampleOps, Claim("cmd_ex", c)
        PROVE  Claim("elba_push", d)'
    <2>1. fExPtbl'[c.pcm][c.pno] = c.value
      BY <1>3, <1>4, OneValue DEF TypeOK
    <2> QED BY <1>1, <1>4, <1>5, <1>6, <1>8, <2>1
        DEF Claim, AgreeCall, ExactCall, Telling, Passing, Locked, Sampled
  <1> QED BY <1>1, <1>2, <1>3, <1>5, <1>6, <1>7, <1>8, GoOn

LEMMA NetPushFollows ==
    ASSUME TableInv, TypeOK', FollowInv, NEW t \in Threads, NetPush(t)
    PROVE  FollowInv'
  <1>1. pc[t] = "net_push" /\ TypeOK
    BY DEF NetPush, At, TableInv
  <1>2. PICK c : c = call[t]
    OBVIOUS
  <1>3. PICK l : l = AfterNetPush(c.op) /\ GoTo(t, l, c)
    BY <1>2 DEF NetPush, Stay
  <1>4. /\ c \in CallRecord /\ Role(t, "net_push", c)
        /\ c.pno \in Points /\ c.pcm \in Pcms
    BY <1>1, <1>2, CarriedCall DEF CallRecord
  <1>5. /\ l \in Labels /\ Role(t, l, c)
        /\ l \in {"elba_push", "uclient_push", "idle"}
        /\ l = "elba_push" <=> c.op \in {"pset", "request"} \cup SampleOps
    BY <1>3, <1>4 DEF Role, Labels, SampleLabels, SampleOps, AfterNetPush
  <1>6. /\ \A p \in Points : p # c.pno \/ c.type # "REPORT" => NetKept(p)
        /\ c.type = "REPORT" => c.pno \in lost' \/ NetworkWillHold(c.pno)' = c.value
        /\ c.type = "REPORT" /\ c.pno \in lost
              => c.pno \in lost' \/ Close(c.pno, fPreval[c.pno], c.value)
        /\ \A pcm \in Pcms, p \in Points : StationKept(pcm, p) /\ ValuesKept(pcm, p)
    BY <1>1, <1>2, <1>4, NetPushed
  <1>7. \A pcm \in Pcms, p \in Points : pcm # c.pcm \/ p # c.pno => Kept(pcm, p)
    BY <1>4, <1>6 DEF Kept, Role
  <1>8. ASSUME Sampled(c.pcm, c.pno) <=> c.op \in SampleOps, Claim("net_push", c)
        PROVE  IF l = "idle" THEN Settled(c.pcm, c.pno)' ELSE Claim(l, c)'
    <2> DEFINE pcm == c.pcm
               p == c.pno
    <2>1. /\ fExPtbl'[pcm][p] = fExPtbl[pcm][p]
          /\ pcm = MyPcm => /\ fVal'[p] = fVal[p] /\ fPreval'[p] = fPreval[p]
                            /\ fExPtbl'[MyPcm][p] = fExPtbl[MyPcm][p]
      BY <1>4, <1>6 DEF ValuesKept
    <2>2. ASSUME pcm = MyPcm, ~MultiDdc PROVE NetSettled(p)'
      <3>1. NetCall("net_push", c)
        BY <1>8, <2>2 DEF Claim
      <3>2. CASE c.type = "REPORT"
        BY <1>6, <2>1, <2>2, <3>1, <3>2 DEF NetCall, Reporting, NetSettled, NetTold
      <3>3. CASE c.type # "REPORT"
        <4>1. NetSettled(p) /\ NetKept(p)
          BY <1>4, <1>6, <3>1, <3>3 DEF NetCall, Reporting
        <4> QED BY <2>1, <2>2, <4>1 DEF NetSettled, NetTold, NetKept
      <3> QED BY <3>2, <3>3
    <2>3. pcm = MyPcm => fVal'[p] = fExPtbl'[MyPcm][p]
      BY <1>8, <2>1 DEF Claim, AgreeCall, Locked
    <2>4. StationTold(pcm, p) => StationTold(pcm, p)'
      BY <1>4, <1>6, <2>1 DEF StationTold, StationKept, Sampled
    <2>5. CASE l = "elba_push"
      <3>1. pcm = MyPcm => AgreeCall(l, c)'
        BY <2>3, <2>5 DEF AgreeCall
      <3>2. pcm = MyPcm /\ ~MultiDdc => NetCall(l, c)'
        BY <2>2, <2>5 DEF NetCall, Reporting
      <3>3. CASE Sampled(pcm, p)
        <4>1. SampledCall(l, c)'
          BY <1>8, <2>1, <2>5, <3>3 DEF Claim, SampledCall, Carried, Sampled
        <4> QED BY <2>5, <3>1, <3>2, <3>3, <4>1 DEF Claim, Sampled
      <3>4. CASE ~Sampled(pcm, p)
        <4>1. c.op \in {"pset", "request"}
          BY <1>5, <1>8, <2>5, <3>4
        <4>2. ExactCall(l, c)'
          BY <1>8, <2>1, <2>5, <3>4, <4>1 DEF Claim, ExactCall, Telling, Passing
        <4> QED BY <2>5, <3>1, <3>2, <3>4, <4>2 DEF Claim, Sampled
      <3> QED BY <2>5, <3>3, <3>4
    <2>6. CASE l # "elba_push"
      <3>1. ~Sampled(pcm, p) /\ c.op \notin {"pset", "request"}
        BY <1>5, <1>8, <2>6
      <3>2. StationTold(pcm, p)'
        BY <1>8, <2>4, <3>1 DEF Claim, ExactCall, Passing
      <3>3. CASE l = "idle"
        BY <2>2, <2>3, <3>1, <3>2, <3>3 DEF Settled, Sampled
      <3>4. CASE l = "uclient_push"
        <4>1. pcm = MyPcm => AgreeCall(l, c)'
          BY <2>3, <3>4 DEF AgreeCall
        <4>2. pcm = MyPcm /\ ~MultiDdc => NetCall(l, c)'
          BY <2>2, <3>4 DEF NetCall, Reporting
        <4>3. ExactCall(l, c)'
          BY <3>2, <3>4 DEF ExactCall, Telling, Passing
        <4> QED BY <3>1, <3>4, <4>1, <4>2, <4>3 DEF Claim, Sampled
      <3> QED BY <1>5, <2>6, <3>3, <3>4
    <2> QED BY <2>5, <2>6
  <1> QED BY <1>1, <1>2, <1>3, <1>4, <1>5, <1>7, <1>8, GoOn

LEMMA ElbaPushFollows ==
    ASSUME TableInv, TypeOK', FollowInv, NEW t \in Threads, ElbaPush(t)
    PROVE  FollowInv'
  <1>1. pc[t] = "elba_push" /\ TypeOK
    BY DEF ElbaPush, At, TableInv
  <1>2. PICK c : c = call[t]
    OBVIOUS
  <1>3. PICK l : l = AfterElbaPush(c.op) /\ GoTo(t, l, c)
    BY <1>2 DEF ElbaPush, Stay
  <1>4. /\ c \in CallRecord /\ Role(t, "elba_push", c)
        /\ c.pno \in Points /\ c.pcm \in Pcms
    BY <1>1, <1>2, CarriedCall DEF CallRecord
  <1>5. /\ l \in Labels /\ Role(t, l, c)
        /\ l \in {"cmd_ex", "uclient_push", "idle"}
        /\ l = "cmd_ex" => c.op \notin SampleOps
    BY <1>3, <1>4 DEF Role, Labels, SampleLabels, SampleOps, AfterElbaPush
  <1>6. /\ \A pcm \in Pcms, p \in Points : pcm # c.pcm \/ p # c.pno => StationKept(pcm, p)
        /\ <<c.pcm, c.pno>> \in untold' \/ StationWillHold(c.pcm, c.pno)' = c.value
        /\ \A pcm \in Pcms, p \in Points : NetKept(p) /\ ValuesKept(pcm, p)
    BY <1>1, <1>2, <1>4, ElbaPushed
  <1>7. \A pcm \in Pcms, p \in Points : pcm # c.pcm \/ p # c.pno => Kept(pcm, p)
    BY <1>6 DEF Kept
  <1>8. ASSUME Sampled(c.pcm, c.pno) <=> c.op \in SampleOps, Claim("elba_push", c)
        PROVE  IF l = "idle" THEN Settled(c.pcm, c.pno)' ELSE Claim(l, c)'
    <2> DEFINE pcm == c.pcm
               p == c.pno
    <2>1. /\ fExPtbl'[pcm][p] = fExPtbl[pcm][p]
          /\ pcm = MyPcm => /\ fVal'[p] = fVal[p] /\ fPreval'[p] = fPreval[p]
                            /\ fExPtbl'[MyPcm][p] = fExPtbl[MyPcm][p]
      BY <1>4, <1>6 DEF ValuesKept
    <2>2. ASSUME pcm = MyPcm, ~MultiDdc PROVE NetSettled(p)'
      <3>1. NetSettled(p) /\ NetKept(p)
        BY <1>4, <1>6, <1>8, <2>2 DEF Claim, NetCall, Reporting
      <3> QED BY <2>1, <2>2, <3>1 DEF NetSettled, NetTold, NetKept
    <2>3. pcm = MyPcm => fVal'[p] = fExPtbl'[MyPcm][p]
      BY <1>8, <2>1 DEF Claim, AgreeCall, Locked
    <2>4. CASE Sampled(pcm, p)
      <3>1. SampledCall("elba_push", c) /\ pcm = MyPcm
        BY <1>8, <2>4 DEF Claim, Sampled
      <3>2. fVal'[p] = c.value /\ fPreval'[p] = c.value /\ Close(p, c.value, c.value)
        BY <2>1, <3>1 DEF SampledCall, Carried, Close, OverHyst
      <3>3. StationTold(pcm, p)'
        BY <1>6, <2>4, <3>2 DEF StationTold, Sampled
      <3>4. CASE l = "idle"
        BY <2>2, <2>3, <3>2, <3>3, <3>4 DEF Settled, Carried
      <3>5. CASE l # "idle"
        <4>1. l = "uclient_push"
          BY <1>5, <1>8, <2>4, <3>5
        <4>2. AgreeCall(l, c)'
          BY <2>3, <3>1, <4>1 DEF AgreeCall
        <4>3. ~MultiDdc => NetCall(l, c)'
          BY <2>2, <3>1, <4>1 DEF NetCall, Reporting
        <4>4. SampledCall(l, c)'
          BY <3>1, <3>2, <3>3, <4>1 DEF SampledCall, Carried
        <4> QED BY <2>4, <3>5, <4>2, <4>3, <4>4 DEF Claim, Sampled
      <3> QED BY <3>4, <3>5
    <2>5. CASE ~Sampled(pcm, p)
      <3>1. fExPtbl'[pcm][p] = c.value
        BY <1>8, <2>1, <2>5 DEF Claim, ExactCall, Telling
      <3>2. StationTold(pcm, p)'
        BY <1>6, <2>5, <3>1 DEF StationTold, Sampled
      <3>3. CASE l = "idle"
        BY <2>2, <2>3, <2>5, <3>2, <3>3 DEF Settled, Sampled
      <3>4. CASE l # "idle"
        <4>1. pcm = MyPcm => AgreeCall(l, c)'
          BY <1>5, <2>3, <3>4 DEF AgreeCall
        <4>2. pcm = MyPcm /\ ~MultiDdc => NetCall(l, c)'
          BY <1>5, <2>2, <3>4 DEF NetCall, Reporting
        <4>3. ExactCall(l, c)'
          BY <1>5, <3>1, <3>2, <3>4 DEF ExactCall, Telling, Passing
        <4> QED BY <2>5, <3>4, <4>1, <4>2, <4>3 DEF Claim, Sampled
      <3> QED BY <3>3, <3>4
    <2> QED BY <2>4, <2>5
  <1> QED BY <1>1, <1>2, <1>3, <1>4, <1>5, <1>7, <1>8, GoOn

LEMMA UclientPushFollows ==
    ASSUME TableInv, FollowInv, NEW t \in Threads, UclientPush(t)
    PROVE  FollowInv'
  <1>1. pc[t] = "uclient_push" /\ UNCHANGED <<table, net32Queue, elbaQueue, views>>
    BY DEF UclientPush, At
  <1>2. PICK c : c = call[t]
    OBVIOUS
  <1>3. GoTo(t, "idle", c)
    BY <1>2 DEF UclientPush, Stay
  <1>4. /\ c \in CallRecord /\ Role(t, "uclient_push", c)
        /\ c.pno \in Points /\ c.pcm \in Pcms
    BY <1>1, <1>2, CarriedCall DEF CallRecord
  <1>5. "idle" \in Labels /\ Role(t, "idle", c)
    BY <1>4 DEF Role, Labels, SampleLabels
  <1>6. \A pcm \in Pcms, p \in Points : Kept(pcm, p)
    BY <1>1 DEF Kept, ValuesKept, StationKept, NetKept, table, views,
       NetworkWillHold, ReportsOf, StationWillHold, MessagesOf
  <1>7. ASSUME Sampled(c.pcm, c.pno) <=> c.op \in SampleOps, Claim("uclient_push", c)
        PROVE  Settled(c.pcm, c.pno)'
    <2>1. Settled(c.pcm, c.pno)
      BY <1>7 DEF Claim, AgreeCall, NetCall, Reporting, SampledCall, Carried, ExactCall, Telling,
         Passing, Locked, Settled, Sampled
    <2> QED BY <1>4, <1>6, <2>1, SettledKept
  <1> QED BY <1>1, <1>2, <1>3, <1>4, <1>5, <1>6, <1>7, GoOn

LEMMA ContinueFollows ==
    ASSUME TableInv, TypeOK', FollowInv, NEW t \in Threads, Continue(t)
    PROVE  FollowInv'
  BY PsetCompareFollows, PsetLockFollows, PsetUnlockFollows, AdcLockFollows,
     AdcUnlockFollows, IsHystFollows, SetPrevalFollows, MultiValFollows, NetPushFollows,
     ElbaPushFollows, UclientPushFollows, CommandExFollows DEF Continue

-----------------------------------------------------------------------------
\* The names of the calls are names of calls.
LEMMA Names ==
    /\ "pset" \in Ops /\ "command" \in Ops /\ "forward" \in Ops /\ "require" \in Ops
    /\ "request" \in Ops /\ "report" \in Ops /\ "other" \in Ops /\ "same" \in Ops
    /\ "answer" \in Ops /\ SampleOps \subseteq Ops
    /\ "NONE" \in MessageTypes /\ "COMMAND" \in MessageTypes
    /\ "REQUIRE" \in MessageTypes /\ "REPORT" \in MessageTypes
  BY DEF Ops, MessageTypes, SampleOps

\* One entry of fExPtbl is set, and nothing else.
LEMMA EntrySet ==
    ASSUME TypeOK, NEW n \in Pcms, NEW q \in Points, NEW v,
           fExPtbl' = [fExPtbl EXCEPT ![n][q] = v], UNCHANGED <<fVal, fPreval, queues, views>>
    PROVE  /\ fExPtbl'[n][q] = v
           /\ \A pcm \in Pcms, p \in Points : pcm # n \/ p # q => Kept(pcm, p)
  <1>1. UNCHANGED <<queues, views>> /\ UNCHANGED <<fVal, fPreval>>
    OBVIOUS
  <1>2. fExPtbl \in [Pcms -> [Points -> Int]]
    BY DEF TypeOK
  <1>3. fExPtbl'[n][q] = v
    BY <1>2, OneValue
  <1>4. \A pcm \in Pcms, p \in Points : pcm # n \/ p # q => Kept(pcm, p)
    BY <1>1, OthersAreKept
  <1> QED BY <1>3, <1>4

LEMMA EntryType ==
    ASSUME TypeOK, NEW n \in Pcms, NEW q \in Points
    PROVE  fExPtbl[n][q] \in Int
  BY DEF TypeOK

\* What a thread deals with is a pair.
LEMMA PairOf ==
    ASSUME NEW t \in Threads, NEW x \in Touches[t]
    PROVE  x[1] \in Pcms /\ x[2] \in Points /\ <<x[1], x[2]>> \in Touches[t]
  <1>1. Touches[t] \subseteq Pcms \X Points
    OBVIOUS
  <1>2. x \in Pcms \X Points
    BY <1>1
  <1>3. x[1] \in Pcms /\ x[2] \in Points /\ x = <<x[1], x[2]>>
    BY <1>2
  <1> QED BY <1>3

\* pSet, of a thread that samples nothing.
LEMMA PSetFollows ==
    ASSUME TableInv, FollowInv, NEW t \in Threads, t \notin Observers \cup Samplers,
           pc[t] = "idle", NEW op \in {"pset", "command"}, NEW pcm \in Pcms, NEW p \in Points,
           <<pcm, p>> \in Touches[t], NEW v \in Int, PSet(t, op, pcm, p, v)
    PROVE  FollowInv'
  <1>1. CASE PSetMultiOther(t, op, pcm, p, v)
    <2>1. PICK l : /\ l = IF fExPtbl[pcm][p] # v THEN "elba_push"
                          ELSE IF op = "command" THEN "cmd_ex" ELSE "idle"
                   /\ GoTo(t, l, Call(op, "NONE", pcm, p, v))
      BY <1>1 DEF PSetMultiOther
    <2>2. PICK c : c = Call(op, "NONE", pcm, p, v)
      OBVIOUS
    <2>3. /\ c \in CallRecord /\ c.op = op /\ c.type = "NONE" /\ c.pcm = pcm
          /\ c.pno = p /\ c.value = v
      BY <2>2, Names DEF Call, CallRecord
    <2>4. /\ fExPtbl' = [fExPtbl EXCEPT ![pcm][p] = v] /\ MultiDdc /\ pcm # MyPcm
          /\ UNCHANGED <<fVal, fPreval, queues, views>> /\ TypeOK
      BY <1>1 DEF PSetMultiOther, TableInv
    <2>5. l \in Labels /\ Role(t, l, c) /\ op \notin SampleOps /\ l \in {"elba_push", "cmd_ex", "idle"}
      BY <2>1, <2>3 DEF Role, Labels, SampleOps
    <2>7. /\ fExPtbl'[pcm][p] = v
          /\ \A q \in Pcms, x \in Points : q # pcm \/ x # p => Kept(q, x)
      BY <2>4, EntrySet
    <2>6. \A q \in Pcms, x \in Points : q # c.pcm \/ x # c.pno => Kept(q, x)
      BY <2>3, <2>7
    <2>8. ASSUME Sampled(pcm, p) <=> op \in SampleOps, Settled(pcm, p)
          PROVE  IF l = "idle" THEN Settled(pcm, p)' ELSE Claim(l, c)'
      <3>1. ~Sampled(pcm, p)
        BY <2>5, <2>8
      <3>2. CASE l = "idle"
        <4>1. fExPtbl'[pcm][p] = fExPtbl[pcm][p]
          BY <2>1, <2>7, <3>2
        <4>2. StationKept(pcm, p)
          BY <2>4, QueuesKept
        <4>3. StationTold(pcm, p)'
          BY <2>8, <3>1, <4>1, <4>2 DEF Settled, StationTold, StationKept, Sampled
        <4> QED BY <2>4, <3>1, <3>2, <4>3 DEF Settled, Sampled
      <3>3. CASE l # "idle"
        BY <2>3, <2>4, <2>5, <2>7, <3>1, <3>3
        DEF Claim, ExactCall, Telling, Passing, Sampled
      <3> QED BY <3>2, <3>3
    <2> QED BY <2>1, <2>2, <2>3, <2>5, <2>6, <2>8, Begin
  <1>2. CASE pcm = MyPcm /\ PSetMultiOwn(t, op, p, v)
    <2>1. PICK c : c = Call(op, "NONE", MyPcm, p, v)
      OBVIOUS
    <2>2. /\ c \in CallRecord /\ c.op = op /\ c.type = "NONE" /\ c.pcm = MyPcm
          /\ c.pno = p /\ c.value = v
      BY <1>2, <2>1, Names DEF Call, CallRecord
    <2>3. /\ GoTo(t, "multi_val", c) /\ MultiDdc
          /\ fExPtbl' = [fExPtbl EXCEPT ![MyPcm][p] = v]
          /\ UNCHANGED <<fVal, fPreval, queues, views>> /\ TypeOK
      BY <1>2, <2>1 DEF PSetMultiOwn, TableInv
    <2>4. "multi_val" \in Labels /\ Role(t, "multi_val", c) /\ op \notin SampleOps
      BY <1>2, <2>2 DEF Role, Labels, SampleOps
    <2>5. \A q \in Pcms, x \in Points : q # c.pcm \/ x # c.pno => Kept(q, x)
      BY <1>2, <2>2, <2>3, EntrySet
    <2>6. fExPtbl'[MyPcm][p] = v
      BY <1>2, <2>3, EntrySet
    <2>7. ASSUME Sampled(pcm, p) <=> op \in SampleOps
          PROVE  Claim("multi_val", c)'
      BY <1>2, <2>2, <2>3, <2>4, <2>6, <2>7
      DEF Claim, AgreeCall, ExactCall, Telling, Passing, Locked, Sampled
    <2> QED BY <1>2, <2>2, <2>3, <2>4, <2>5, <2>7, Begin
  <1>3. CASE PSetForward(t, pcm, p, v)
    <2>1. PICK c : c = Call("forward", "COMMAND", pcm, p, v)
      OBVIOUS
    <2>2. /\ c \in CallRecord /\ c.op = "forward" /\ c.type = "COMMAND" /\ c.pcm = pcm
          /\ c.pno = p
      BY <2>1, Names DEF Call, CallRecord
    <2>3. GoTo(t, "net_push", c) /\ UNCHANGED <<table, queues, views>>
      BY <1>3, <2>1 DEF PSetForward
    <2>4. "net_push" \in Labels /\ Role(t, "net_push", c) /\ c.op \notin SampleOps
      BY <2>2 DEF Role, Labels, SampleOps
    <2> QED BY <2>2, <2>3, <2>4, BeginQuiet DEF Reporting, Telling
  <1>4. CASE pcm = MyPcm /\ LocalPset(t, p, v)
    <2>1. PICK c : c = Call("pset", "NONE", MyPcm, p, Clamp(p, v))
      OBVIOUS
    <2>2. /\ c \in CallRecord /\ c.op = "pset" /\ c.type = "NONE" /\ c.pcm = MyPcm
          /\ c.pno = p
      BY <1>4, <2>1, ClampLegal, Names DEF Call, CallRecord
    <2>3. PICK l \in {"compare", "idle"} : GoTo(t, l, c)
      BY <1>4, <2>1 DEF LocalPset
    <2>4. UNCHANGED <<table, queues, views>>
      BY <1>4 DEF LocalPset
    <2>5. l \in Labels /\ Role(t, l, c) /\ c.op \notin SampleOps
      BY <1>4, <2>2, <2>3 DEF Role, Labels, SampleOps
    <2> QED BY <2>2, <2>3, <2>4, <2>5, BeginQuiet DEF Reporting, Telling
  <1> QED BY <1>1, <1>2, <1>3, <1>4 DEF PSet

LEMMA SetterFollows ==
    ASSUME TableInv, FollowInv, NEW t \in Setters, SetterStep(t)
    PROVE  FollowInv'
  <1>1. t \in Threads /\ t \notin Observers \cup Samplers
    BY DEF Threads, Samplers
  <1>2. ASSUME NEW x \in Touches[t], NEW v \in Values, Set(t, x[1], x[2], v)
        PROVE  FollowInv'
    <2>1. x[1] \in Pcms /\ x[2] \in Points /\ <<x[1], x[2]>> \in Touches[t] /\ v \in Int
      BY <1>1
    <2> QED BY <1>1, <1>2, <2>1, PSetFollows DEF Set, At
  <1>3. ASSUME NEW x \in Touches[t], PReq(t, x[1], x[2]) PROVE FollowInv'
    <2>1. x[1] \in Pcms /\ x[2] \in Points /\ <<x[1], x[2]>> \in Touches[t]
      BY <1>1, PairOf
    <2>2. PICK c : c = Call("require", "REQUIRE", x[1], x[2], 0)
      OBVIOUS
    <2>3. /\ c \in CallRecord /\ c.op = "require" /\ c.type = "REQUIRE"
          /\ c.pcm = x[1] /\ c.pno = x[2]
      BY <2>1, <2>2, Names DEF Call, CallRecord
    <2>4. GoTo(t, "net_push", c) /\ UNCHANGED <<table, queues, views>> /\ pc[t] = "idle"
      BY <1>3, <2>2 DEF PReq, At
    <2>5. "net_push" \in Labels /\ Role(t, "net_push", c) /\ c.op \notin SampleOps
      BY <1>1, <2>1, <2>3 DEF Role, Labels, SampleOps
    <2> QED BY <1>1, <2>3, <2>4, <2>5, BeginQuiet DEF Reporting, Telling
  <1> QED BY <1>2, <1>3 DEF SetterStep

LEMMA ScanFollows ==
    ASSUME TableInv, FollowInv, NEW t \in Samplers,
           (t \in Scanners /\ ScannerStep(t)) \/ (t \in SubioThreads /\ SubioStep(t))
    PROVE  FollowInv'
  <1>1. t \in Threads /\ t \notin Observers
    BY DEF Threads, Samplers
  <1>2. PICK x \in Touches[t], v \in Values, op \in SampleOps :
           x[1] = MyPcm /\ Sample(t, op, x[2], v)
    BY DEF ScannerStep, SubioStep, SampleOps
  <1>3. /\ x[2] \in Points /\ <<MyPcm, x[2]>> \in Touches[t] /\ v \in Int
        /\ MyPcm \in Pcms /\ x[2] \in Inputs
    BY <1>1, <1>2 DEF Sample
  <1>4. PICK c : c = Call(op, "NONE", MyPcm, x[2], Clamp(x[2], v))
    OBVIOUS
  <1>5. /\ c \in CallRecord /\ c.op = op /\ c.type = "NONE" /\ c.pcm = MyPcm
        /\ c.pno = x[2]
    BY <1>3, <1>4, ClampLegal, Names DEF Call, CallRecord
  <1>6. GoTo(t, "adc_lock", c) /\ UNCHANGED <<table, queues, views>> /\ pc[t] = "idle"
    BY <1>2, <1>4 DEF Sample, At
  <1>7. "adc_lock" \in Labels /\ Role(t, "adc_lock", c)
    BY <1>1, <1>3, <1>5 DEF Role, Labels, SampleOps, SampleLabels
  <1> QED BY <1>1, <1>5, <1>6, <1>7, BeginQuiet DEF Reporting, Telling

LEMMA ElbaFollows ==
    ASSUME TableInv, TypeOK', FollowInv, NEW t \in ElbaThreads, ElbaStep(t)
    PROVE  FollowInv'
  <1>1. t \in Threads /\ t \notin Observers \cup Samplers /\ TypeOK
    BY DEF Threads, Samplers, TableInv
  <1>2. CASE ElbaSend(t)
    <2>1. \A pcm \in Pcms, p \in Points : Kept(pcm, p)
      BY <1>1, <1>2, ElbaSent
    <2>2. pc' = pc /\ call' = call
      BY <1>2 DEF ElbaSend
    <2> QED BY <1>1, <2>1, <2>2, FollowIdle
  <1>3. ASSUME NEW x \in Touches[t], NEW v \in Values, ElbaCommand(t, x[1], x[2], v)
        PROVE  FollowInv'
    <2>1. x[1] \in Pcms /\ x[2] \in Points /\ <<x[1], x[2]>> \in Touches[t] /\ v \in Int
      BY <1>1
    <2>2. PICK op \in {"pset", "command"} : PSet(t, op, x[1], x[2], v)
      BY <1>3 DEF ElbaCommand
    <2> QED BY <1>1, <1>3, <2>1, <2>2, PSetFollows DEF ElbaCommand, At
  <1>4. ASSUME NEW x \in Touches[t], ElbaRequest(t, x[1], x[2]) PROVE FollowInv'
    <2>1. x[1] \in Pcms /\ x[2] \in Points /\ <<x[1], x[2]>> \in Touches[t]
      BY <1>1, PairOf
    <2>2. PICK c : c = Call("request", "REQUIRE", x[1], x[2], fExPtbl[x[1]][x[2]])
      OBVIOUS
    <2>3. fExPtbl[x[1]][x[2]] \in Int
      BY <1>1, <2>1, EntryType
    <2>4. /\ c \in CallRecord /\ c.op = "request" /\ c.type = "REQUIRE"
          /\ c.pcm = x[1] /\ c.pno = x[2] /\ c.value = fExPtbl[x[1]][x[2]]
      BY <2>1, <2>2, <2>3, Names DEF Call, CallRecord
    <2>5. GoTo(t, "net_push", c) /\ UNCHANGED <<table, queues, views>> /\ pc[t] = "idle"
      BY <1>4, <2>2 DEF ElbaRequest, At
    <2>6. "net_push" \in Labels /\ Role(t, "net_push", c) /\ c.op \notin SampleOps
      BY <1>1, <2>1, <2>4 DEF Role, Labels, SampleOps
    <2> QED BY <1>1, <2>4, <2>5, <2>6, BeginQuiet DEF Reporting, Telling
  <1> QED BY <1>2, <1>3, <1>4 DEF ElbaStep

LEMMA Net32Follows ==
    ASSUME TableInv, TypeOK', FollowInv, NEW t \in Net32Threads, Net32Step(t)
    PROVE  FollowInv'
  <1>1. /\ t \in Threads /\ t \notin Observers \cup Samplers /\ TypeOK /\ MyPcm \in Pcms
        /\ \A x \in Touches[t] : x[1] \in Pcms /\ x[2] \in Points /\ <<x[1], x[2]>> \in Touches[t]
    BY PairOf DEF Threads, Samplers, TableInv
  <1>2. CASE Net32Loop(t)
    <2>1. \A pcm \in Pcms, p \in Points : Kept(pcm, p)
      <3>1. CASE Net32Send(t)
        BY <1>1, <3>1, Net32Sent
      <3>2. CASE Net32NothingToSend(t) \/ Net32NothingReceived(t)
        BY <3>2, AllKept DEF Net32NothingToSend, Net32NothingReceived
      <3> QED BY <1>2, <3>1, <3>2 DEF Net32Loop
    <2>2. pc[t] \in {"idle", "recv"} /\ call[t] = NoCall
      BY <1>1, <1>2 DEF Net32Loop, Net32Send, Net32NothingToSend, Net32NothingReceived, At,
         TableInv, CallInv
    <2>3. PICK l \in {"idle", "recv"} : GoTo(t, l, NoCall)
      BY <1>2, <2>2 DEF Net32Loop, Net32Send, Net32NothingToSend, Net32NothingReceived, Stay
    <2>4. /\ call'[t] = NoCall
          /\ \A u \in Threads \ {t} : pc'[u] = pc[u] /\ call'[u] = call[u]
      BY <1>1, <2>3, Moved DEF Labels
    <2>5. \A u \in Threads : /\ call'[u] = call[u]
                             /\ call[u] # NoCall => pc'[u] = pc[u]
      BY <2>2, <2>4
    <2> QED BY <1>1, <2>1, <2>5, FollowIdle
  <1>3. ASSUME NEW x \in Touches[t], NEW v \in Values, Net32Report(t, x[1], x[2], v)
        PROVE  FollowInv'
    <2>1. PICK c : c = Call("report", "REPORT", x[1], x[2], v)
      OBVIOUS
    <2>2. /\ c \in CallRecord /\ c.op = "report" /\ c.type = "REPORT"
          /\ c.pcm = x[1] /\ c.pno = x[2] /\ c.value = v
      BY <1>1, <2>1, Names DEF Call, CallRecord
    <2>3. /\ GoTo(t, "elba_push", c) /\ pc[t] = "recv" /\ x[1] # MyPcm
          /\ fExPtbl' = [fExPtbl EXCEPT ![x[1]][x[2]] = v]
          /\ UNCHANGED <<fVal, fPreval, queues, views>>
      BY <1>3, <2>1 DEF Net32Report, At
    <2>4. "elba_push" \in Labels /\ Role(t, "elba_push", c) /\ c.op \notin SampleOps
      BY <1>1, <2>2 DEF Role, Labels, SampleOps
    <2>6. /\ fExPtbl'[x[1]][x[2]] = v
          /\ \A pcm \in Pcms, p \in Points : pcm # x[1] \/ p # x[2] => Kept(pcm, p)
      <3>1. PICK n \in Pcms, q \in Points : n = x[1] /\ q = x[2]
        BY <1>1
      <3>2. fExPtbl' = [fExPtbl EXCEPT ![n][q] = v]
        BY <2>3, <3>1
      <3>3. /\ fExPtbl'[n][q] = v
            /\ \A pcm \in Pcms, p \in Points : pcm # n \/ p # q => Kept(pcm, p)
        BY <1>1, <2>3, <3>2, EntrySet
      <3> QED BY <3>1, <3>3
    <2>5. \A pcm \in Pcms, p \in Points : pcm # c.pcm \/ p # c.pno => Kept(pcm, p)
      BY <2>2, <2>6
    <2>7. ASSUME Sampled(c.pcm, c.pno) <=> c.op \in SampleOps
          PROVE  Claim("elba_push", c)'
      BY <2>2, <2>3, <2>4, <2>6, <2>7 DEF Claim, ExactCall, Telling, Passing, Sampled
    <2> QED BY <1>1, <2>2, <2>3, <2>4, <2>5, <2>7, Begin
  <1>4. ASSUME NEW x \in Touches[t], NEW v \in Values, Net32CommandOther(t, x[1], x[2], v)
        PROVE  FollowInv'
    <2>1. PICK c : c = Call("other", "REPORT", x[1], x[2], v)
      OBVIOUS
    <2>2. /\ c \in CallRecord /\ c.op = "other" /\ c.type = "REPORT"
          /\ c.pcm = x[1] /\ c.pno = x[2]
      BY <1>1, <2>1, Names DEF Call, CallRecord
    <2>3. GoTo(t, "uclient_push", c) /\ UNCHANGED <<table, queues, views>> /\ pc[t] = "recv"
      BY <1>4, <2>1 DEF Net32CommandOther, At
    <2>4. "uclient_push" \in Labels /\ Role(t, "uclient_push", c) /\ c.op \notin SampleOps
      BY <1>1, <2>2 DEF Role, Labels, SampleOps
    <2> QED BY <1>1, <2>2, <2>3, <2>4, BeginQuiet DEF Reporting, Telling
  <1>5. ASSUME NEW x \in Touches[t], x[1] = MyPcm, NEW v \in Values,
               Net32CommandSame(t, x[2], v)
        PROVE  FollowInv'
    <2>1. PICK c : c = Call("same", "REPORT", MyPcm, x[2], v)
      OBVIOUS
    <2>2. /\ c \in CallRecord /\ c.op = "same" /\ c.type = "REPORT"
          /\ c.pcm = MyPcm /\ c.pno = x[2] /\ c.value = v
      BY <1>1, <2>1, Names DEF Call, CallRecord
    <2>3. /\ GoTo(t, "net_push", c) /\ UNCHANGED <<table, queues, views>> /\ pc[t] = "recv"
          /\ v = fVal[x[2]]
      BY <1>5, <2>1 DEF Net32CommandSame, At
    <2>4. "net_push" \in Labels /\ Role(t, "net_push", c) /\ c.op \notin SampleOps
      BY <1>1, <1>5, <2>2 DEF Role, Labels, SampleOps
    <2> QED BY <1>1, <2>2, <2>3, <2>4, BeginQuiet DEF Telling
  <1>6. ASSUME NEW x \in Touches[t], x[1] = MyPcm, NEW v \in Values,
               Net32CommandSet(t, x[2], v)
        PROVE  FollowInv'
    <2>1. PICK c : c = Call("pset", "NONE", MyPcm, x[2], Clamp(x[2], v))
      OBVIOUS
    <2>2. /\ c \in CallRecord /\ c.op = "pset" /\ c.type = "NONE"
          /\ c.pcm = MyPcm /\ c.pno = x[2]
      BY <1>1, <2>1, ClampLegal, Names DEF Call, CallRecord
    <2>3. PICK l \in {"compare", "idle"} : GoTo(t, l, c)
      BY <1>6, <2>1 DEF Net32CommandSet, LocalPset
    <2>4. UNCHANGED <<table, queues, views>> /\ pc[t] = "recv"
      BY <1>6 DEF Net32CommandSet, LocalPset, At
    <2>5. l \in Labels /\ Role(t, l, c) /\ c.op \notin SampleOps
      BY <1>1, <1>6, <2>2, <2>3 DEF Role, Labels, SampleOps
    <2> QED BY <1>1, <2>2, <2>3, <2>4, <2>5, BeginQuiet DEF Reporting, Telling
  <1>7. ASSUME NEW x \in Touches[t], x[1] = MyPcm, Net32Require(t, x[2])
        PROVE  FollowInv'
    <2>1. PICK c : c = Call("answer", "REPORT", MyPcm, x[2], fExPtbl[MyPcm][x[2]])
      OBVIOUS
    <2>2. fExPtbl[MyPcm][x[2]] \in Int
      BY <1>1 DEF TypeOK
    <2>3. /\ c \in CallRecord /\ c.op = "answer" /\ c.type = "REPORT"
          /\ c.pcm = MyPcm /\ c.pno = x[2] /\ c.value = fExPtbl[MyPcm][x[2]]
      BY <1>1, <2>1, <2>2, Names DEF Call, CallRecord
    <2>4. GoTo(t, "net_push", c) /\ UNCHANGED <<table, queues, views>> /\ pc[t] = "recv"
      BY <1>7, <2>1 DEF Net32Require, At
    <2>5. "net_push" \in Labels /\ Role(t, "net_push", c) /\ c.op \notin SampleOps
      BY <1>1, <1>7, <2>3 DEF Role, Labels, SampleOps
    <2>6. Settled(MyPcm, x[2]) => c.value = fVal[x[2]]
      BY <2>3 DEF Settled
    <2> QED BY <1>1, <2>3, <2>4, <2>5, <2>6, BeginQuiet DEF Telling
  <1> QED BY <1>2, <1>3, <1>4, <1>5, <1>6, <1>7 DEF Net32Step, Net32Handler

\* Where one thread deals with a point the observer finds the copies equal.
LEMMA ObserverFollows ==
    ASSUME TableInv, FollowInv, NEW t \in Observers, ObserverStep(t)
    PROVE  FollowInv'
  <1>1. PICK n \in Pcms, q \in Points : Observe(n, q)
    <2>1. t \in Threads
      BY DEF Threads
    <2>2. PICK x \in Touches[t] : Observe(x[1], x[2])
      BY DEF ObserverStep
    <2> QED BY <2>1, <2>2
  <1>2. TypeOK /\ LockInv /\ MyPcm \in Pcms
    BY DEF TableInv
  <1>3. /\ lock = NoThread
        /\ fVal' = IF n = MyPcm THEN [fVal EXCEPT ![q] = fExPtbl[n][q]] ELSE fVal
        /\ UNCHANGED <<fPreval, fExPtbl, pc, call, queues, netView, stationView, lost, untold>>
    BY <1>1 DEF Observe
  <1>4. \A u \in Threads : pc[u] \notin Locked
    BY <1>2, <1>3 DEF LockInv
  <1>5. ASSUME NEW p \in Points, Sole(MyPcm, p) PROVE fVal[p] = fExPtbl[MyPcm][p]
    <2>1. Follows(MyPcm, p)
      BY <1>2, <1>5 DEF FollowInv
    <2>2. CASE Quiet(MyPcm, p)
      BY <2>1, <2>2 DEF Follows, Settled
    <2>3. CASE ~Quiet(MyPcm, p)
      <3>1. PICK u \in Threads : About(call[u], MyPcm, p)
        BY <2>3 DEF Quiet, About
      <3> QED BY <1>4, <2>1, <3>1 DEF Follows, Claim, AgreeCall, About
    <2> QED BY <2>2, <2>3
  <1>6. ASSUME NEW pcm \in Pcms, NEW p \in Points, Sole(pcm, p) PROVE Kept(pcm, p)
    <2>1. ValuesKept(pcm, p)
      BY <1>2, <1>3, <1>5, <1>6 DEF ValuesKept, TypeOK
    <2>2. StationKept(pcm, p) /\ NetKept(p)
      BY <1>3 DEF StationKept, NetKept, queues, NetworkWillHold, ReportsOf,
         StationWillHold, MessagesOf
    <2> QED BY <2>1, <2>2 DEF Kept
  <1> QED BY <1>2, <1>3, <1>6, FollowIdle

-----------------------------------------------------------------------------
LEMMA FollowInit == Init => FollowInv
  <1> SUFFICES ASSUME Init PROVE FollowInv
    OBVIOUS
  <1>1. \A t \in Threads : call[t] = NoCall
    BY DEF Init
  <1>2. ASSUME NEW pcm \in Pcms, NEW p \in Points PROVE Settled(pcm, p)
    <2>1. /\ fVal[p] = Initial[MyPcm][p]
          /\ fExPtbl[pcm][p] = Initial[pcm][p] /\ netView[p] = Initial[MyPcm][p]
          /\ stationView[pcm][p] = Initial[pcm][p] /\ fExPtbl[MyPcm][p] = Initial[MyPcm][p]
      BY DEF Init
    <2>2. ReportsOf(p) = {} /\ MessagesOf(pcm, p) = {}
      BY DEF Init, ReportsOf, MessagesOf
    <2>3. NetworkWillHold(p) = netView[p] /\ StationWillHold(pcm, p) = stationView[pcm][p]
      BY <2>2 DEF NetworkWillHold, StationWillHold
    <2>4. p \in lost \/ Close(p, fPreval[p], fVal[p])
      BY DEF Init, Close
    <2>5. p \in lost /\ p \in Inputs => <<MyPcm, p>> \in untold
      BY DEF Init
    <2> QED BY <2>1, <2>3, <2>4, <2>5
        DEF Settled, NetSettled, NetTold, StationTold, Carried, Sampled
  <1> QED BY <1>1, <1>2 DEF FollowInv, RoleInv, Follows, About

LEMMA FollowNext == TableInv /\ TableInv' /\ FollowInv /\ [Next]_vars => FollowInv'
  <1> SUFFICES ASSUME TableInv, TableInv', FollowInv, [Next]_vars PROVE FollowInv'
    OBVIOUS
  <1>0. TypeOK /\ TypeOK'
    BY DEF TableInv
  <1>1. CASE UNCHANGED vars
    <2>1. \A pcm \in Pcms, p \in Points : Kept(pcm, p)
      BY <1>1, AllKept DEF vars, table, queues, views
    <2> QED BY <1>0, <1>1, <2>1, FollowIdle DEF vars
  <1>2. ASSUME NEW t \in Threads, Continue(t) PROVE FollowInv'
    BY <1>0, <1>2, ContinueFollows
  <1>3. ASSUME NEW t \in Setters, SetterStep(t) PROVE FollowInv'
    BY <1>3, SetterFollows
  <1>4. ASSUME NEW t \in Scanners, ScannerStep(t) PROVE FollowInv'
    BY <1>4, ScanFollows DEF Samplers
  <1>5. ASSUME NEW t \in SubioThreads, SubioStep(t) PROVE FollowInv'
    BY <1>5, ScanFollows DEF Samplers
  <1>6. ASSUME NEW t \in ElbaThreads, ElbaStep(t) PROVE FollowInv'
    BY <1>0, <1>6, ElbaFollows
  <1>7. ASSUME NEW t \in Net32Threads, Net32Step(t) PROVE FollowInv'
    BY <1>0, <1>7, Net32Follows
  <1>8. ASSUME NEW t \in Observers, ObserverStep(t) PROVE FollowInv'
    BY <1>8, ObserverFollows
  <1> QED BY <1>1, <1>2, <1>3, <1>4, <1>5, <1>6, <1>7, <1>8 DEF Next

(* What follows the table: in both modes, and for any threads, the call    *)
(* that alone is at work on a point, and the point when nobody is.         *)
THEOREM FollowInvariant == Spec => [](TableInv /\ FollowInv)
  <1>1. Init => TableInv /\ FollowInv
    BY TableInit, FollowInit
  <1>2. (TableInv /\ FollowInv) /\ [Next]_vars => (TableInv /\ FollowInv)'
    BY TableStep, FollowNext
  <1> QED BY <1>1, <1>2, PTL DEF Spec

\* Two values within the hysteresis of a third are near.
LEMMA CloseNear ==
    ASSUME NEW p \in Points, NEW a \in Int, NEW b \in Int, NEW w \in Int,
           Close(p, a, b), Close(p, a, w)
    PROVE  Near(p, w, b)
  <1>1. Hyst[p] \in Nat
    OBVIOUS
  <1> QED BY <1>1 DEF Close, OverHyst, Near, Abs

\* What the receivers will hold are values.
LEMMA HeldType ==
    ASSUME TypeOK, NEW p \in Points
    PROVE  /\ NetworkWillHold(p) \in Int
           /\ \A pcm \in Pcms : StationWillHold(pcm, p) \in Int
  <1>1. /\ net32Queue \in Seq(MessageType) /\ elbaQueue \in Seq(PointType)
        /\ netView \in [Points -> Int] /\ stationView \in [Pcms -> [Points -> Int]]
    BY DEF TypeOK
  <1>2. ASSUME ReportsOf(p) # {} PROVE net32Queue[LastIndex(ReportsOf(p))].value \in Int
    <2>1. ReportsOf(p) \in SUBSET (1 .. Len(net32Queue)) /\ Len(net32Queue) \in Nat
      BY <1>1 DEF ReportsOf
    <2>2. LastIndex(ReportsOf(p)) \in 1 .. Len(net32Queue)
      BY <1>2, <2>1, LastMax
    <2>3. net32Queue[LastIndex(ReportsOf(p))] \in MessageType
      BY <1>1, <2>2
    <2> QED BY <2>3 DEF MessageType
  <1>3. ASSUME NEW pcm \in Pcms, MessagesOf(pcm, p) # {}
        PROVE  elbaQueue[LastIndex(MessagesOf(pcm, p))].value \in Int
    <2>1. MessagesOf(pcm, p) \in SUBSET (1 .. Len(elbaQueue)) /\ Len(elbaQueue) \in Nat
      BY <1>1 DEF MessagesOf
    <2>2. LastIndex(MessagesOf(pcm, p)) \in 1 .. Len(elbaQueue)
      BY <1>3, <2>1, LastMax
    <2>3. elbaQueue[LastIndex(MessagesOf(pcm, p))] \in PointType
      BY <1>1, <2>2
    <2> QED BY <2>3 DEF PointType
  <1> QED BY <1>1, <1>2, <1>3 DEF NetworkWillHold, StationWillHold

(* In net32 mode the other nodes end up within twice the hysteresis of an  *)
(* own point, however the reports, answers and failed writes of            *)
(* net32_mgr.c and the samples and settings of point_handler.c interleave, *)
(* if one thread deals with the point and its last report was not lost.    *)
THEOREM NetworkTold ==
    ASSUME ~MultiDdc
    PROVE  Spec => []NetworkFollows
  <1>1. TableInv /\ FollowInv => NetworkFollows
    <2> SUFFICES ASSUME TableInv, FollowInv, NEW p \in Points,
                        Sole(MyPcm, p), Quiet(MyPcm, p), p \notin lost
                 PROVE  Near(p, NetworkWillHold(p), fVal[p])
      BY DEF NetworkFollows
    <2>1. TypeOK /\ MyPcm \in Pcms
      BY DEF TableInv
    <2>2. Settled(MyPcm, p)
      BY <2>1 DEF FollowInv, Follows
    <2>3. Close(p, fPreval[p], fVal[p]) /\ Close(p, fPreval[p], NetworkWillHold(p))
      BY <2>2 DEF Settled, NetSettled, NetTold
    <2>4. fPreval[p] \in Int /\ fVal[p] \in Int
      BY <2>1 DEF TypeOK
    <2> QED BY <2>1, <2>3, <2>4, HeldType, CloseNear
  <1> QED BY <1>1, FollowInvariant, PTL

(* The station ends up with the value of the table, of a sampled input     *)
(* within twice the hysteresis of it, in both modes, if one thread deals   *)
(* with the point and its last message was not lost (elba_mgr.c,           *)
(* point_handler.c, net32_mgr.c).                                          *)
THEOREM StationTells == Spec => []StationFollows
  <1>1. TableInv /\ FollowInv => StationFollows
    <2> SUFFICES ASSUME TableInv, FollowInv, NEW pcm \in Pcms, NEW p \in Points,
                        Sole(pcm, p), Quiet(pcm, p), <<pcm, p>> \notin untold
                 PROVE  IF pcm = MyPcm /\ p \in Inputs
                        THEN Near(p, StationWillHold(pcm, p), fVal[p])
                        ELSE StationWillHold(pcm, p) = fExPtbl[pcm][p]
      BY DEF StationFollows
    <2>1. TypeOK
      BY DEF TableInv
    <2>2. Settled(pcm, p)
      BY DEF FollowInv, Follows
    <2>3. CASE Sampled(pcm, p)
      <3>1. Close(p, fPreval[p], fVal[p]) /\ Close(p, fPreval[p], StationWillHold(pcm, p))
        BY <2>2, <2>3 DEF Settled, StationTold, Carried, Sampled
      <3>2. fPreval[p] \in Int /\ fVal[p] \in Int
        BY <2>1 DEF TypeOK
      <3> QED BY <2>1, <2>3, <3>1, <3>2, HeldType, CloseNear DEF Sampled
    <2>4. CASE ~Sampled(pcm, p)
      <3>1. StationWillHold(pcm, p) = fExPtbl[pcm][p]
        BY <2>2, <2>4 DEF Settled, StationTold
      <3> QED BY <2>2, <3>1 DEF Settled, Near
    <2> QED BY <2>3, <2>4
  <1> QED BY <1>1, FollowInvariant, PTL

(* With a station in multi-DDC mode too, where its commands write the      *)
(* table once more outside the mutex, the copies of a point that one       *)
(* thread deals with agree whenever the mutex is free (CommandEx).         *)
THEOREM SoleAgreement ==
    Spec => [](lock = NoThread => \A p \in Points :
                  Sole(MyPcm, p) => fVal[p] = fExPtbl[MyPcm][p])
  <1>1. TableInv /\ FollowInv => (lock = NoThread => \A p \in Points :
                  Sole(MyPcm, p) => fVal[p] = fExPtbl[MyPcm][p])
    <2> SUFFICES ASSUME TableInv, FollowInv, lock = NoThread, NEW p \in Points,
                        Sole(MyPcm, p)
                 PROVE  fVal[p] = fExPtbl[MyPcm][p]
      OBVIOUS
    <2>1. \A u \in Threads : pc[u] \notin Locked
      BY DEF TableInv, LockInv
    <2>2. Follows(MyPcm, p)
      BY DEF FollowInv
    <2>3. CASE Quiet(MyPcm, p)
      BY <2>2, <2>3 DEF Follows, Settled
    <2>4. CASE ~Quiet(MyPcm, p)
      <3>1. PICK u \in Threads : About(call[u], MyPcm, p)
        BY <2>4 DEF Quiet, About
      <3> QED BY <2>1, <2>2, <3>1 DEF Follows, Claim, AgreeCall, About
    <2> QED BY <2>3, <2>4
  <1> QED BY <1>1, FollowInvariant, PTL
=============================================================================
