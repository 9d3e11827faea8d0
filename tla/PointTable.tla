----------------------------- MODULE PointTable -----------------------------
(***************************************************************************)
(* The point table of one node and the threads that share it               *)
(* (APP/Src/point_handler.c, net32_data_handler and net32_send_message of  *)
(* net32_mgr.c, elba_parsing and elba_send_message of elba_mgr.c).         *)
(*                                                                         *)
(* A node keeps every value of its own points twice: f_val, in the table   *)
(* of point definitions, drives the hardware, and its row of g_fExPtbl is  *)
(* what everybody reads.  pointTable_mutex covers the two assignments and  *)
(* nothing else: the test that precedes them, the hysteresis test and the  *)
(* pushes that follow are all outside, so each is an action of its own.    *)
(* The queues are FIFOs that drop what does not fit, as PointQueue shows.  *)
(* The point observer copies g_fExPtbl to the files the node restarts from *)
(* (file_check of point_observer.c), and f_val follows where they differ.  *)
(***************************************************************************)
EXTENDS Integers, Sequences, FiniteSets

CONSTANTS Setters,        \* threads that call pSet and pReq (cmd, apg, BACNET...)
          Scanners,       \* the point thread, calling pnt_local_adc
          SubioThreads,   \* the subio thread, calling pnt_local_subio
          Net32Threads,   \* the net32 thread, present in net32 mode only
          ElbaThreads,    \* the elba thread, talking to the station
          Observers,      \* the point observer, if config.dat has it on
          NoThread,       \* owner of a free mutex
          Touches,        \* the <<pcm, pno>> each thread is asked about
          Pcms, MyPcm,    \* the nodes, and this one (g_nMyPcm)
          Points,         \* point numbers
          Outputs,        \* own points of type VR, DO or VO
          Inputs,         \* own points of type DI2S, JPT, CI or VI
          Values,         \* values that callers, peers and sensors deliver
          MinVal, MaxVal, Hyst,   \* f_min, f_max and f_hyst of own points
          Initial,        \* the saved table the node starts from: zeros, or
                          \* whatever the files hold, within the limits or not
          MultiDdc,       \* g_nMultiDdcFlag
          Net32Capacity, ElbaCapacity, UclientCapacity
                          \* messages a queue has room for (MAX_QUEUE_SIZE - 1);
                          \* 0 is a queue nobody pops, long since full

Threads == Setters \cup Scanners \cup SubioThreads
              \cup Net32Threads \cup ElbaThreads \cup Observers

\* Each thread has one main loop: the observer's and the point manager's (its
\* subio handler is a thread of its own) issue none of the other calls.
ASSUME TableAssumption ==
    /\ NoThread \notin Threads
    /\ Observers \cap (Setters \cup Scanners \cup SubioThreads
                         \cup Net32Threads \cup ElbaThreads) = {}
    /\ (Scanners \cup SubioThreads)
          \cap (Setters \cup Net32Threads \cup ElbaThreads) = {}
    /\ Touches \in [Threads -> SUBSET (Pcms \X Points)]
    /\ MyPcm \in Pcms
    /\ Outputs \subseteq Points
    /\ Inputs \subseteq Points
    /\ Outputs \cap Inputs = {}
    /\ Values \subseteq Int
    /\ MinVal \in [Points -> Int]
    /\ MaxVal \in [Points -> Int]
    /\ Hyst \in [Points -> Nat]
    /\ \A p \in Points : MinVal[p] <= MaxVal[p]
    /\ Initial \in [Pcms -> [Points -> Int]]
    /\ MultiDdc \in BOOLEAN
    /\ {Net32Capacity, ElbaCapacity, UclientCapacity} \subseteq Nat

VARIABLES fVal,          \* g_pPtbl[pno].f_val
          fPreval,       \* g_pPtbl[pno].f_preval: the value reported last
          fExPtbl,       \* g_fExPtbl[pcm][pno]
          lock,          \* owner of pointTable_mutex
          pc,            \* what each thread does next
          call,          \* the point_info a thread carries, and for what
          net32Queue,    \* messages for the net32 driver
          elbaQueue,     \* messages for the monitoring station
          uclientQueue,  \* messages for the user client, which nobody pops
          netView,       \* own points as the other nodes were told
          stationView,   \* points as the station was told
          pointFile,     \* the values in point00.dat, point01.dat, ...
          lost,          \* history: own points whose last report was dropped, or
                         \* that start with another f_preval, until one gets out
          untold         \* history: the same of messages to the station

table == <<fVal, fPreval, fExPtbl, lock>>
queues == <<net32Queue, elbaQueue, uclientQueue>>
views == <<netView, stationView, pointFile, lost, untold>>
vars == <<fVal, fPreval, fExPtbl, lock, pc, call, net32Queue, elbaQueue,
          uclientQueue, netView, stationView, pointFile, lost, untold>>

\* On whose behalf a thread works, which decides where it goes on.
Ops == {"pset", "command", "echo", "forward", "require", "adc", "subio",
        "report", "same", "other", "answer", "request"}
MessageTypes == {"NONE", "REPORT", "COMMAND", "REQUIRE"}
Labels == {"idle", "recv", "compare", "write_ex", "multi_val", "adc_lock",
           "adc_val", "pset_lock", "hyst", "preval", "net_push", "elba_push", "cmd_ex",
           "uclient_push"}
\* Between these a thread owns pointTable_mutex.
Locked == {"write_ex", "multi_val", "adc_val"}

NoCall == [op |-> "none"]
Call(op, type, pcm, p, v) ==
    [op |-> op, type |-> type, pcm |-> pcm, pno |-> p, value |-> v]

\* pnt_ismax, then pnt_ismin.
AtMostMax(p, v) == IF MaxVal[p] < v THEN MaxVal[p] ELSE v
AtLeastMin(p, v) == IF v < MinVal[p] THEN MinVal[p] ELSE v
\* Mutant: pnt_ismax is not called.
ClampMinOnly(p, v) == AtLeastMin(p, v)

Clamp(p, v) == AtLeastMin(p, AtMostMax(p, v))

Abs(x) == IF x < 0 THEN -x ELSE x

\* Mutant: the comparison is the wrong way round.
OverHystSwapped(p, prev, v) == prev # v /\ Abs(prev - v) <= Hyst[p]

\* pnt_is_hyst, the test: an equal value is never over, even with f_hyst = 0.
OverHyst(p, prev, v) == prev # v /\ Abs(prev - v) >= Hyst[p]

\* putq through a *_push_queue, which ignores QUEUE_FULL.
Push(q, room, m) == IF Len(q) < room THEN Append(q, m) ELSE q

-----------------------------------------------------------------------------
\* point_table_init: f_val starts from the saved table, as it is; so does
\* f_preval, but without a PointDefine.dat it is 0.
Init == /\ fVal = Initial[MyPcm]
        /\ fPreval \in {Initial[MyPcm], [p \in Points |-> 0]}
        /\ fExPtbl = Initial
        /\ lock = NoThread
        /\ pc = [t \in Threads |-> "idle"]
        /\ call = [t \in Threads |-> NoCall]
        /\ net32Queue = << >>
        /\ elbaQueue = << >>
        /\ uclientQueue = << >>
        /\ netView = Initial[MyPcm]
        /\ stationView = Initial
        /\ pointFile = Initial
        /\ lost = {p \in Points : OverHyst(p, fPreval[p], fVal[p])}
        /\ untold = {MyPcm} \X (lost \cap Inputs)

\* Thread t goes on at label l with call c; at idle the call is over.
GoTo(t, l, c) == /\ pc' = [pc EXCEPT ![t] = l]
                 /\ call' = [call EXCEPT ![t] = IF l = "idle" THEN NoCall ELSE c]

Stay(t, l) == GoTo(t, l, call[t])

\* Thread t is at label l.
At(t, l) == pc[t] = l

-----------------------------------------------------------------------------
(* pSet, multi-DDC mode: the table is written at once, without a look at   *)
(* the type or the limits of the point.                                    *)
PSetMultiOther(t, op, pcm, p, v) ==
    /\ MultiDdc
    /\ pcm # MyPcm
    /\ lock = NoThread
    /\ fExPtbl' = [fExPtbl EXCEPT ![pcm][p] = v]
    /\ GoTo(t, IF fExPtbl[pcm][p] # v THEN "elba_push"
               ELSE IF op = "command" THEN "cmd_ex" ELSE "idle",
            Call(op, "NONE", pcm, p, v))
    /\ UNCHANGED <<fVal, fPreval, lock, queues, views>>

PSetMultiOwn(t, op, p, v) ==
    /\ MultiDdc
    /\ lock = NoThread
    /\ lock' = t
    /\ fExPtbl' = [fExPtbl EXCEPT ![MyPcm][p] = v]
    /\ GoTo(t, "multi_val", Call(op, "NONE", MyPcm, p, v))
    /\ UNCHANGED <<fVal, fPreval, queues, views>>

\* Mutant: the second copy is forgotten.
MultiValForgotten(t) == /\ At(t, "multi_val")
                        /\ lock' = NoThread
                        /\ Stay(t, "elba_push")
                        /\ UNCHANGED <<fVal, fPreval, fExPtbl, queues, views>>

MultiVal(t) == /\ At(t, "multi_val")
               /\ fVal' = [fVal EXCEPT ![call[t].pno] = call[t].value]
               /\ lock' = NoThread
               /\ Stay(t, "elba_push")
               /\ UNCHANGED <<fPreval, fExPtbl, queues, views>>

\* pSet, net32 mode, a point of another node: a COMMAND for the network.
PSetForward(t, pcm, p, v) ==
    /\ ~MultiDdc
    /\ pcm # MyPcm
    /\ GoTo(t, "net_push", Call("forward", "COMMAND", pcm, p, v))
    /\ UNCHANGED <<table, queues, views>>

\* pnt_local_pset up to its test; a point that is no output is left alone.
LocalPset(t, p, v) ==
    /\ GoTo(t, IF p \in Outputs THEN "compare" ELSE "idle",
            Call("pset", "NONE", MyPcm, p, Clamp(p, v)))
    /\ UNCHANGED <<table, queues, views>>

PSet(t, op, pcm, p, v) ==
    \/ PSetMultiOther(t, op, pcm, p, v)
    \/ pcm = MyPcm /\ PSetMultiOwn(t, op, p, v)
    \/ PSetForward(t, pcm, p, v)
    \/ ~MultiDdc /\ pcm = MyPcm /\ LocalPset(t, p, v)

\* pnt_local_pset: f_val read without the mutex, then both writes under it.
PsetSame(t) == /\ At(t, "compare")
               /\ fVal[call[t].pno] = call[t].value
               /\ Stay(t, "elba_push")
               /\ UNCHANGED <<table, queues, views>>

\* The test was passed earlier: whatever f_val is by now, it is overwritten.
PsetChanged(t) == /\ At(t, "compare")
                  /\ fVal[call[t].pno] # call[t].value
                  /\ Stay(t, "pset_lock")
                  /\ UNCHANGED <<table, queues, views>>

\* Mutant: the mutex is not taken into account.
PsetLockUnguarded(t) ==
    /\ At(t, "pset_lock")
    /\ lock' = t
    /\ fVal' = [fVal EXCEPT ![call[t].pno] = call[t].value]
    /\ Stay(t, "write_ex")
    /\ UNCHANGED <<fPreval, fExPtbl, queues, views>>

PsetLock(t) == /\ At(t, "pset_lock")
               /\ lock = NoThread
               /\ lock' = t
               /\ fVal' = [fVal EXCEPT ![call[t].pno] = call[t].value]
               /\ Stay(t, "write_ex")
               /\ UNCHANGED <<fPreval, fExPtbl, queues, views>>

\* Mutant: the mutex is not released.
PsetKeepsLock(t) ==
    /\ At(t, "write_ex")
    /\ fExPtbl' = [fExPtbl EXCEPT ![MyPcm][call[t].pno] = call[t].value]
    /\ Stay(t, "hyst")
    /\ UNCHANGED <<fVal, fPreval, lock, queues, views>>

PsetUnlock(t) == /\ At(t, "write_ex")
                 /\ fExPtbl' = [fExPtbl EXCEPT ![MyPcm][call[t].pno] = call[t].value]
                 /\ lock' = NoThread
                 /\ Stay(t, "hyst")
                 /\ UNCHANGED <<fVal, fPreval, queues, views>>

-----------------------------------------------------------------------------
(* pnt_local_adc and pnt_local_subio: the sample is compared before it is  *)
(* clamped, and g_fExPtbl is written before f_val.                         *)
Sample(t, op, p, v) ==
    /\ At(t, "idle")
    /\ p \in Inputs
    /\ fVal[p] # v
    /\ GoTo(t, "adc_lock", Call(op, "NONE", MyPcm, p, Clamp(p, v)))
    /\ UNCHANGED <<table, queues, views>>

AdcLock(t) == /\ At(t, "adc_lock")
              /\ lock = NoThread
              /\ lock' = t
              /\ fExPtbl' = [fExPtbl EXCEPT ![MyPcm][call[t].pno] = call[t].value]
              /\ Stay(t, "adc_val")
              /\ UNCHANGED <<fVal, fPreval, queues, views>>

AdcUnlock(t) == /\ At(t, "adc_val")
                /\ fVal' = [fVal EXCEPT ![call[t].pno] = call[t].value]
                /\ lock' = NoThread
                /\ Stay(t, "hyst")
                /\ UNCHANGED <<fPreval, fExPtbl, queues, views>>

\* pnt_is_hyst, without the mutex: f_preval is read here and written later.
IsHyst(t) ==
    LET p == call[t].pno
    IN /\ At(t, "hyst")
       /\ GoTo(t, IF OverHyst(p, fPreval[p], call[t].value) THEN "preval"
                  ELSE IF call[t].op = "pset" THEN "elba_push" ELSE "idle",
               [call[t] EXCEPT !.type = "REPORT"])
       /\ UNCHANGED <<table, queues, views>>

SetPreval(t) == /\ At(t, "preval")
                /\ fPreval' = [fPreval EXCEPT ![call[t].pno] = call[t].value]
                /\ Stay(t, "net_push")
                /\ UNCHANGED <<fVal, fExPtbl, lock, queues, views>>

-----------------------------------------------------------------------------
\* What each caller does after a push, in the order of its statements.
AfterNetPush(op) == IF op \in {"pset", "adc", "subio", "request"} THEN "elba_push"
                    ELSE IF op = "answer" THEN "uclient_push" ELSE "idle"
AfterElbaPush(op) == IF op = "command" THEN "cmd_ex"
                     ELSE IF op \in {"subio", "report"} THEN "uclient_push"
                     ELSE "idle"

PointOf(c) == [pcm |-> c.pcm, pno |-> c.pno, value |-> c.value]

\* What the last push of x did: x is missed from a full queue, or caught up.
Missed(set, q, room, x) == IF Len(q) < room THEN set \ {x} ELSE set \cup {x}

\* A report of an own point that does not fit is lost to the network; a point
\* that started with another f_preval is caught up by a report close to it.
NetPush(t) ==
    LET c == call[t]
        strays == c.pno \in lost /\ OverHyst(c.pno, fPreval[c.pno], c.value)
    IN /\ At(t, "net_push")
       /\ net32Queue' = Push(net32Queue, Net32Capacity,
                             [type |-> c.type, pcm |-> c.pcm,
                              pno |-> c.pno, value |-> c.value])
       /\ lost' = IF c.type # "REPORT" \/ strays THEN lost
                  ELSE Missed(lost, net32Queue, Net32Capacity, c.pno)
       /\ Stay(t, AfterNetPush(c.op))
       /\ UNCHANGED <<table, elbaQueue, uclientQueue, netView, stationView, pointFile, untold>>

ElbaPush(t) ==
    LET c == call[t]
    IN /\ At(t, "elba_push")
       /\ elbaQueue' = Push(elbaQueue, ElbaCapacity, PointOf(c))
       /\ untold' = Missed(untold, elbaQueue, ElbaCapacity, <<c.pcm, c.pno>>)
       /\ Stay(t, AfterElbaPush(c.op))
       /\ UNCHANGED <<table, net32Queue, uclientQueue, netView, stationView, pointFile, lost>>

UclientPush(t) == /\ At(t, "uclient_push")
                  /\ uclientQueue' = Push(uclientQueue, UclientCapacity, PointOf(call[t]))
                  /\ Stay(t, "idle")
                  /\ UNCHANGED <<table, net32Queue, elbaQueue, views>>

-----------------------------------------------------------------------------
\* cmd_pset, apg_parsing, dbsvr_handler and the plug-ins.
Set(t, pcm, p, v) == At(t, "idle") /\ PSet(t, "pset", pcm, p, v)

\* pReq: ask for a point, whoever owns it.
PReq(t, pcm, p) == /\ At(t, "idle")
                   /\ GoTo(t, "net_push", Call("require", "REQUIRE", pcm, p, 0))
                   /\ UNCHANGED <<table, queues, views>>

\* elba_parsing, 0x00: the value read now is sent up after the request went out.
ElbaRequest(t, pcm, p) ==
    /\ At(t, "idle")
    /\ lock = NoThread
    /\ GoTo(t, "net_push", Call("request", "REQUIRE", pcm, p, fExPtbl[pcm][p]))
    /\ UNCHANGED <<table, queues, views>>

\* elba_parsing, 0x40: pSet, and in multi-DDC mode the table once more.
ElbaCommand(t, pcm, p, v) ==
    At(t, "idle") /\ PSet(t, IF MultiDdc THEN "command" ELSE "pset", pcm, p, v)

CommandEx(t) ==
    LET c == call[t]
    IN /\ At(t, "cmd_ex")
       /\ lock = NoThread
       /\ fExPtbl' = [fExPtbl EXCEPT ![c.pcm][c.pno] = c.value]
       /\ GoTo(t, "elba_push", [c EXCEPT !.op = "echo"])
       /\ UNCHANGED <<fVal, fPreval, lock, queues, views>>

(* elba_send_message, one message of the batch: the station is told, or    *)
(* the connection is gone, and what was popped for it with it.             *)
ElbaSend(t) ==
    /\ At(t, "idle")
    /\ elbaQueue # << >>
    /\ LET m == Head(elbaQueue)
           again == \E i \in 2 .. Len(elbaQueue) :
                       elbaQueue[i].pcm = m.pcm /\ elbaQueue[i].pno = m.pno
       IN \/ /\ stationView' = [stationView EXCEPT ![m.pcm][m.pno] = m.value]
             /\ UNCHANGED untold
          \/ /\ untold' = IF again THEN untold ELSE untold \cup {<<m.pcm, m.pno>>}
             /\ UNCHANGED stationView
    /\ elbaQueue' = Tail(elbaQueue)
    /\ UNCHANGED <<table, pc, call, net32Queue, uclientQueue, netView, pointFile, lost>>

-----------------------------------------------------------------------------
(* net32_send_message, the first half of the net32 loop: at most one       *)
(* message.  What the driver does not take of it is gone: nobody looks at  *)
(* the result of write.                                                    *)
Net32Send(t) ==
    /\ At(t, "idle")
    /\ net32Queue # << >>
    /\ LET m == Head(net32Queue)
           told == IF m.type = "REPORT" THEN [netView EXCEPT ![m.pno] = m.value]
                                        ELSE netView
           again == \E i \in 2 .. Len(net32Queue) :
                       net32Queue[i].type = "REPORT" /\ net32Queue[i].pno = m.pno
       IN \/ netView' = told /\ UNCHANGED lost
          \/ /\ m.type = "REPORT"
             /\ lost' = IF again THEN lost ELSE lost \cup {m.pno}
             /\ UNCHANGED netView
    /\ net32Queue' = Tail(net32Queue)
    /\ Stay(t, "recv")
    /\ UNCHANGED <<table, elbaQueue, uclientQueue, stationView, pointFile, untold>>

Net32NothingToSend(t) == /\ At(t, "idle")
                         /\ net32Queue = << >>
                         /\ Stay(t, "recv")
                         /\ UNCHANGED <<table, queues, views>>

Net32NothingReceived(t) == /\ At(t, "recv")
                           /\ Stay(t, "idle")
                           /\ UNCHANGED <<table, queues, views>>

\* Mutant: the report of another node is not passed on to the station.
Net32ReportKept(t, pcm, p, v) ==
    /\ At(t, "recv")
    /\ pcm # MyPcm
    /\ lock = NoThread
    /\ fExPtbl' = [fExPtbl EXCEPT ![pcm][p] = v]
    /\ GoTo(t, "uclient_push", Call("report", "REPORT", pcm, p, v))
    /\ UNCHANGED <<fVal, fPreval, lock, queues, views>>

\* net32_data_handler, 0x20: the value of another node's point.
Net32Report(t, pcm, p, v) ==
    /\ At(t, "recv")
    /\ pcm # MyPcm
    /\ lock = NoThread
    /\ fExPtbl' = [fExPtbl EXCEPT ![pcm][p] = v]
    /\ GoTo(t, "elba_push", Call("report", "REPORT", pcm, p, v))
    /\ UNCHANGED <<fVal, fPreval, lock, queues, views>>

\* net32_data_handler, 0x40, for this node: a value it has is only reported.
Net32CommandSame(t, p, v) ==
    /\ At(t, "recv")
    /\ v = fVal[p]
    /\ GoTo(t, "net_push", Call("same", "REPORT", MyPcm, p, v))
    /\ UNCHANGED <<table, queues, views>>

Net32CommandSet(t, p, v) == /\ At(t, "recv")
                            /\ v # fVal[p]
                            /\ LocalPset(t, p, v)

\* net32_data_handler, 0x40, for another node: only the user client hears of it.
Net32CommandOther(t, pcm, p, v) ==
    /\ At(t, "recv")
    /\ pcm # MyPcm
    /\ GoTo(t, "uclient_push", Call("other", "REPORT", pcm, p, v))
    /\ UNCHANGED <<table, queues, views>>

\* net32_data_handler, 0x00: the value read under the mutex is pushed after it.
Net32Require(t, p) ==
    /\ At(t, "recv")
    /\ lock = NoThread
    /\ GoTo(t, "net_push", Call("answer", "REPORT", MyPcm, p, fExPtbl[MyPcm][p]))
    /\ UNCHANGED <<table, queues, views>>

-----------------------------------------------------------------------------
(* file_check, one value of a file that differs: it is rewritten, and an   *)
(* own f_val set to g_fExPtbl, which mends copies that differ, but only if *)
(* the observer comes round while the file still holds another value.      *)
Observe(pcm, p) ==
    LET v == fExPtbl[pcm][p]
    IN /\ lock = NoThread
       /\ pointFile[pcm][p] # v
       /\ pointFile' = [pointFile EXCEPT ![pcm][p] = v]
       /\ fVal' = IF pcm = MyPcm THEN [fVal EXCEPT ![p] = v] ELSE fVal
       /\ UNCHANGED <<fPreval, fExPtbl, lock, pc, call, queues,
                      netView, stationView, lost, untold>>

-----------------------------------------------------------------------------
\* The steps of a call in progress.
Continue(t) == \/ MultiVal(t)
               \/ PsetSame(t) \/ PsetChanged(t) \/ PsetLock(t) \/ PsetUnlock(t)
               \/ AdcLock(t) \/ AdcUnlock(t)
               \/ IsHyst(t) \/ SetPreval(t)
               \/ NetPush(t) \/ ElbaPush(t) \/ UclientPush(t)
               \/ CommandEx(t)

SetterStep(t) ==
    \E x \in Touches[t] : \/ \E v \in Values : Set(t, x[1], x[2], v)
                          \/ PReq(t, x[1], x[2])

ScannerStep(t) ==
    \E x \in Touches[t], v \in Values : x[1] = MyPcm /\ Sample(t, "adc", x[2], v)

SubioStep(t) ==
    \E x \in Touches[t], v \in Values : x[1] = MyPcm /\ Sample(t, "subio", x[2], v)

ElbaStep(t) ==
    \/ ElbaSend(t)
    \/ \E x \in Touches[t] : \/ ElbaRequest(t, x[1], x[2])
                             \/ \E v \in Values : ElbaCommand(t, x[1], x[2], v)

ObserverStep(t) == \E x \in Touches[t] : Observe(x[1], x[2])

Net32Loop(t) == Net32Send(t) \/ Net32NothingToSend(t) \/ Net32NothingReceived(t)

Net32Handler(t) ==
    \E x \in Touches[t] :
       \/ \E v \in Values : \/ Net32Report(t, x[1], x[2], v)
                            \/ Net32CommandOther(t, x[1], x[2], v)
       \/ /\ x[1] = MyPcm
          /\ \/ \E v \in Values : \/ Net32CommandSame(t, x[2], v)
                                  \/ Net32CommandSet(t, x[2], v)
             \/ Net32Require(t, x[2])

Net32Step(t) == Net32Loop(t) \/ Net32Handler(t)

Next == \/ \E t \in Threads : Continue(t)
        \/ \E t \in Setters : SetterStep(t)
        \/ \E t \in Scanners : ScannerStep(t)
        \/ \E t \in SubioThreads : SubioStep(t)
        \/ \E t \in ElbaThreads : ElbaStep(t)
        \/ \E t \in Net32Threads : Net32Step(t)
        \/ \E t \in Observers : ObserverStep(t)

Spec == Init /\ [][Next]_vars

-----------------------------------------------------------------------------
CallRecord == [op : Ops, type : MessageTypes, pcm : Pcms, pno : Points, value : Int]
PointType == [pcm : Pcms, pno : Points, value : Int]
MessageType == [type : MessageTypes, pcm : Pcms, pno : Points, value : Int]

\* Every variable of the table, the threads and the queues has its type.
TypeOK == /\ fVal \in [Points -> Int]
          /\ fPreval \in [Points -> Int]
          /\ fExPtbl \in [Pcms -> [Points -> Int]]
          /\ lock \in Threads \cup {NoThread}
          /\ pc \in [Threads -> Labels]
          /\ call \in [Threads -> CallRecord \cup {NoCall}]
          /\ net32Queue \in Seq(MessageType)
          /\ elbaQueue \in Seq(PointType)
          /\ uclientQueue \in Seq(PointType)
          /\ netView \in [Points -> Int]
          /\ stationView \in [Pcms -> [Points -> Int]]
          /\ pointFile \in [Pcms -> [Points -> Int]]
          /\ lost \subseteq Points
          /\ untold \subseteq Pcms \X Points

(* The two copies of an own value agree whenever nobody is inside the      *)
(* critical section (pnt_local_pset, pnt_local_adc and pSet write f_val    *)
(* and g_fExPtbl one after the other).                                     *)
TablesAgree == lock = NoThread => \A p \in Points : fVal[p] = fExPtbl[MyPcm][p]

Legal(p, v) == v \in MinVal[p] .. MaxVal[p]

\* A value that is within the limits, or was there at the start.
Stands(p, v) == Legal(p, v) \/ v = Initial[MyPcm][p]

(* In net32 mode nobody brings a value outside a point's limits into the   *)
(* table, the file the node restarts from, or a report to the network: not *)
(* even when two callers race between pnt_ismax, the test of f_val and the *)
(* push.  The start may, since point_table_init takes over what the file   *)
(* holds: such a value is in the table only while the file has it too.     *)
WithinLimits ==
    /\ \A p \in Points : /\ Stands(p, fVal[p])
                         /\ Stands(p, pointFile[MyPcm][p])
                         /\ Stands(p, netView[p])
                         /\ Legal(p, fVal[p]) \/ pointFile[MyPcm][p] = fVal[p]
    /\ \A i \in 1 .. Len(net32Queue) :
          LET m == net32Queue[i] IN m.type = "REPORT" => Stands(m.pno, m.value)

\* Where a thread deals with an own point, its value already clamped.
OwnLabels == {"compare", "pset_lock", "write_ex", "multi_val", "adc_lock",
              "adc_val", "hyst", "preval"}

\* A REPORT on its way to the queue.
Reporting(l, c) == l = "net_push" /\ c.type = "REPORT"

\* What a thread knows of the call it carries.
CallInv(t) ==
    IF pc[t] \in {"idle", "recv"} THEN call[t] = NoCall
    ELSE /\ call[t] \in CallRecord
         /\ pc[t] \in OwnLabels => call[t].pcm = MyPcm
         /\ call[t].op = "command" => MultiDdc /\ t \in ElbaThreads
         /\ pc[t] = "cmd_ex" => call[t].op = "command"
         /\ pc[t] = "multi_val" => MultiDdc
         /\ \/ MultiDdc
            \/ /\ pc[t] \notin OwnLabels
               /\ Reporting(pc[t], call[t]) => Stands(call[t].pno, call[t].value)
            \/ Legal(call[t].pno, call[t].value)

LockInv == \A t \in Threads : pc[t] \in Locked <=> lock = t

(* The copies of p agree unless the owner of the mutex is at work on p; of *)
(* the two copies it deals with, the one already written holds its value.  *)
AgreeInv ==
    /\ \A p \in Points :
          \/ fVal[p] = fExPtbl[MyPcm][p]
          \/ \E t \in Threads : pc[t] \in Locked /\ call[t].pno = p
    /\ \A t \in Threads :
          LET p == call[t].pno
          IN /\ pc[t] = "write_ex" => fVal[p] = call[t].value
             /\ pc[t] \in {"multi_val", "adc_val"} => fExPtbl[MyPcm][p] = call[t].value

LimitInv == WithinLimits /\ \A p \in Points : Stands(p, fExPtbl[MyPcm][p])

(* The inductive invariant of the table.  The second write of a command of *)
(* the station, in multi-DDC mode, is the one step that breaks agreement.  *)
TableInv == /\ TypeOK
            /\ \A t \in Threads : CallInv(t)
            /\ LockInv
            /\ ~MultiDdc \/ ElbaThreads = {} => AgreeInv
            /\ ~MultiDdc => LimitInv

\* One thread alone, and perhaps the observer, ever deals with the point.
Sole(pcm, p) == \E t \in Threads :
                   \A u \in Threads \ Observers : <<pcm, p>> \in Touches[u] => u = t

(* A value that is within the limits, in the table or in the file, is never *)
(* replaced by one that is not, whatever the start left elsewhere.          *)
StaysLegal(p) == /\ Legal(p, fVal[p]) => Legal(p, fVal'[p])
                 /\ Legal(p, pointFile[MyPcm][p]) => Legal(p, pointFile'[MyPcm][p])
LimitsKept == [][\A p \in Points : StaysLegal(p)]_vars

\* No call about the point is in progress.
Quiet(pcm, p) == \A t \in Threads :
                    call[t] # NoCall => call[t].pcm # pcm \/ call[t].pno # p

\* What the other nodes, or the station, hold once the queue has drained.
LastIndex(S) == CHOOSE i \in S : \A j \in S : j <= i
ReportsOf(p) == {i \in 1 .. Len(net32Queue) : /\ net32Queue[i].type = "REPORT"
                                             /\ net32Queue[i].pno = p}
NetworkWillHold(p) == IF ReportsOf(p) = {} THEN netView[p]
                      ELSE net32Queue[LastIndex(ReportsOf(p))].value
MessagesOf(pcm, p) == {i \in 1 .. Len(elbaQueue) : /\ elbaQueue[i].pcm = pcm
                                                  /\ elbaQueue[i].pno = p}
StationWillHold(pcm, p) == IF MessagesOf(pcm, p) = {} THEN stationView[pcm][p]
                           ELSE elbaQueue[LastIndex(MessagesOf(pcm, p))].value

\* Two values either of which is within the hysteresis of a third one.
Near(p, v, w) == v = w \/ Abs(v - w) < 2 * Hyst[p]

(* A point that one thread alone deals with: when no call is in progress   *)
(* and its last report was not dropped by a full queue, the other nodes    *)
(* end up within twice the hysteresis of the table.  Twice, because an     *)
(* answer to REQUIRE or to an equal COMMAND does not move f_preval.        *)
NetworkFollows ==
    \A p \in Points : Sole(MyPcm, p) /\ Quiet(MyPcm, p) /\ p \notin lost
                        => Near(p, NetworkWillHold(p), fVal[p])

(* The same for the station, which is told every value of an output and of *)
(* another node's point, and an input's when it exceeds the hysteresis.    *)
StationFollows ==
    \A pcm \in Pcms, p \in Points :
       Sole(pcm, p) /\ Quiet(pcm, p) /\ <<pcm, p>> \notin untold
          => IF pcm = MyPcm /\ p \in Inputs
             THEN Near(p, StationWillHold(pcm, p), fVal[p])
             ELSE StationWillHold(pcm, p) = fExPtbl[pcm][p]
=============================================================================
