----------------------------- MODULE GhpControl -----------------------------
(***************************************************************************)
(* The gas heat pump controller of a building and the thread that keeps    *)
(* the point table in step with it (APP/Iface/IFACE_GHP: hong_while of     *)
(* iface_hong.c, ghp_app.c, ghp_comm.c).                                   *)
(*                                                                         *)
(* Every setting of an indoor unit is in three places: the point table,    *)
(* which users, schedules and groups write at any time, prePtbl, the       *)
(* thread's shadow of it, and the unit itself, which has a remote control. *)
(* A table value that differs from its shadow is a command and is queued   *)
(* for the controller; a report of a unit is written to table and shadow.  *)
(* Nothing is locked between the two, messages are sent without looking at *)
(* the answer, and a report may be older than the command it meets.        *)
(***************************************************************************)
EXTENDS Integers, Sequences, FiniteSets

CONSTANTS UnitCnt,      \* g_unitCnt: indoor units of this building
          Values,       \* values a setting may take, in table and shadow
          Initial,      \* the saved table the thread starts from
          Wishes,       \* the <<item, unit, value>> users ask for
          Remotes,      \* the <<item, unit, value>> remote controls set
          QueueRoom,    \* messages ghp_message_queue has room for
          BatchSize,    \* messages in one text of Do_User_Control
          MaxLoops,     \* texts in one turn of ST_GET_USER_CONTROL
          ReadSize,     \* units asked for in one text of Get_Ghp_Unit
          MaxTexts,     \* bound: texts the controller keeps for the next polls
          MaxEvents,    \* bound: wishes, remote controls, failures and losses
          AsksAgain     \* the controller repeats its startup request

Units == 0 .. UnitCnt - 1

\* CheckUserControl: the order in which the settings are compared.
CheckOrder == <<"onoff", "mode", "temp", "speed", "direction">>
\* Get_Ghp_Unit: the order in which a unit is asked, and answers.
ReportOrder == <<"onoff", "mode", "temp", "room", "speed", "direction">>
Items == {CheckOrder[k] : k \in 1 .. 5}

NoWish == -1
Reports == [kind : {"report"}, unit : Units, value : [Items -> Int]]
Answers == Reports \cup [kind : {"error"}, unit : Units]
              \cup {[kind |-> "startup"], [kind |-> "reject"]}
NoText == [kind |-> "none"]

ASSUME GhpAssumption ==
    /\ UnitCnt \in Nat \ {0}
    /\ Values \subseteq Nat
    /\ {0, 1, 2} \subseteq Values
    /\ Initial \in [Items -> [Units -> Values]]
    /\ Wishes \subseteq Items \X Units \X Values
    /\ Remotes \subseteq Items \X Units \X Values
    /\ {QueueRoom, BatchSize, MaxLoops, ReadSize, MaxTexts} \subseteq Nat \ {0}
    /\ MaxEvents \in Nat
    /\ AsksAgain \in BOOLEAN

VARIABLES table,    \* g_fExPtbl of the settings
          by,       \* who wrote the table last: "user" or "unit"
          pre,      \* prePtbl
          error,    \* the units whose GHP_ERROR point is set
          queue,    \* ghp_message_queue
          st,       \* the stage of hong_while
          at,       \* what the thread does next in it
          k,        \* which setting it is at
          n,        \* polls or texts of this stage so far
          unit,     \* the unit Get_Ghp_Unit asked last
          text,     \* the answer being written to the table
          real,     \* the settings of the units, as they are on the line
          failing,  \* the units that answer with an error
          up,       \* the controller has been started up
          outbox,   \* what it says in the next polls
          wish,     \* history: what a user last asked for and may still get
          events    \* bound: outside events so far

values == <<table, by, pre, error>>
thread == <<st, at, k, n, unit, text>>
outside == <<real, failing, up, outbox>>
vars == <<table, by, pre, error, queue, st, at, k, n, unit, text,
          real, failing, up, outbox, wish, events>>

\* Do_User_Control and Write_Point: only the wind direction is shifted by one.
ToLine(i, v) == IF i = "direction" THEN v + 1 ELSE v
FromLine(i, v) == IF i = "direction" THEN v - 1 ELSE v

\* init_queue: the shadow starts as the table, the queue empty.
Init == /\ table = Initial
        /\ by = [i \in Items |-> [u \in Units |-> "unit"]]
        /\ pre = Initial
        /\ error = {}
        /\ queue = << >>
        /\ st = "POLLING" /\ at = "poll"
        /\ k = 1
        /\ n = 0
        /\ unit = 0
        /\ text = NoText
        /\ real = [i \in Items |-> [u \in Units |-> ToLine(i, Initial[i][u])]]
        /\ failing = {}
        /\ up = TRUE
        /\ outbox = << >>
        /\ wish = [i \in Items |-> [u \in Units |-> NoWish]]
        /\ events = 0

\* The setting of a report that is about to be written, of those in the text.
Item == ReportOrder[k]

\* Mutant: a report is believed whatever is pending.
NeverPending(u) == FALSE

\* An on/off command that has not been queued yet: "blocking".
Pending(u) == pre["onoff"][u] # table["onoff"][u]
Racing(i, u) == at = "write" /\ Item = i /\ text.unit = u

\* One more event from outside, as long as the bound allows.
Event == events < MaxEvents /\ events' = events + 1

\* The thread goes on at label l of stage s.
GoTo(s, l) == st' = s /\ at' = l

-----------------------------------------------------------------------------
\* The messages under way for a setting, and what they will leave the unit at.
MessagesOf(i, u) == {j \in 1 .. Len(queue) : queue[j].item = i /\ queue[j].unit = u}
Latest(S) == CHOOSE j \in S : \A l \in S : l <= j
Coming(i, u) == IF MessagesOf(i, u) = {} THEN FromLine(i, real[i][u])
                ELSE queue[Latest(MessagesOf(i, u))].value

(* pSet by a user, a group or a schedule.  Where the shadow has the value  *)
(* already nothing will be sent: that is all the user gets.  A call that   *)
(* falls between the test of Write_Point and its pSet may be overwritten.  *)
Ask(i, u, v) ==
    /\ Event
    /\ table' = [table EXCEPT ![i][u] = v]
    /\ by' = [by EXCEPT ![i][u] = "user"]
    /\ wish' = [wish EXCEPT ![i][u] =
                   IF ~Racing(i, u) /\ (v # pre[i][u] \/ v = Coming(i, u))
                   THEN v ELSE NoWish]
    /\ UNCHANGED <<pre, error, queue, thread, outside>>

\* The remote control in the room.
Remote(i, u, v) ==
    /\ Event
    /\ real' = [real EXCEPT ![i][u] = ToLine(i, v)]
    /\ wish' = [wish EXCEPT ![i][u] = NoWish]
    /\ UNCHANGED <<values, queue, thread, failing, up, outbox>>

UnitFails(u) == /\ Event
                /\ failing' = IF u \in failing THEN failing \ {u} ELSE failing \cup {u}
                /\ UNCHANGED <<values, queue, thread, real, up, outbox, wish>>

\* The controller restarts: it forgets what it had to say and asks for startup.
PowerFails == /\ Event
              /\ up' = FALSE
              /\ outbox' = <<[kind |-> "startup"]>>
              /\ UNCHANGED <<values, queue, thread, real, failing, wish>>

AskAgain == /\ AsksAgain
            /\ ~up
            /\ outbox = << >>
            /\ outbox' = <<[kind |-> "startup"]>>
            /\ UNCHANGED <<values, queue, thread, real, failing, up, wish, events>>

-----------------------------------------------------------------------------
(* What each stage of hong_while does with the result of Send_Polling.     *)
(* In ST_GET_USER_CONTROL a startup request leaves the inner loop only:    *)
(* the assignment after the loop puts ST_GET_GHP_UNIT in its place.        *)
AfterPoll(result, left) ==
    \/ /\ st = "POLLING"
       /\ IF result = "startup" THEN GoTo("STARTUP", "startup") /\ n' = 0
          ELSE IF result = "ok" /\ n = 0 THEN GoTo("POLLING", "poll") /\ n' = 1
          ELSE GoTo("CHECK", "scan") /\ n' = 0
    \/ /\ st = "CONTROL"
       /\ IF result = "startup" \/ n + 1 > MaxLoops - 1 THEN GoTo("UNIT", "read") /\ n' = 0
          ELSE GoTo("CONTROL", "send") /\ n' = n + 1
    \/ /\ st = "UNIT"
       /\ n' = 0
       /\ IF result = "startup" THEN GoTo("STARTUP", "startup") ELSE GoTo("POLLING", "poll")
    \/ /\ st = "STARTUP"
       /\ n' = 0
       /\ IF left # << >> THEN GoTo("STARTUP", "poll") ELSE GoTo("POLLING", "poll")

\* Send_Polling: the controller has nothing to say, or not in time.
PollEmpty == /\ at = "poll"
             /\ outbox = << >>
             /\ AfterPoll("ok", << >>)
             /\ k' = 1
             /\ UNCHANGED <<values, queue, unit, text, outside, wish, events>>

\* Send_Polling and RecvDataParsing: an answer arrives and is acknowledged.
PollReport == /\ at = "poll"
              /\ outbox # << >>
              /\ Head(outbox).kind = "report"
              /\ text' = Head(outbox)
              /\ outbox' = Tail(outbox)
              /\ GoTo(st, "guard")
              /\ k' = 1
              /\ UNCHANGED <<values, queue, n, unit, real, failing, up, wish, events>>

\* Write_Error_Table.
PollError == /\ at = "poll"
             /\ outbox # << >>
             /\ Head(outbox).kind = "error"
             /\ error' = error \cup {Head(outbox).unit}
             /\ outbox' = Tail(outbox)
             /\ AfterPoll("ok", Tail(outbox))
             /\ k' = 1
             /\ UNCHANGED <<table, by, pre, queue, unit, text, real, failing, up,
                            wish, events>>

\* RecvDataParsing: #K and #L are results, they write nothing.
PollResult(kind, result) ==
    /\ at = "poll"
    /\ outbox # << >>
    /\ Head(outbox).kind = kind
    /\ outbox' = Tail(outbox)
    /\ AfterPoll(result, Tail(outbox))
    /\ k' = 1
    /\ UNCHANGED <<values, queue, unit, text, real, failing, up, wish, events>>

-----------------------------------------------------------------------------
\* Write_Point, one setting of a report at a time; then the poll is over.

\* Only an on/off command that is pending is safe from a report.
Shielded(i, u) == i = "onoff" /\ u \notin error /\ pre[i][u] # table[i][u]

\* Mutant: the shadow is not written.
WriteTableOnly(i, u, v) ==
    /\ table' = [table EXCEPT ![i][u] = v]
    /\ by' = [by EXCEPT ![i][u] = "unit"]
    /\ UNCHANGED <<pre, wish>>

(* pSet and prePtbl get the same value.  A wish is gone when the report is *)
(* older than it, even where it says the same: the shadow hides it.        *)
WriteBoth(i, u, v) ==
    /\ table' = [table EXCEPT ![i][u] = v]
    /\ by' = [by EXCEPT ![i][u] = "unit"]
    /\ pre' = [pre EXCEPT ![i][u] = v]
    /\ wish' = [wish EXCEPT ![i][u] = IF Shielded(i, u) \/ (table[i][u] = v /\ Coming(i, u) = v)
                                        THEN wish[i][u] ELSE NoWish]

\* A unit in error is taken for switched off, whatever it reports.
WriteErrorOff == /\ at = "guard" /\ k <= 6 /\ Item = "onoff"
                 /\ text.unit \in error
                 /\ WriteBoth("onoff", text.unit, 0)
                 /\ k' = k + 1
                 /\ UNCHANGED <<error, queue, st, at, n, unit, text, outside, events>>

\* Mutant: a unit that is well again stays in error.
WriteRoomKeepsError == /\ at = "guard" /\ k <= 6 /\ Item = "room"
                       /\ k' = k + 1
                       /\ UNCHANGED <<values, queue, st, at, n, unit, text,
                                      outside, wish, events>>

\* The room temperature of a unit: with it goes its error.
WriteRoom == /\ at = "guard" /\ k <= 6 /\ Item = "room"
             /\ error' = error \ {text.unit}
             /\ k' = k + 1
             /\ UNCHANGED <<table, by, pre, queue, st, at, n, unit, text, outside,
                            wish, events>>

\* "blocking": while an on/off command is pending the report is not believed.
WriteBlocked == /\ at = "guard" /\ k <= 6 /\ Item # "room"
                /\ ~(Item = "onoff" /\ text.unit \in error)
                /\ Pending(text.unit)
                /\ k' = k + 1
                /\ UNCHANGED <<values, queue, st, at, n, unit, text, outside,
                               wish, events>>

\* The test is passed; a user may still come before the value is written.
WriteAllowed == /\ at = "guard" /\ k <= 6 /\ Item # "room"
                /\ ~(Item = "onoff" /\ text.unit \in error)
                /\ ~Pending(text.unit)
                /\ GoTo(st, "write")
                /\ UNCHANGED <<values, queue, k, n, unit, text, outside, wish, events>>

WritePoint == /\ at = "write"
              /\ WriteBoth(Item, text.unit, FromLine(Item, text.value[Item]))
              /\ k' = k + 1
              /\ GoTo(st, "guard")
              /\ UNCHANGED <<error, queue, n, unit, text, outside, events>>

ReportDone == /\ at = "guard" /\ k = 7
              /\ text' = NoText
              /\ k' = 1
              /\ AfterPoll("ok", outbox)
              /\ UNCHANGED <<values, queue, unit, outside, wish, events>>

-----------------------------------------------------------------------------
\* Chk_User_Control: every setting of every unit in turn.
PairItem == CheckOrder[k]
PairUnit == n
NextPair == IF n + 1 < UnitCnt THEN n' = n + 1 /\ k' = k ELSE n' = 0 /\ k' = k + 1

ScanSame == /\ at = "scan" /\ k <= 5
            /\ pre[PairItem][PairUnit] = table[PairItem][PairUnit]
            /\ NextPair
            /\ UNCHANGED <<values, queue, st, at, unit, text, outside, wish, events>>

\* The shadow is set from one look at the table, the message from another.
ScanChanged == /\ at = "scan" /\ k <= 5
               /\ pre[PairItem][PairUnit] # table[PairItem][PairUnit]
               /\ pre' = [pre EXCEPT ![PairItem][PairUnit] = table[PairItem][PairUnit]]
               /\ GoTo(st, "putq")
               /\ UNCHANGED <<table, by, error, queue, k, n, unit, text, outside,
                              wish, events>>

\* A unit that is switched on gets full speed and a direction by its mode.
SwitchedOn(u) ==
    [table EXCEPT !["speed"][u] = 1,
                  !["direction"][u] = IF table["mode"][u] = 0 THEN 2 ELSE 1]

\* What the message is and, after putq, who was asked for what.
Message(i, u) == [item |-> i, unit |-> u, value |-> table[i][u], by |-> by[i][u]]
Turned(i, u) == i \in {"speed", "direction"} /\ u = PairUnit
                   /\ PairItem = "onoff" /\ table["onoff"][u] > 0

Full == Len(queue) >= QueueRoom

Putq == LET new == IF Turned("speed", PairUnit) THEN SwitchedOn(PairUnit) ELSE table
        IN /\ at = "putq"
           /\ queue' = IF Full THEN queue ELSE Append(queue, Message(PairItem, PairUnit))
           /\ table' = new
           /\ by' = [i \in Items |-> [u \in Units |->
                        IF Turned(i, u) THEN "user" ELSE by[i][u]]]
           /\ wish' = [i \in Items |-> [u \in Units |->
                         IF Full /\ i = PairItem /\ u = PairUnit THEN NoWish
                         ELSE IF Turned(i, u)
                         THEN IF new[i][u] # pre[i][u] \/ new[i][u] = Coming(i, u)
                              THEN new[i][u] ELSE NoWish
                         ELSE wish[i][u]]]
           /\ NextPair
           /\ GoTo(st, "scan")
           /\ UNCHANGED <<pre, error, unit, text, outside, events>>

ScanDone == /\ at = "scan" /\ k = 6
            /\ k' = 1
            /\ GoTo("CONTROL", "send")
            /\ UNCHANGED <<values, queue, n, unit, text, outside, wish, events>>

-----------------------------------------------------------------------------
\* Do_User_Control: the messages of one text.
BatchLen == IF Len(queue) < BatchSize THEN Len(queue) ELSE BatchSize
Rest == SubSeq(queue, BatchLen + 1, Len(queue))
InBatch(i, u) == {j \in MessagesOf(i, u) : j <= BatchLen}

\* The controller obeys, message by message, once it has been started up.
Obeyed == [i \in Items |-> [u \in Units |->
              IF InBatch(i, u) = {} THEN real[i][u]
              ELSE ToLine(i, queue[Latest(InBatch(i, u))].value)]]

SendNothing == /\ at = "send"
               /\ queue = << >>
               /\ GoTo("UNIT", "read")
               /\ n' = 0
               /\ UNCHANGED <<values, queue, k, unit, text, outside, wish, events>>

\* Send_Selecting succeeds.
SendObeyed == /\ at = "send"
              /\ queue # << >>
              /\ up
              /\ real' = Obeyed
              /\ queue' = Rest
              /\ GoTo("CONTROL", "poll")
              /\ UNCHANGED <<values, k, n, unit, text, failing, up, outbox, wish, events>>

\* Those in the text are gone for good: nobody looks at the result.
Forgotten == [i \in Items |-> [u \in Units |->
                 IF InBatch(i, u) = {} THEN wish[i][u] ELSE NoWish]]

\* A controller that has not been started up rejects the text with #L.
SendRejected == /\ at = "send"
                /\ queue # << >>
                /\ ~up
                /\ Len(outbox) < MaxTexts
                /\ outbox' = Append(outbox, [kind |-> "reject"])
                /\ queue' = Rest
                /\ wish' = Forgotten
                /\ GoTo("CONTROL", "poll")
                /\ UNCHANGED <<values, k, n, unit, text, real, failing, up, events>>

\* Send_Selecting gives up (SEL_RETRY), or the text is not acknowledged.
SendLost == /\ at = "send"
            /\ queue # << >>
            /\ Event
            /\ queue' = Rest
            /\ wish' = Forgotten
            /\ GoTo("CONTROL", "poll")
            /\ UNCHANGED <<values, k, n, unit, text, outside>>

-----------------------------------------------------------------------------
\* Get_Ghp_Unit: the next units in turn.
NextUnit(u, j) == (u + j) % UnitCnt
Answer(u) == IF u \in failing THEN [kind |-> "error", unit |-> u]
             ELSE [kind |-> "report", unit |-> u, value |-> [i \in Items |-> real[i][u]]]

ReadUnits == /\ at = "read"
             /\ unit' = NextUnit(unit, ReadSize)
             /\ outbox' = IF up /\ Len(outbox) + ReadSize <= MaxTexts
                          THEN outbox \o [j \in 1 .. ReadSize |-> Answer(NextUnit(unit, j))]
                          ELSE outbox
             /\ GoTo("UNIT", "poll")
             /\ UNCHANGED <<values, queue, k, n, text, real, failing, up, wish, events>>

ReadLost == /\ at = "read"
            /\ Event
            /\ unit' = NextUnit(unit, ReadSize)
            /\ GoTo("UNIT", "poll")
            /\ UNCHANGED <<values, queue, k, n, text, outside, wish>>

\* Startup_SDDC: every block is started up, and polled in between.
Startup == /\ at = "startup"
           /\ up' = TRUE
           /\ GoTo("STARTUP", "poll")
           /\ UNCHANGED <<values, queue, k, n, unit, text, real, failing, outbox, wish, events>>

\* Its texts get lost, again in the one retry: nobody looks at the result.
StartupLost == /\ at = "startup"
               /\ Event
               /\ GoTo("STARTUP", "poll")
               /\ UNCHANGED <<values, queue, k, n, unit, text, outside, wish>>

-----------------------------------------------------------------------------
Poll == \/ PollEmpty \/ PollReport \/ PollError
        \/ PollResult("startup", "startup") \/ PollResult("reject", "error")
Report == \/ WriteErrorOff \/ WriteRoom \/ WriteBlocked \/ WriteAllowed
          \/ WritePoint \/ ReportDone
Scan == ScanSame \/ ScanChanged \/ Putq \/ ScanDone
Control == SendNothing \/ SendObeyed \/ SendRejected

\* hong_while, as long as nothing is lost on the line.
Thread == Poll \/ Report \/ Scan \/ Control \/ ReadUnits \/ Startup

Outside == \/ \E w \in Wishes : Ask(w[1], w[2], w[3])
           \/ \E w \in Remotes : Remote(w[1], w[2], w[3])
           \/ \E u \in Units : UnitFails(u)
           \/ PowerFails

Next == Thread \/ SendLost \/ ReadLost \/ StartupLost \/ Outside \/ AskAgain

\* The thread runs, and the controller repeats itself; nothing else must happen.
Fairness == WF_vars(Thread) /\ WF_vars(AskAgain)

Spec == Init /\ [][Next]_vars
FairSpec == Spec /\ Fairness

-----------------------------------------------------------------------------
Stages == {"POLLING", "CHECK", "CONTROL", "UNIT", "STARTUP"}
Labels == {"poll", "guard", "write", "scan", "putq", "send", "read", "startup"}
MessageType == [item : Items, unit : Units, value : Int, by : {"user", "unit"}]

TablesOK == /\ table \in [Items -> [Units -> Int]]
            /\ by \in [Items -> [Units -> {"user", "unit"}]]
            /\ pre \in [Items -> [Units -> Int]]
            /\ error \subseteq Units
            /\ wish \in [Items -> [Units -> Int]]
QueueOK == queue \in Seq(MessageType) /\ Len(queue) <= QueueRoom
ThreadOK == /\ st \in Stages /\ at \in Labels
            /\ k \in 1 .. 7 /\ n \in Nat
            /\ unit \in Units
            /\ text \in Reports \cup {NoText}
OutsideOK == /\ real \in [Items -> [Units -> Int]]
             /\ failing \subseteq Units
             /\ up \in BOOLEAN
             /\ outbox \in Seq(Answers) /\ Len(outbox) <= MaxTexts
             /\ events \in 0 .. MaxEvents

(* Table, shadow, queue, the position of the thread and what the line may  *)
(* deliver have their types, and no queue is longer than its room.         *)
TypeOK == TablesOK /\ QueueOK /\ ThreadOK /\ OutsideOK

(* What a unit reports never comes back to it as a command: wherever table *)
(* and shadow differ, and in every message, it is a user's value, whatever *)
(* the order of users, reports and comparisons.                            *)
NoEcho == /\ \A i \in Items, u \in Units : pre[i][u] # table[i][u] => by[i][u] = "user"
          /\ \A j \in 1 .. Len(queue) : queue[j].by = "user"

(* A wish is in the table until the unit has it, and the thread will or    *)
(* did notice: it differs from the shadow, is about to be queued, is the   *)
(* last message queued for the unit, or the unit's own value.  The ways to *)
(* lose one are those that make it NoWish: an older report, a full queue,  *)
(* a text that is lost or rejected, a remote control.                      *)
WishesKept ==
    \A i \in Items, u \in Units :
       wish[i][u] # NoWish =>
          /\ table[i][u] = wish[i][u]
          /\ \/ pre[i][u] # table[i][u]
             \/ at = "putq" /\ PairItem = i /\ PairUnit = u
             \/ Coming(i, u) = wish[i][u]

(* When nothing happens outside any more, the controller is up and every   *)
(* unit that can answer is as the table says: reports that were late,      *)
(* commands that were lost and requests that were ignored leave no lasting *)
(* difference.                                                             *)
Agree == /\ up
         /\ \A i \in Items, u \in Units \ failing :
               /\ table[i][u] = FromLine(i, real[i][u])
               /\ pre[i][u] = table[i][u]
TableSettles == <>[]Agree
=============================================================================
