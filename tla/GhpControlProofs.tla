-------------------------- MODULE GhpControlProofs --------------------------
(***************************************************************************)
(* Proofs about GhpControl: what a unit reports never comes back to it as  *)
(* a command, and what a user asks for is never forgotten on its way, for  *)
(* any units, tables, texts and losses.  NoEcho alone is not inductive:    *)
(* between the two looks Chk_User_Control takes at the table, the value it *)
(* is about to queue has to be a user's (Position).  Nor is WishesKept: a  *)
(* report about to be written has to have no wish in its way (RaceInv).    *)
(***************************************************************************)
EXTENDS GhpControl, FiniteSetTheorems, TLAPS

\* Where the thread is, and what it has in its hands there.
Position == /\ at = "guard" => text \in Reports
            /\ at = "write" => text \in Reports /\ k <= 6 /\ Item # "room"
            /\ at = "scan" => k <= 6 /\ n \in Units
            /\ at = "putq" => /\ k <= 5 /\ n \in Units
                              /\ by[PairItem][PairUnit] = "user"

GhpInv == TypeOK /\ Position /\ NoEcho

-----------------------------------------------------------------------------
LEMMA ItemsAre == Items = {"onoff", "mode", "temp", "speed", "direction"}
BY SMTT(30) DEF Items, CheckOrder

LEMMA CheckItem == ASSUME NEW j \in 1 .. 5 PROVE CheckOrder[j] \in Items
BY DEF Items

LEMMA ReportItem ==
    ASSUME NEW j \in 1 .. 6, ReportOrder[j] # "room" PROVE ReportOrder[j] \in Items
BY ItemsAre, SMTT(30) DEF ReportOrder

LEMMA Constants ==
    /\ UnitCnt \in Nat \ {0} /\ 0 \in Units
    /\ QueueRoom \in Nat \ {0} /\ BatchSize \in Nat \ {0} /\ MaxTexts \in Nat \ {0}
    /\ ReadSize \in Nat \ {0} /\ MaxEvents \in Nat
    /\ Initial \in [Items -> [Units -> Int]]
    /\ Wishes \subseteq Items \X Units \X Int
    /\ Remotes \subseteq Items \X Units \X Int
<1>1. Values \subseteq Int
  BY GhpAssumption
<1>2. Initial \in [Items -> [Units -> Int]]
  BY <1>1, GhpAssumption
<1>3. Items \X Units \X Values \subseteq Items \X Units \X Int
  BY <1>1
<1> QED BY <1>2, <1>3, GhpAssumption DEF Units

LEMMA LineInt == ASSUME NEW i, NEW v \in Int
                 PROVE ToLine(i, v) \in Int /\ FromLine(i, v) \in Int
BY DEF ToLine, FromLine

\* The last of some messages is one of them.
LEMMA LatestMax ==
    ASSUME NEW q \in Nat, NEW S \in SUBSET (1 .. q), S # {}
    PROVE  Latest(S) \in S /\ \A l \in S : l <= Latest(S)
<1> DEFINE Above(j) == {l \in S : j < l}
           R == StrictSubsetOrdering(S)
           T == {Above(j) : j \in S}
<1>1. IsFiniteSet(S)
  <2>1. IsFiniteSet(1 .. q)
    BY FS_Interval
  <2> QED BY <2>1, FS_Subset
<1>2. IsWellFoundedOn(R, SUBSET S)
  BY <1>1, FS_StrictSubsetOrderingWellFounded, FS_FiniteSubsetsOfFinite
<1>3. T \subseteq SUBSET S /\ T # {}
  OBVIOUS
<1>4. PICK A \in T : \A B \in T : ~(<<B, A>> \in R)
  <2> HIDE DEF T, R
  <2> QED BY <1>2, <1>3, WFMin
<1>5. PICK j \in S : A = Above(j)
  OBVIOUS
<1>6. ASSUME NEW l \in S, j < l PROVE FALSE
  <2>1. Above(l) \subseteq Above(j) /\ l \in Above(j) /\ l \notin Above(l)
    <3>1. \A x \in S : l < x => j < x
      BY <1>6
    <3>2. ~(l < l)
      OBVIOUS
    <3> QED BY <1>6, <3>1, <3>2
  <2>2. <<Above(l), Above(j)>> \in R
    BY <2>1 DEF StrictSubsetOrdering
  <2> QED BY <2>2, <1>4, <1>5
<1>7. \A l \in S : l <= j
  BY <1>6
<1> QED BY <1>7 DEF Latest

\* What is under way for a setting depends on queue and units alone.

LEMMA NextUnitIn == ASSUME NEW u \in Units, NEW j \in Nat PROVE NextUnit(u, j) \in Units
<1>1. u + j \in Nat
  BY Constants DEF Units
<1>2. (u + j) % UnitCnt \in 0 .. UnitCnt - 1
  BY <1>1, Constants
<1> QED BY <1>2 DEF NextUnit, Units
-----------------------------------------------------------------------------
\* One entry of a table is written.
LEMMA SetOne ==
    ASSUME NEW S, NEW f \in [Items -> [Units -> S]], NEW i, NEW u, NEW v \in S
    PROVE  /\ [f EXCEPT ![i][u] = v] \in [Items -> [Units -> S]]
           /\ \A j \in Items, w \in Units :
                 [f EXCEPT ![i][u] = v][j][w] = IF j = i /\ w = u THEN v ELSE f[j][w]
<1>1. CASE i \in Items
  <2>1. [f[i] EXCEPT ![u] = v] \in [Units -> S]
    BY <1>1
  <2> QED BY <1>1, <2>1
<1>2. CASE i \notin Items
  BY <1>2
<1> QED BY <1>1, <1>2

\* The next answer, and those after it.
LEMMA NextAnswer ==
    ASSUME outbox \in Seq(Answers), outbox # << >>, Len(outbox) <= MaxTexts
    PROVE  /\ Head(outbox) \in Answers
           /\ Tail(outbox) \in Seq(Answers) /\ Len(Tail(outbox)) <= MaxTexts
           /\ Head(outbox).kind = "report" => Head(outbox) \in Reports
           /\ Head(outbox).kind = "error" => Head(outbox).unit \in Units
<1>1. /\ Head(outbox) \in Answers
      /\ Tail(outbox) \in Seq(Answers) /\ Len(Tail(outbox)) <= MaxTexts
  BY Constants
<1>2. ASSUME NEW a \in Answers
      PROVE  /\ a.kind = "report" => a \in Reports
             /\ a.kind = "error" => a.unit \in Units
  BY DEF Answers, Reports
<1> QED BY <1>1, <1>2

\* The messages that are left behind a text.
LEMMA RestIs ==
    ASSUME QueueOK
    PROVE  /\ Rest \in Seq(MessageType) /\ Len(Rest) <= QueueRoom
           /\ \A j \in 1 .. Len(Rest) : \E l \in 1 .. Len(queue) : Rest[j] = queue[l]
<1>1. BatchLen \in 0 .. Len(queue)
  BY Constants DEF QueueOK, BatchLen
<1>2. /\ Rest \in Seq(MessageType) /\ Len(Rest) = Len(queue) - BatchLen
      /\ \A j \in 1 .. Len(Rest) : Rest[j] = queue[BatchLen + j]
  BY <1>1 DEF QueueOK, Rest
<1>3. Len(Rest) <= QueueRoom
  BY <1>1, <1>2, Constants DEF QueueOK
<1>4. ASSUME NEW j \in 1 .. Len(Rest)
      PROVE  \E l \in 1 .. Len(queue) : Rest[j] = queue[l]
  <2>1. BatchLen + j \in 1 .. Len(queue)
    BY <1>1, <1>2
  <2> QED BY <1>2, <2>1
<1> QED BY <1>2, <1>3, <1>4

LEMMA ObeyedOK == ASSUME QueueOK, OutsideOK PROVE Obeyed \in [Items -> [Units -> Int]]
<1> SUFFICES ASSUME NEW i \in Items, NEW u \in Units, InBatch(i, u) # {}
             PROVE  ToLine(i, queue[Latest(InBatch(i, u))].value) \in Int
  BY DEF Obeyed, OutsideOK
<1>1. InBatch(i, u) \in SUBSET (1 .. Len(queue)) /\ Len(queue) \in Nat
  BY DEF InBatch, MessagesOf, QueueOK
<1>2. Latest(InBatch(i, u)) \in 1 .. Len(queue)
  BY <1>1, LatestMax
<1>3. queue[Latest(InBatch(i, u))] \in MessageType
  BY <1>2 DEF QueueOK
<1> QED BY <1>3, LineInt DEF MessageType

LEMMA ForgottenOK == ASSUME TablesOK PROVE Forgotten \in [Items -> [Units -> Int]]
BY DEF Forgotten, TablesOK, NoWish

LEMMA WriteBothOK ==
    ASSUME TablesOK, NEW i \in Items, NEW u \in Units, NEW v \in Int,
           WriteBoth(i, u, v), UNCHANGED error
    PROVE  TablesOK'
<1>1. (IF Shielded(i, u) \/ (table[i][u] = v /\ Coming(i, u) = v)
       THEN wish[i][u] ELSE NoWish) \in Int
  BY DEF TablesOK, NoWish
<1>2. wish' \in [Items -> [Units -> Int]]
  BY <1>1, SetOne DEF TablesOK, WriteBoth
<1> QED BY <1>2, SetOne DEF TablesOK, WriteBoth

-----------------------------------------------------------------------------
(* One lemma for every action: the types of the parts of the state, the    *)
(* position of the thread, and the source of every difference.             *)

LEMMA PositionKept == ASSUME Position, UNCHANGED <<thread, by>> PROVE Position'
BY DEF Position, thread, PairItem, PairUnit, Item

LEMMA AskStep == ASSUME GhpInv, NEW w \in Wishes, Ask(w[1], w[2], w[3]) PROVE GhpInv'
<1>a. w[1] \in Items /\ w[2] \in Units /\ w[3] \in Int
  BY Constants
<1>1. TablesOK'
  BY <1>a, SetOne DEF GhpInv, TypeOK, TablesOK, Ask, NoWish
<1>2. QueueOK'
  BY DEF GhpInv, TypeOK, QueueOK, Ask
<1>3. ThreadOK'
  BY DEF GhpInv, TypeOK, ThreadOK, Ask, thread
<1>4. OutsideOK'
  BY Constants DEF GhpInv, TypeOK, OutsideOK, Ask, Event, outside
<1>5. Position'
  BY DEF GhpInv, TypeOK, ThreadOK, Position, Ask, thread, PairItem, PairUnit, Item
<1>6. NoEcho'
  BY <1>a DEF GhpInv, TypeOK, QueueOK, TablesOK, NoEcho, Ask, thread, outside
<1> QED BY <1>1, <1>2, <1>3, <1>4, <1>5, <1>6 DEF GhpInv, TypeOK

LEMMA RemoteStep == ASSUME GhpInv, NEW w \in Remotes, Remote(w[1], w[2], w[3]) PROVE GhpInv'
<1>a. w[1] \in Items /\ w[2] \in Units /\ w[3] \in Int
  BY Constants
<1>b. ToLine(w[1], w[3]) \in Int
  BY <1>a, LineInt
<1>1. TablesOK'
  BY <1>a, SetOne DEF GhpInv, TypeOK, TablesOK, Remote, values, NoWish
<1>2. QueueOK'
  BY DEF GhpInv, TypeOK, QueueOK, Remote
<1>3. ThreadOK'
  BY DEF GhpInv, TypeOK, ThreadOK, Remote, thread
<1>4. OutsideOK'
  BY <1>b, Constants DEF GhpInv, TypeOK, OutsideOK, Remote, Event
<1>5. Position'
  BY PositionKept DEF GhpInv, Remote, values, thread
<1>6. NoEcho'
  BY DEF GhpInv, NoEcho, Remote, values
<1> QED BY <1>1, <1>2, <1>3, <1>4, <1>5, <1>6 DEF GhpInv, TypeOK

LEMMA UnitFailsStep == ASSUME GhpInv, NEW u \in Units, UnitFails(u) PROVE GhpInv'
<1>1. TablesOK'
  BY DEF GhpInv, TypeOK, TablesOK, UnitFails, values
<1>2. QueueOK'
  BY DEF GhpInv, TypeOK, QueueOK, UnitFails
<1>3. ThreadOK'
  BY DEF GhpInv, TypeOK, ThreadOK, UnitFails, thread
<1>4. OutsideOK'
  BY Constants DEF GhpInv, TypeOK, OutsideOK, UnitFails, Event
<1>5. Position'
  BY PositionKept DEF GhpInv, UnitFails, values, thread
<1>6. NoEcho'
  BY DEF GhpInv, NoEcho, UnitFails, values
<1> QED BY <1>1, <1>2, <1>3, <1>4, <1>5, <1>6 DEF GhpInv, TypeOK

LEMMA PowerFailsStep == ASSUME GhpInv, PowerFails PROVE GhpInv'
<1>1. TablesOK'
  BY DEF GhpInv, TypeOK, TablesOK, PowerFails, values
<1>2. QueueOK'
  BY DEF GhpInv, TypeOK, QueueOK, PowerFails
<1>3. ThreadOK'
  BY DEF GhpInv, TypeOK, ThreadOK, PowerFails, thread
<1>4. OutsideOK'
  <2>1. [kind |-> "startup"] \in Answers
    BY DEF Answers
  <2>2. outbox' \in Seq(Answers) /\ Len(outbox') <= MaxTexts
    <3>1. 1 <= MaxTexts
      BY Constants
    <3>2. <<[kind |-> "startup"]>> \in Seq(Answers)
      BY <2>1
    <3>3. Len(<<[kind |-> "startup"]>>) = 1
      OBVIOUS
    <3>4. outbox' = <<[kind |-> "startup"]>>
      BY DEF PowerFails
    <3> QED BY <3>1, <3>2, <3>3, <3>4
  <2>3. up' = FALSE /\ events' \in 0 .. MaxEvents /\ UNCHANGED <<real, failing>>
    BY Constants DEF GhpInv, TypeOK, OutsideOK, PowerFails, Event
  <2> QED BY <2>2, <2>3 DEF GhpInv, TypeOK, OutsideOK
<1>5. Position'
  BY PositionKept DEF GhpInv, PowerFails, values, thread
<1>6. NoEcho'
  BY DEF GhpInv, NoEcho, PowerFails, values
<1> QED BY <1>1, <1>2, <1>3, <1>4, <1>5, <1>6 DEF GhpInv, TypeOK

LEMMA AskAgainStep == ASSUME GhpInv, AskAgain PROVE GhpInv'
<1>1. TablesOK'
  BY DEF GhpInv, TypeOK, TablesOK, AskAgain, values
<1>2. QueueOK'
  BY DEF GhpInv, TypeOK, QueueOK, AskAgain
<1>3. ThreadOK'
  BY DEF GhpInv, TypeOK, ThreadOK, AskAgain, thread
<1>4. OutsideOK'
  <2>1. [kind |-> "startup"] \in Answers
    BY DEF Answers
  <2> QED BY <2>1, Constants DEF GhpInv, TypeOK, OutsideOK, AskAgain
<1>5. Position'
  BY PositionKept DEF GhpInv, AskAgain, values, thread
<1>6. NoEcho'
  BY DEF GhpInv, NoEcho, AskAgain, values
<1> QED BY <1>1, <1>2, <1>3, <1>4, <1>5, <1>6 DEF GhpInv, TypeOK

LEMMA PollEmptyStep == ASSUME GhpInv, PollEmpty PROVE GhpInv'
<1>1. TablesOK'
  BY DEF GhpInv, TypeOK, TablesOK, PollEmpty, values
<1>2. QueueOK'
  BY DEF GhpInv, TypeOK, QueueOK, PollEmpty
<1>3. ThreadOK'
  BY DEF GhpInv, TypeOK, ThreadOK, Stages, Labels, PollEmpty, AfterPoll, GoTo
<1>4. OutsideOK'
  BY NextAnswer DEF GhpInv, TypeOK, OutsideOK, PollEmpty, outside
<1>5. Position'
  BY Constants DEF GhpInv, TypeOK, ThreadOK, Position, PollEmpty, AfterPoll, GoTo,
     values, PairItem, PairUnit, Item
<1>6. NoEcho'
  BY DEF GhpInv, NoEcho, PollEmpty, values
<1> QED BY <1>1, <1>2, <1>3, <1>4, <1>5, <1>6 DEF GhpInv, TypeOK

LEMMA PollReportStep == ASSUME GhpInv, PollReport PROVE GhpInv'
<1>1. TablesOK'
  BY DEF GhpInv, TypeOK, TablesOK, PollReport, values
<1>2. QueueOK'
  BY DEF GhpInv, TypeOK, QueueOK, PollReport
<1>3. ThreadOK'
  BY NextAnswer DEF GhpInv, TypeOK, ThreadOK, OutsideOK, Stages, Labels, PollReport,
     GoTo
<1>4. OutsideOK'
  BY NextAnswer DEF GhpInv, TypeOK, OutsideOK, PollReport
<1>5. Position'
  BY NextAnswer DEF GhpInv, TypeOK, OutsideOK, Position, PollReport, GoTo, ThreadOK
<1>6. NoEcho'
  BY DEF GhpInv, NoEcho, PollReport, values
<1> QED BY <1>1, <1>2, <1>3, <1>4, <1>5, <1>6 DEF GhpInv, TypeOK

LEMMA PollErrorStep == ASSUME GhpInv, PollError PROVE GhpInv'
<1>1. TablesOK'
  BY NextAnswer DEF GhpInv, TypeOK, OutsideOK, TablesOK, PollError
<1>2. QueueOK'
  BY DEF GhpInv, TypeOK, QueueOK, PollError
<1>3. ThreadOK'
  BY DEF GhpInv, TypeOK, ThreadOK, Stages, Labels, PollError, AfterPoll, GoTo
<1>4. OutsideOK'
  BY NextAnswer DEF GhpInv, TypeOK, OutsideOK, PollError
<1>5. Position'
  BY Constants DEF GhpInv, TypeOK, ThreadOK, Position, PollError, AfterPoll, GoTo,
     PairItem, PairUnit, Item
<1>6. NoEcho'
  BY DEF GhpInv, NoEcho, PollError
<1> QED BY <1>1, <1>2, <1>3, <1>4, <1>5, <1>6 DEF GhpInv, TypeOK

LEMMA PollResultStep == ASSUME GhpInv, NEW kind, NEW result, PollResult(kind, result) PROVE GhpInv'
<1>1. TablesOK'
  BY DEF GhpInv, TypeOK, TablesOK, PollResult, values
<1>2. QueueOK'
  BY DEF GhpInv, TypeOK, QueueOK, PollResult
<1>3. ThreadOK'
  BY DEF GhpInv, TypeOK, ThreadOK, Stages, Labels, PollResult, AfterPoll, GoTo
<1>4. OutsideOK'
  BY NextAnswer DEF GhpInv, TypeOK, OutsideOK, PollResult
<1>5. Position'
  BY Constants DEF GhpInv, TypeOK, ThreadOK, Position, PollResult, AfterPoll, GoTo,
     values, PairItem, PairUnit, Item
<1>6. NoEcho'
  BY DEF GhpInv, NoEcho, PollResult, values
<1> QED BY <1>1, <1>2, <1>3, <1>4, <1>5, <1>6 DEF GhpInv, TypeOK

LEMMA WriteErrorOffStep == ASSUME GhpInv, WriteErrorOff PROVE GhpInv'
<1>1. TablesOK'
  <2>1. text.unit \in Units /\ "onoff" \in Items
    BY ItemsAre DEF GhpInv, Position, WriteErrorOff, Reports
  <2> QED BY <2>1, WriteBothOK DEF GhpInv, TypeOK, WriteErrorOff
<1>2. QueueOK'
  BY DEF GhpInv, TypeOK, QueueOK, WriteErrorOff
<1>3. ThreadOK'
  BY DEF GhpInv, TypeOK, ThreadOK, WriteErrorOff, Item
<1>4. OutsideOK'
  BY DEF GhpInv, TypeOK, OutsideOK, WriteErrorOff, outside
<1>5. Position'
  BY DEF GhpInv, TypeOK, ThreadOK, Position, WriteErrorOff, Item, PairItem, PairUnit,
     Item
<1>6. NoEcho'
  BY DEF GhpInv, TypeOK, QueueOK, TablesOK, NoEcho, WriteErrorOff, WriteBoth, Item,
     values, thread, outside
<1> QED BY <1>1, <1>2, <1>3, <1>4, <1>5, <1>6 DEF GhpInv, TypeOK

LEMMA WriteRoomStep == ASSUME GhpInv, WriteRoom PROVE GhpInv'
<1>1. TablesOK'
  BY DEF GhpInv, TypeOK, TablesOK, WriteRoom
<1>2. QueueOK'
  BY DEF GhpInv, TypeOK, QueueOK, WriteRoom
<1>3. ThreadOK'
  BY DEF GhpInv, TypeOK, ThreadOK, WriteRoom, Item
<1>4. OutsideOK'
  BY DEF GhpInv, TypeOK, OutsideOK, WriteRoom, outside
<1>5. Position'
  BY DEF GhpInv, TypeOK, ThreadOK, Position, WriteRoom, Item, PairItem, PairUnit, Item
<1>6. NoEcho'
  BY DEF GhpInv, NoEcho, WriteRoom
<1> QED BY <1>1, <1>2, <1>3, <1>4, <1>5, <1>6 DEF GhpInv, TypeOK

LEMMA WriteBlockedStep == ASSUME GhpInv, WriteBlocked PROVE GhpInv'
<1>1. TablesOK'
  BY DEF GhpInv, TypeOK, TablesOK, WriteBlocked, values
<1>2. QueueOK'
  BY DEF GhpInv, TypeOK, QueueOK, WriteBlocked
<1>3. ThreadOK'
  BY DEF GhpInv, TypeOK, ThreadOK, WriteBlocked, Item
<1>4. OutsideOK'
  BY DEF GhpInv, TypeOK, OutsideOK, WriteBlocked, outside
<1>5. Position'
  BY DEF GhpInv, TypeOK, ThreadOK, Position, WriteBlocked, Item, values, PairItem,
     PairUnit, Item
<1>6. NoEcho'
  BY DEF GhpInv, NoEcho, WriteBlocked, values
<1> QED BY <1>1, <1>2, <1>3, <1>4, <1>5, <1>6 DEF GhpInv, TypeOK

LEMMA WriteAllowedStep == ASSUME GhpInv, WriteAllowed PROVE GhpInv'
<1>1. TablesOK'
  BY DEF GhpInv, TypeOK, TablesOK, WriteAllowed, values
<1>2. QueueOK'
  BY DEF GhpInv, TypeOK, QueueOK, WriteAllowed
<1>3. ThreadOK'
  BY DEF GhpInv, TypeOK, ThreadOK, Stages, Labels, WriteAllowed, GoTo, Item
<1>4. OutsideOK'
  BY DEF GhpInv, TypeOK, OutsideOK, WriteAllowed, outside
<1>5. Position'
  BY DEF GhpInv, TypeOK, ThreadOK, Position, WriteAllowed, GoTo, Item, values,
     PairItem, PairUnit, Item
<1>6. NoEcho'
  BY DEF GhpInv, NoEcho, WriteAllowed, values
<1> QED BY <1>1, <1>2, <1>3, <1>4, <1>5, <1>6 DEF GhpInv, TypeOK

LEMMA WritePointStep == ASSUME GhpInv, WritePoint PROVE GhpInv'
<1>a. Item \in Items /\ text \in Reports
  BY ReportItem DEF GhpInv, TypeOK, ThreadOK, Position, WritePoint, Item
<1>b. text.unit \in Units /\ FromLine(Item, text.value[Item]) \in Int
  BY <1>a, LineInt DEF Reports
<1>1. TablesOK'
  BY <1>a, <1>b, WriteBothOK DEF GhpInv, TypeOK, WritePoint
<1>2. QueueOK'
  BY DEF GhpInv, TypeOK, QueueOK, WritePoint
<1>3. ThreadOK'
  BY Constants DEF GhpInv, TypeOK, Position, ThreadOK, Stages, Labels, WritePoint,
     WriteBoth, Item, GoTo, values, thread, outside
<1>4. OutsideOK'
  BY DEF GhpInv, TypeOK, OutsideOK, WritePoint, outside
<1>5. Position'
  BY DEF GhpInv, TypeOK, ThreadOK, Position, WritePoint, Item, GoTo, PairItem,
     PairUnit, Item
<1>6. NoEcho'
  BY DEF GhpInv, TypeOK, QueueOK, TablesOK, NoEcho, WritePoint, WriteBoth, Item, GoTo,
     values, thread, outside
<1> QED BY <1>1, <1>2, <1>3, <1>4, <1>5, <1>6 DEF GhpInv, TypeOK

LEMMA ReportDoneStep == ASSUME GhpInv, ReportDone PROVE GhpInv'
<1>1. TablesOK'
  BY DEF GhpInv, TypeOK, TablesOK, ReportDone, values
<1>2. QueueOK'
  BY DEF GhpInv, TypeOK, QueueOK, ReportDone
<1>3. ThreadOK'
  BY DEF GhpInv, TypeOK, ThreadOK, Stages, Labels, ReportDone, AfterPoll, GoTo
<1>4. OutsideOK'
  BY DEF GhpInv, TypeOK, OutsideOK, ReportDone, outside
<1>5. Position'
  BY Constants DEF GhpInv, TypeOK, ThreadOK, Position, ReportDone, AfterPoll, GoTo,
     values, PairItem, PairUnit, Item
<1>6. NoEcho'
  BY DEF GhpInv, NoEcho, ReportDone, values
<1> QED BY <1>1, <1>2, <1>3, <1>4, <1>5, <1>6 DEF GhpInv, TypeOK

LEMMA ScanSameStep == ASSUME GhpInv, ScanSame PROVE GhpInv'
<1>1. TablesOK'
  BY DEF GhpInv, TypeOK, TablesOK, ScanSame, values
<1>2. QueueOK'
  BY DEF GhpInv, TypeOK, QueueOK, ScanSame
<1>3. ThreadOK'
  BY DEF GhpInv, TypeOK, ThreadOK, ScanSame, NextPair
<1>4. OutsideOK'
  BY DEF GhpInv, TypeOK, OutsideOK, ScanSame, outside
<1>5. Position'
  BY Constants DEF GhpInv, TypeOK, ThreadOK, Position, ScanSame, NextPair, Units
<1>6. NoEcho'
  BY DEF GhpInv, NoEcho, ScanSame, values
<1> QED BY <1>1, <1>2, <1>3, <1>4, <1>5, <1>6 DEF GhpInv, TypeOK

LEMMA ScanChangedStep == ASSUME GhpInv, ScanChanged PROVE GhpInv'
<1>a. k \in 1 .. 5 /\ n \in Units /\ PairItem \in Items
  BY CheckItem DEF GhpInv, TypeOK, ThreadOK, Position, ScanChanged, PairItem
<1>1. TablesOK'
  BY <1>a, SetOne DEF GhpInv, TypeOK, TablesOK, ScanChanged
<1>2. QueueOK'
  BY DEF GhpInv, TypeOK, QueueOK, ScanChanged
<1>3. ThreadOK'
  BY DEF GhpInv, TypeOK, ThreadOK, Stages, Labels, ScanChanged, GoTo
<1>4. OutsideOK'
  BY DEF GhpInv, TypeOK, OutsideOK, ScanChanged, outside
<1>5. Position'
  <2>1. by[PairItem][PairUnit] = "user"
    BY <1>a DEF GhpInv, NoEcho, ScanChanged, PairUnit
  <2> QED BY <1>a, <2>1 DEF ScanChanged, GoTo, Position, PairItem, PairUnit
<1>6. NoEcho'
  BY DEF GhpInv, NoEcho, ScanChanged
<1> QED BY <1>1, <1>2, <1>3, <1>4, <1>5, <1>6 DEF GhpInv, TypeOK

LEMMA PutqStep == ASSUME GhpInv, Putq PROVE GhpInv'
<1>a. k \in 1 .. 5 /\ n \in Units /\ PairItem \in Items
  BY CheckItem DEF GhpInv, TypeOK, ThreadOK, Position, Putq, PairItem
<1>m. Message(PairItem, PairUnit) \in MessageType
  BY <1>a DEF GhpInv, TypeOK, TablesOK, MessageType, Message, PairUnit
<1>t. table' \in [Items -> [Units -> Int]]
  <2>1. TablesOK
    BY DEF GhpInv, TypeOK
  <2>2. SwitchedOn(PairUnit) \in [Items -> [Units -> Int]]
    <3>1. "speed" \in Items /\ "direction" \in Items /\ PairUnit \in Units
      BY <1>a, ItemsAre DEF PairUnit
    <3>2. [table EXCEPT !["speed"][PairUnit] = 1] \in [Items -> [Units -> Int]]
      BY <2>1, <3>1 DEF TablesOK
    <3> QED BY <3>1, <3>2 DEF SwitchedOn
  <2> QED BY <2>1, <2>2 DEF TablesOK, Putq
<1>s. \A i \in Items, u \in Units : ~Turned(i, u) => table'[i][u] = table[i][u]
  BY <1>a, ItemsAre DEF GhpInv, TypeOK, TablesOK, Putq, SwitchedOn, Turned, PairUnit
<1>1. TablesOK'
  BY <1>t DEF GhpInv, TypeOK, TablesOK, Putq, NoWish
<1>2. QueueOK'
  BY <1>m, Constants DEF GhpInv, TypeOK, QueueOK, Putq, Full
<1>3. ThreadOK'
  BY Constants DEF GhpInv, TypeOK, Position, ThreadOK, Stages, Labels, Putq, NextPair,
     GoTo, values, thread, outside
<1>4. OutsideOK'
  BY DEF GhpInv, TypeOK, OutsideOK, Putq, outside
<1>5. Position'
  BY <1>a, Constants DEF GhpInv, TypeOK, ThreadOK, Position, Putq, NextPair, GoTo, Units
<1>6. NoEcho'
  <2>1. ASSUME NEW i \in Items, NEW u \in Units, pre'[i][u] # table'[i][u]
        PROVE  by'[i][u] = "user"
    BY <2>1, <1>s DEF GhpInv, NoEcho, Putq
  <2>2. Message(PairItem, PairUnit).by = "user"
    BY DEF GhpInv, Position, Putq, Message
  <2>3. ASSUME NEW j \in 1 .. Len(queue') PROVE queue'[j].by = "user"
    BY <2>2, <1>m DEF GhpInv, TypeOK, QueueOK, NoEcho, Putq
  <2> QED BY <2>1, <2>3 DEF NoEcho
<1> QED BY <1>1, <1>2, <1>3, <1>4, <1>5, <1>6 DEF GhpInv, TypeOK

LEMMA ScanDoneStep == ASSUME GhpInv, ScanDone PROVE GhpInv'
<1>1. TablesOK'
  BY DEF GhpInv, TypeOK, TablesOK, ScanDone, values
<1>2. QueueOK'
  BY DEF GhpInv, TypeOK, QueueOK, ScanDone
<1>3. ThreadOK'
  BY DEF GhpInv, TypeOK, ThreadOK, Stages, Labels, ScanDone, GoTo
<1>4. OutsideOK'
  BY DEF GhpInv, TypeOK, OutsideOK, ScanDone, outside
<1>5. Position'
  BY DEF GhpInv, TypeOK, ThreadOK, Position, ScanDone, GoTo, values, PairItem,
     PairUnit, Item
<1>6. NoEcho'
  BY DEF GhpInv, NoEcho, ScanDone, values
<1> QED BY <1>1, <1>2, <1>3, <1>4, <1>5, <1>6 DEF GhpInv, TypeOK

LEMMA SendNothingStep == ASSUME GhpInv, SendNothing PROVE GhpInv'
<1>1. TablesOK'
  BY DEF GhpInv, TypeOK, TablesOK, SendNothing, values
<1>2. QueueOK'
  BY DEF GhpInv, TypeOK, QueueOK, SendNothing
<1>3. ThreadOK'
  BY DEF GhpInv, TypeOK, ThreadOK, Stages, Labels, SendNothing, GoTo
<1>4. OutsideOK'
  BY DEF GhpInv, TypeOK, OutsideOK, SendNothing, outside
<1>5. Position'
  BY DEF GhpInv, TypeOK, ThreadOK, Position, SendNothing, GoTo, values, PairItem,
     PairUnit, Item
<1>6. NoEcho'
  BY DEF GhpInv, NoEcho, SendNothing, values
<1> QED BY <1>1, <1>2, <1>3, <1>4, <1>5, <1>6 DEF GhpInv, TypeOK

LEMMA SendObeyedStep == ASSUME GhpInv, SendObeyed PROVE GhpInv'
<1>a. queue' = Rest
  BY DEF SendObeyed
<1>1. TablesOK'
  BY DEF GhpInv, TypeOK, TablesOK, SendObeyed, values
<1>2. QueueOK'
  BY <1>a, RestIs DEF GhpInv, TypeOK, QueueOK
<1>3. ThreadOK'
  BY DEF GhpInv, TypeOK, ThreadOK, Stages, Labels, SendObeyed, GoTo
<1>4. OutsideOK'
  BY ObeyedOK DEF GhpInv, TypeOK, OutsideOK, SendObeyed
<1>5. Position'
  BY DEF GhpInv, TypeOK, ThreadOK, Position, SendObeyed, GoTo, values, PairItem,
     PairUnit, Item
<1>6. NoEcho'
  BY <1>a, RestIs DEF GhpInv, TypeOK, QueueOK, NoEcho, SendObeyed, values
<1> QED BY <1>1, <1>2, <1>3, <1>4, <1>5, <1>6 DEF GhpInv, TypeOK

LEMMA SendRejectedStep == ASSUME GhpInv, SendRejected PROVE GhpInv'
<1>a. queue' = Rest
  BY DEF SendRejected
<1>1. TablesOK'
  BY ForgottenOK DEF GhpInv, TypeOK, TablesOK, values, SendRejected
<1>2. QueueOK'
  BY <1>a, RestIs DEF GhpInv, TypeOK, QueueOK
<1>3. ThreadOK'
  BY DEF GhpInv, TypeOK, ThreadOK, Stages, Labels, SendRejected, GoTo
<1>4. OutsideOK'
  <2>1. [kind |-> "reject"] \in Answers
    BY DEF Answers
  <2> QED BY <2>1, Constants DEF GhpInv, TypeOK, OutsideOK, SendRejected
<1>5. Position'
  BY DEF GhpInv, TypeOK, ThreadOK, Position, SendRejected, GoTo, values, PairItem,
     PairUnit, Item
<1>6. NoEcho'
  BY <1>a, RestIs DEF GhpInv, TypeOK, QueueOK, NoEcho, SendRejected, values
<1> QED BY <1>1, <1>2, <1>3, <1>4, <1>5, <1>6 DEF GhpInv, TypeOK

LEMMA SendLostStep == ASSUME GhpInv, SendLost PROVE GhpInv'
<1>a. queue' = Rest
  BY DEF SendLost
<1>1. TablesOK'
  BY ForgottenOK DEF GhpInv, TypeOK, TablesOK, values, SendLost
<1>2. QueueOK'
  BY <1>a, RestIs DEF GhpInv, TypeOK, QueueOK
<1>3. ThreadOK'
  BY DEF GhpInv, TypeOK, ThreadOK, Stages, Labels, SendLost, GoTo
<1>4. OutsideOK'
  BY Constants DEF GhpInv, TypeOK, OutsideOK, SendLost, Event, outside
<1>5. Position'
  BY DEF GhpInv, TypeOK, ThreadOK, Position, SendLost, GoTo, values, PairItem,
     PairUnit, Item
<1>6. NoEcho'
  BY <1>a, RestIs DEF GhpInv, TypeOK, QueueOK, NoEcho, SendLost, values
<1> QED BY <1>1, <1>2, <1>3, <1>4, <1>5, <1>6 DEF GhpInv, TypeOK

LEMMA ReadUnitsStep == ASSUME GhpInv, ReadUnits PROVE GhpInv'
<1>a. \A u \in Units : Answer(u) \in Answers
  BY DEF GhpInv, TypeOK, OutsideOK, Answer, Answers, Reports
<1>b. [j \in 1 .. ReadSize |-> Answer(NextUnit(unit, j))] \in Seq(Answers)
  <2>1. \A j \in 1 .. ReadSize : Answer(NextUnit(unit, j)) \in Answers
    BY <1>a, NextUnitIn, Constants DEF GhpInv, TypeOK, ThreadOK
  <2> QED BY <2>1, Constants
<1>c. Len([j \in 1 .. ReadSize |-> Answer(NextUnit(unit, j))]) = ReadSize
  BY Constants
<1>1. TablesOK'
  BY Constants DEF GhpInv, TypeOK, TablesOK, ReadUnits, values
<1>2. QueueOK'
  BY Constants DEF GhpInv, TypeOK, QueueOK, ReadUnits
<1>3. ThreadOK'
  BY NextUnitIn, Constants DEF GhpInv, TypeOK, ThreadOK, ReadUnits, GoTo, Stages, Labels
<1>4. OutsideOK'
  BY <1>b, <1>c, Constants DEF GhpInv, TypeOK, OutsideOK, ReadUnits
<1>5. Position'
  BY Constants DEF GhpInv, TypeOK, ThreadOK, Position, ReadUnits, GoTo, values,
     PairItem, PairUnit, Item
<1>6. NoEcho'
  BY DEF GhpInv, NoEcho, ReadUnits, values
<1> QED BY <1>1, <1>2, <1>3, <1>4, <1>5, <1>6 DEF GhpInv, TypeOK

LEMMA ReadLostStep == ASSUME GhpInv, ReadLost PROVE GhpInv'
<1>1. TablesOK'
  BY Constants DEF GhpInv, TypeOK, TablesOK, ReadLost, values
<1>2. QueueOK'
  BY Constants DEF GhpInv, TypeOK, QueueOK, ReadLost
<1>3. ThreadOK'
  BY NextUnitIn, Constants DEF GhpInv, TypeOK, ThreadOK, ReadLost, GoTo, Stages, Labels
<1>4. OutsideOK'
  BY Constants DEF GhpInv, TypeOK, OutsideOK, ReadLost, Event, outside
<1>5. Position'
  BY Constants DEF GhpInv, TypeOK, ThreadOK, Position, ReadLost, GoTo, values,
     PairItem, PairUnit, Item
<1>6. NoEcho'
  BY DEF GhpInv, NoEcho, ReadLost, values
<1> QED BY <1>1, <1>2, <1>3, <1>4, <1>5, <1>6 DEF GhpInv, TypeOK

LEMMA StartupStep == ASSUME GhpInv, Startup PROVE GhpInv'
<1>1. TablesOK'
  BY DEF GhpInv, TypeOK, TablesOK, Startup, values
<1>2. QueueOK'
  BY DEF GhpInv, TypeOK, QueueOK, Startup
<1>3. ThreadOK'
  BY DEF GhpInv, TypeOK, ThreadOK, Stages, Labels, Startup, GoTo
<1>4. OutsideOK'
  BY DEF GhpInv, TypeOK, OutsideOK, Startup
<1>5. Position'
  BY DEF GhpInv, TypeOK, ThreadOK, Position, Startup, GoTo, values, PairItem,
     PairUnit, Item
<1>6. NoEcho'
  BY DEF GhpInv, NoEcho, Startup, values
<1> QED BY <1>1, <1>2, <1>3, <1>4, <1>5, <1>6 DEF GhpInv, TypeOK

LEMMA StartupLostStep == ASSUME GhpInv, StartupLost PROVE GhpInv'
<1>1. TablesOK' /\ QueueOK'
  BY DEF GhpInv, TypeOK, TablesOK, QueueOK, StartupLost, values
<1>2. ThreadOK'
  BY DEF GhpInv, TypeOK, ThreadOK, Stages, Labels, StartupLost, GoTo
<1>3. OutsideOK'
  BY Constants DEF GhpInv, TypeOK, OutsideOK, StartupLost, Event, outside
<1>4. Position'
  BY DEF GhpInv, TypeOK, ThreadOK, Position, StartupLost, GoTo, values, PairItem,
     PairUnit, Item
<1>5. NoEcho'
  BY DEF GhpInv, NoEcho, StartupLost, values
<1> QED BY <1>1, <1>2, <1>3, <1>4, <1>5 DEF GhpInv, TypeOK

-----------------------------------------------------------------------------
LEMMA InitInv == ASSUME Init PROVE GhpInv
<1>1. TablesOK
  BY Constants DEF Init, TablesOK, NoWish
<1>3. QueueOK /\ ThreadOK
  <2>1. QueueOK
    BY Constants DEF Init, QueueOK
  <2>2. unit \in Units /\ text \in Reports \cup {NoText}
    BY Constants DEF Init
  <2>3. st = "POLLING" /\ at = "poll" /\ k = 1 /\ n = 0
    BY DEF Init
  <2>4. k \in 1 .. 7 /\ n \in Nat
    BY <2>3
  <2>5. st \in Stages /\ at \in Labels
    BY <2>3 DEF Stages, Labels
  <2> QED BY <2>1, <2>2, <2>4, <2>5 DEF ThreadOK
<1>4. OutsideOK
  BY Constants, LineInt DEF Init, OutsideOK
<1>2. Position /\ NoEcho
  BY DEF Init, Position, NoEcho
<1> QED BY <1>1, <1>2, <1>3, <1>4 DEF GhpInv, TypeOK

LEMMA NextInv == ASSUME GhpInv, [Next]_vars PROVE GhpInv'
<1>1. CASE Poll
  BY <1>1, PollEmptyStep, PollReportStep, PollErrorStep, PollResultStep DEF Poll
<1>2. CASE Report
  BY <1>2, WriteErrorOffStep, WriteRoomStep, WriteBlockedStep, WriteAllowedStep,
     WritePointStep, ReportDoneStep DEF Report
<1>3. CASE Scan
  BY <1>3, ScanSameStep, ScanChangedStep, PutqStep, ScanDoneStep DEF Scan
<1>4. CASE Control \/ SendLost
  BY <1>4, SendNothingStep, SendObeyedStep, SendRejectedStep, SendLostStep DEF Control
<1>5. CASE ReadUnits \/ ReadLost \/ Startup \/ StartupLost
  BY <1>5, ReadUnitsStep, ReadLostStep, StartupStep, StartupLostStep
<1>6. CASE Outside \/ AskAgain
  BY <1>6, AskStep, RemoteStep, UnitFailsStep, PowerFailsStep, AskAgainStep DEF Outside
<1>7. CASE UNCHANGED vars
  <2>1. UNCHANGED <<values, queue, thread, outside, wish, events>>
    BY <1>7 DEF vars, values, thread, outside
  <2>2. TypeOK'
    BY <2>1 DEF GhpInv, TypeOK, TablesOK, QueueOK, ThreadOK, OutsideOK, values,
       thread, outside
  <2>3. Position'
    BY <2>1, PositionKept DEF GhpInv, values
  <2>4. NoEcho'
    BY <2>1 DEF GhpInv, NoEcho, values
  <2> QED BY <2>2, <2>3, <2>4 DEF GhpInv
<1> QED BY <1>1, <1>2, <1>3, <1>4, <1>5, <1>6, <1>7 DEF Next, Thread

(* The inductive invariant of hong_while: types, the position of its       *)
(* thread, and who is behind every difference of table and shadow.         *)
THEOREM GhpInvariant == Spec => []GhpInv
BY InitInv, NextInv, PTL DEF Spec

(* Table, shadow, queue and line have their types, for any number of       *)
(* units, any bounds and any losses.                                       *)
THEOREM TypeCorrect == Spec => []TypeOK
<1>1. GhpInv => TypeOK
  BY DEF GhpInv
<1> QED BY <1>1, GhpInvariant, PTL

(* What a unit reports is never sent back to it as a command.              *)
THEOREM NeverEchoed == Spec => []NoEcho
<1>1. GhpInv => NoEcho
  BY DEF GhpInv
<1> QED BY <1>1, GhpInvariant, PTL

-----------------------------------------------------------------------------
\* A user who came between the test of Write_Point and its pSet gets nothing.
RaceInv == at = "write" /\ Shielded(Item, text.unit) => wish[Item][text.unit] = NoWish

WishInv == GhpInv /\ RaceInv /\ WishesKept

LEMMA LatestIs ==
    ASSUME NEW q \in Nat, NEW S \in SUBSET (1 .. q), NEW j \in S, \A l \in S : l <= j
    PROVE  Latest(S) = j
<1>1. \E x \in S : \A l \in S : l <= x
  OBVIOUS
<1>2. Latest(S) \in S /\ \A l \in S : l <= Latest(S)
  BY <1>1 DEF Latest
<1>3. S \subseteq Int
  OBVIOUS
<1> DEFINE x == Latest(S)
<1>4. x \in Int /\ j \in Int /\ x <= j /\ j <= x
  BY <1>2, <1>3
<1>5. x = j
  <2> HIDE DEF x
  <2> QED BY <1>4
<1> QED BY <1>5

LEMMA ComingKept ==
    ASSUME UNCHANGED <<queue, real>>, NEW i, NEW u
    PROVE  Coming(i, u)' = Coming(i, u)
BY DEF Coming, MessagesOf

\* A message at the end is what a unit will be left at.
LEMMA ComingAppend ==
    ASSUME QueueOK, NEW m, queue' = Append(queue, m), UNCHANGED real,
           NEW i, NEW u
    PROVE  Coming(i, u)' = IF m.item = i /\ m.unit = u THEN m.value ELSE Coming(i, u)
<1>1. /\ Len(queue) \in Nat /\ Len(queue') = Len(queue) + 1
      /\ queue'[Len(queue) + 1] = m
      /\ \A j \in 1 .. Len(queue) : queue'[j] = queue[j]
  BY DEF QueueOK
<1>2. CASE m.item = i /\ m.unit = u
  <2>1. /\ MessagesOf(i, u)' \in SUBSET (1 .. Len(queue) + 1)
        /\ Len(queue) + 1 \in MessagesOf(i, u)'
    BY <1>1, <1>2 DEF MessagesOf
  <2>2. \A l \in MessagesOf(i, u)' : l <= Len(queue) + 1
    BY <1>1, <2>1
  <2>3. Latest(MessagesOf(i, u)') = Len(queue) + 1
    <3> DEFINE S == MessagesOf(i, u)'
    <3>1. Len(queue) + 1 \in Nat
      BY <1>1
    <3> HIDE DEF S
    <3> QED BY <2>1, <2>2, <3>1, LatestIs DEF S
  <2> QED BY <1>1, <1>2, <2>1, <2>3 DEF Coming
<1>3. CASE ~(m.item = i /\ m.unit = u)
  <2>1. MessagesOf(i, u)' = MessagesOf(i, u)
    BY <1>1, <1>3 DEF MessagesOf
  <2>2. MessagesOf(i, u) # {} => Latest(MessagesOf(i, u)) \in 1 .. Len(queue)
    BY <1>1, LatestMax DEF MessagesOf
  <2> QED BY <1>1, <1>3, <2>1, <2>2 DEF Coming
<1> QED BY <1>2, <1>3

\* A text that leaves the queue: what is behind it is what it was.
LEMMA RestSeq ==
    ASSUME QueueOK, queue' = Rest
    PROVE  /\ BatchLen \in 0 .. Len(queue) /\ Len(queue) \in Nat
           /\ Len(queue') = Len(queue) - BatchLen
           /\ \A j \in 1 .. Len(queue') : queue'[j] = queue[BatchLen + j]
<1>1. BatchLen \in 0 .. Len(queue) /\ Len(queue) \in Nat
  BY Constants DEF QueueOK, BatchLen
<1> QED BY <1>1 DEF QueueOK, Rest

LEMMA RestMessages ==
    ASSUME QueueOK, queue' = Rest, NEW i, NEW u
    PROVE  /\ InBatch(i, u) = MessagesOf(i, u) <=> MessagesOf(i, u)' = {}
           /\ MessagesOf(i, u)' # {} =>
                 /\ MessagesOf(i, u) # {}
                 /\ queue'[Latest(MessagesOf(i, u)')] = queue[Latest(MessagesOf(i, u))]
<1> DEFINE S == MessagesOf(i, u)
           b == BatchLen
<1>1. /\ b \in 0 .. Len(queue) /\ Len(queue) \in Nat
      /\ Len(queue') = Len(queue) - b
      /\ \A j \in 1 .. Len(queue') : queue'[j] = queue[b + j]
  BY RestSeq
<1>2. \A j \in 1 .. Len(queue') : j \in S' <=> b + j \in S
  BY <1>1 DEF MessagesOf
<1>3. S \in SUBSET (1 .. Len(queue)) /\ S' \in SUBSET (1 .. Len(queue'))
  BY <1>1 DEF MessagesOf
<1>4. ASSUME NEW l \in S, l > b PROVE l - b \in S'
  <2>1. l \in Int /\ l <= Len(queue)
    BY <1>3, <1>1
  <2>2. l - b \in 1 .. Len(queue')
    BY <1>1, <1>4, <2>1
  <2>3. b + (l - b) = l
    BY <1>1, <2>1
  <2> QED BY <1>2, <2>2, <2>3
<1>5. InBatch(i, u) = S <=> S' = {}
  <2>1. ASSUME S' = {} PROVE InBatch(i, u) = S
    BY <1>1, <1>3, <1>4, <2>1 DEF InBatch
  <2>2. ASSUME InBatch(i, u) = S, NEW j \in S' PROVE FALSE
    <3>1. b + j \in S /\ j \in 1 .. Len(queue')
      BY <1>2, <1>3
    <3>2. b + j <= b
      BY <3>1, <2>2 DEF InBatch
    <3> QED BY <3>1, <3>2, <1>1
  <2> QED BY <2>1, <2>2
<1>6. ASSUME S' # {}
      PROVE  S # {} /\ queue'[Latest(S')] = queue[Latest(S)]
  <2>1. Latest(S') \in S' /\ \A l \in S' : l <= Latest(S')
    <3>1. Len(queue') \in Nat
      BY <1>1
    <3> HIDE DEF S
    <3> QED BY <1>3, <1>6, <3>1, LatestMax
  <2> DEFINE j == Latest(S')
  <2>2. j \in 1 .. Len(queue') /\ b + j \in S
    BY <1>2, <1>3, <2>1
  <2>3. ASSUME NEW l \in S PROVE l <= b + j
    <3>1. CASE l > b
      <4>1. l - b \in S'
        BY <1>4, <3>1
      <4>2. l - b <= j
        BY <2>1, <4>1
      <4> QED BY <4>2, <2>2, <1>1, <1>3
    <3>2. CASE ~(l > b)
      BY <3>2, <2>2, <1>1, <1>3
    <3> QED BY <3>1, <3>2
  <2>4. Latest(S) = b + j
    BY <1>1, <1>3, <2>2, <2>3, LatestIs
  <2> QED BY <1>1, <2>2, <2>4
<1> QED BY <1>5, <1>6

\* A text that is obeyed moves its messages from the queue to the units.
LEMMA ComingObeyed ==
    ASSUME QueueOK, OutsideOK, queue' = Rest, real' = Obeyed,
           NEW i \in Items, NEW u \in Units
    PROVE  Coming(i, u)' = Coming(i, u)
<1>1. CASE MessagesOf(i, u)' # {}
  BY <1>1, RestMessages DEF Coming
<1>2. CASE MessagesOf(i, u)' = {} /\ MessagesOf(i, u) = {}
  BY <1>2 DEF Coming, Obeyed, InBatch
<1>3. CASE MessagesOf(i, u)' = {} /\ MessagesOf(i, u) # {}
  <2>1. InBatch(i, u) = MessagesOf(i, u)
    BY <1>3, RestMessages
  <2>2. Latest(MessagesOf(i, u)) \in 1 .. Len(queue)
    <3>1. Len(queue) \in Nat /\ MessagesOf(i, u) \in SUBSET (1 .. Len(queue))
      BY DEF QueueOK, MessagesOf
    <3> HIDE DEF MessagesOf
    <3> QED BY <1>3, <3>1, LatestMax
  <2> DEFINE v == queue[Latest(MessagesOf(i, u))].value
  <2>3. v \in Int
    <3>1. queue[Latest(MessagesOf(i, u))] \in MessageType
      BY <2>2 DEF QueueOK
    <3> QED BY <3>1 DEF MessageType
  <2>4. real'[i][u] = ToLine(i, v)
    BY <1>3, <2>1 DEF Obeyed
  <2>5. FromLine(i, ToLine(i, v)) = v
    BY <2>3 DEF FromLine, ToLine
  <2>6. Coming(i, u)' = FromLine(i, real'[i][u]) /\ Coming(i, u) = v
    BY <1>3 DEF Coming
  <2> QED BY <2>4, <2>5, <2>6
<1> QED BY <1>1, <1>2, <1>3

\* One that is lost leaves the settings it does not mention alone.
LEMMA ComingLost ==
    ASSUME QueueOK, queue' = Rest, UNCHANGED real, NEW i, NEW u, InBatch(i, u) = {}
    PROVE  Coming(i, u)' = Coming(i, u)
<1>1. CASE MessagesOf(i, u)' # {}
  BY <1>1, RestMessages DEF Coming
<1>2. CASE MessagesOf(i, u)' = {}
  <2>1. MessagesOf(i, u) = {}
    BY <1>2, RestMessages
  <2> QED BY <1>2, <2>1 DEF Coming
<1> QED BY <1>1, <1>2

-----------------------------------------------------------------------------
OneWish(i, u) == wish[i][u] # NoWish =>
                    /\ table[i][u] = wish[i][u]
                    /\ \/ pre[i][u] # table[i][u]
                       \/ at = "putq" /\ PairItem = i /\ PairUnit = u
                       \/ Coming(i, u) = wish[i][u]

LEMMA EachWish == WishesKept <=> \A i \in Items, u \in Units : OneWish(i, u)
BY DEF WishesKept, OneWish

\* A step that writes neither table nor shadow, sends nothing and is not
\* between the two looks of Chk_User_Control.
LEMMA WishesStay ==
    ASSUME WishesKept, UNCHANGED <<table, pre, queue, real, wish>>,
           at # "putq" \/ UNCHANGED <<at, k, n>>
    PROVE  WishesKept'
<1> SUFFICES ASSUME NEW i \in Items, NEW u \in Units PROVE OneWish(i, u)'
  BY DEF WishesKept, OneWish
<1>1. OneWish(i, u)
  BY EachWish
<1>2. Coming(i, u)' = Coming(i, u)
  BY ComingKept
<1>3. CASE at # "putq"
  BY <1>1, <1>2, <1>3 DEF OneWish
<1>4. CASE UNCHANGED <<at, k, n>>
  BY <1>1, <1>2, <1>4 DEF OneWish, PairItem, PairUnit
<1> QED BY <1>3, <1>4

LEMMA AfterPollAt ==
    ASSUME NEW result, NEW left, AfterPoll(result, left)
    PROVE  at' \in {"poll", "scan", "send", "read", "startup"}
BY DEF AfterPoll, GoTo

LEMMA PollWishes ==
    ASSUME WishInv, Poll PROVE RaceInv' /\ WishesKept'
<1>1. at = "poll" /\ UNCHANGED <<table, pre, queue, real, wish>>
  BY DEF Poll, PollEmpty, PollReport, PollError, PollResult, values, outside
<1>2. at' # "write"
  <2>1. CASE PollReport
    BY <2>1 DEF PollReport, GoTo
  <2>2. CASE PollEmpty \/ PollError \/ PollResult("startup", "startup")
               \/ PollResult("reject", "error")
    BY <2>2, AfterPollAt DEF PollEmpty, PollError, PollResult
  <2> QED BY <2>1, <2>2 DEF Poll
<1> QED BY <1>1, <1>2, WishesStay DEF WishInv, RaceInv

\* Table and shadow get the same value.
LEMMA WriteWishes ==
    ASSUME TablesOK, WishesKept, at # "putq", UNCHANGED <<queue, real>>,
           NEW i \in Items, NEW u \in Units, NEW v \in Int, WriteBoth(i, u, v),
           Shielded(i, u) => wish[i][u] = NoWish
    PROVE  WishesKept'
<1> SUFFICES ASSUME NEW j \in Items, NEW w \in Units PROVE OneWish(j, w)'
  BY DEF WishesKept, OneWish
<1>1. OneWish(j, w)
  BY EachWish
<1>2. Coming(j, w)' = Coming(j, w)
  BY ComingKept
<1>3. /\ table'[j][w] = IF j = i /\ w = u THEN v ELSE table[j][w]
      /\ pre'[j][w] = IF j = i /\ w = u THEN v ELSE pre[j][w]
  BY DEF TablesOK, WriteBoth
<1>4. CASE j = i /\ w = u
  <2>1. wish'[i][u] = IF Shielded(i, u) \/ (table[i][u] = v /\ Coming(i, u) = v)
                      THEN wish[i][u] ELSE NoWish
    BY DEF TablesOK, WriteBoth
  <2>2. wish'[i][u] # NoWish => table[i][u] = v /\ Coming(i, u) = v /\ wish'[i][u] = wish[i][u]
    BY <2>1
  <2> QED BY <1>1, <1>2, <1>3, <1>4, <2>2 DEF OneWish
<1>5. CASE ~(j = i /\ w = u)
  <2>1. wish'[j][w] = wish[j][w]
    BY <1>5 DEF TablesOK, WriteBoth
  <2> QED BY <1>1, <1>2, <1>3, <1>5, <2>1 DEF OneWish
<1> QED BY <1>4, <1>5

LEMMA ReportWishes ==
    ASSUME WishInv, Report PROVE RaceInv' /\ WishesKept'
<1>1. CASE WriteErrorOff
  <2>1. text \in Reports /\ text.unit \in Units
    BY <1>1 DEF WishInv, GhpInv, Position, WriteErrorOff, Reports
  <2>2. /\ at = "guard" /\ UNCHANGED <<queue, real, at>>
        /\ WriteBoth("onoff", text.unit, 0) /\ ~Shielded("onoff", text.unit)
    BY <1>1 DEF WriteErrorOff, outside, Shielded
  <2>3. WishesKept'
    BY <2>1, <2>2, ItemsAre, WriteWishes DEF WishInv, GhpInv, TypeOK
  <2> QED BY <2>2, <2>3 DEF RaceInv
<1>2. CASE WriteRoom \/ WriteBlocked
  <2>1. at = "guard" /\ UNCHANGED <<at, table, pre, queue, real, wish>>
    BY <1>2 DEF WriteRoom, WriteBlocked, values, outside
  <2> QED BY <2>1, WishesStay DEF WishInv, RaceInv
<1>3. CASE WriteAllowed
  <2>1. at = "guard" /\ UNCHANGED <<table, pre, queue, real, wish>>
    BY <1>3 DEF WriteAllowed, values, outside
  <2>2. ~Shielded(Item, text.unit)'
    BY <1>3 DEF WriteAllowed, Shielded, Pending, values, Item
  <2> QED BY <2>1, <2>2, WishesStay DEF WishInv, RaceInv
<1>4. CASE WritePoint
  <2>1. /\ at = "write" /\ at' = "guard" /\ UNCHANGED <<queue, real>>
        /\ WriteBoth(Item, text.unit, FromLine(Item, text.value[Item]))
    BY <1>4 DEF WritePoint, GoTo, outside
  <2>2. text \in Reports /\ k \in 1 .. 6 /\ Item # "room"
    BY <2>1 DEF WishInv, GhpInv, TypeOK, ThreadOK, Position
  <2>3. Item \in Items
    BY <2>2, ReportItem DEF Item
  <2>4. text.unit \in Units /\ FromLine(Item, text.value[Item]) \in Int
    BY <2>2, <2>3, LineInt DEF Reports
  <2>5. Shielded(Item, text.unit) => wish[Item][text.unit] = NoWish
    BY <2>1 DEF WishInv, RaceInv
  <2>6. WishesKept'
    BY <2>1, <2>3, <2>4, <2>5, WriteWishes DEF WishInv, GhpInv, TypeOK
  <2> QED BY <2>1, <2>6 DEF RaceInv
<1>5. CASE ReportDone
  <2>1. /\ at = "guard" /\ UNCHANGED <<table, pre, queue, real, wish>>
        /\ AfterPoll("ok", outbox)
    BY <1>5 DEF ReportDone, values, outside
  <2>2. at' # "write"
    BY <2>1, AfterPollAt
  <2> QED BY <2>1, <2>2, WishesStay DEF WishInv, RaceInv
<1> QED BY <1>1, <1>2, <1>3, <1>4, <1>5 DEF Report

\* The message Putq makes, and what it switches on with it.
LEMMA PutqWishes ==
    ASSUME WishInv, Putq PROVE RaceInv' /\ WishesKept'
<1> DEFINE i == PairItem
           u == PairUnit
<1>1. /\ at = "putq" /\ at' = "scan" /\ UNCHANGED <<pre, real>>
      /\ table' = IF Turned("speed", u) THEN SwitchedOn(u) ELSE table
      /\ queue' = IF Full THEN queue ELSE Append(queue, Message(i, u))
      /\ \A j \in Items, w \in Units :
            wish'[j][w] = IF Full /\ j = i /\ w = u THEN NoWish
                          ELSE IF Turned(j, w)
                          THEN IF table'[j][w] # pre[j][w] \/ table'[j][w] = Coming(j, w)
                               THEN table'[j][w] ELSE NoWish
                          ELSE wish[j][w]
  BY DEF Putq, GoTo, outside
<1>2. QueueOK /\ TablesOK /\ k \in 1 .. 5 /\ i \in Items /\ u \in Units
  BY <1>1, CheckItem DEF WishInv, GhpInv, TypeOK, ThreadOK, Position, PairItem, PairUnit
<1>3. ASSUME NEW j \in Items, NEW w \in Units, ~Turned(j, w)
      PROVE  table'[j][w] = table[j][w]
  <2>1. CASE ~Turned("speed", u)
    BY <1>1, <2>1
  <2>2. CASE Turned("speed", u)
    <3>1. ~(j \in {"speed", "direction"} /\ w = u)
      BY <1>3, <2>2 DEF Turned
    <3>2. table' = SwitchedOn(u)
      BY <1>1, <2>2
    <3> QED BY <1>2, <3>1, <3>2 DEF SwitchedOn, TablesOK
  <2> QED BY <2>1, <2>2
<1>4. ASSUME NEW j \in Items, NEW w \in Units
      PROVE  Coming(j, w)' = IF j = i /\ w = u /\ ~Full THEN table[i][u] ELSE Coming(j, w)
  <2>1. CASE Full
    BY <1>1, <2>1, ComingKept
  <2>2. CASE ~Full
    <3>1. queue' = Append(queue, Message(i, u))
      BY <1>1, <2>2
    <3>2. Coming(j, w)' = IF Message(i, u).item = j /\ Message(i, u).unit = w
                          THEN Message(i, u).value ELSE Coming(j, w)
      BY <1>1, <1>2, <3>1, ComingAppend
    <3> QED BY <2>2, <3>2 DEF Message
  <2> QED BY <2>1, <2>2
<1>5. ASSUME NEW j \in Items, NEW w \in Units PROVE OneWish(j, w)'
  <2>1. OneWish(j, w)
    BY EachWish DEF WishInv
  <2>2. CASE j = i /\ w = u
    <3>1. ~Turned(j, w)
      BY <2>2 DEF Turned
    <3>2. table'[j][w] = table[j][w]
      BY <1>3, <3>1
    <3>3. wish'[j][w] # NoWish => ~Full /\ wish'[j][w] = wish[j][w]
      BY <1>1, <2>2, <3>1
    <3> QED BY <1>4, <2>1, <2>2, <3>2, <3>3 DEF OneWish
  <2>3. CASE ~(j = i /\ w = u) /\ Turned(j, w)
    BY <1>1, <1>4, <2>3 DEF OneWish
  <2>4. CASE ~(j = i /\ w = u) /\ ~Turned(j, w)
    <3>1. wish'[j][w] = wish[j][w] /\ Coming(j, w)' = Coming(j, w)
      BY <1>1, <1>4, <2>4
    <3>2. table'[j][w] = table[j][w] /\ pre' = pre
      BY <1>1, <1>3, <2>4
    <3> QED BY <2>1, <2>4, <3>1, <3>2 DEF OneWish
  <2> QED BY <2>2, <2>3, <2>4
<1>6. WishesKept'
  BY <1>5 DEF WishesKept, OneWish
<1> QED BY <1>1, <1>6 DEF RaceInv

LEMMA ScanWishes ==
    ASSUME WishInv, Scan PROVE RaceInv' /\ WishesKept'
<1>1. CASE ScanSame \/ ScanDone
  <2>1. at = "scan" /\ at' # "write" /\ UNCHANGED <<table, pre, queue, real, wish>>
    BY <1>1 DEF ScanSame, ScanDone, GoTo, values, outside
  <2> QED BY <2>1, WishesStay DEF WishInv, RaceInv
<1>2. CASE ScanChanged
  <2>1. /\ at = "scan" /\ at' = "putq" /\ UNCHANGED <<k, n, table, queue, real, wish>>
        /\ pre' = [pre EXCEPT ![PairItem][PairUnit] = table[PairItem][PairUnit]]
    BY <1>2 DEF ScanChanged, GoTo, outside
  <2>2. ASSUME NEW j \in Items, NEW w \in Units PROVE OneWish(j, w)'
    <3>1. OneWish(j, w) /\ Coming(j, w)' = Coming(j, w)
      BY <2>1, EachWish, ComingKept DEF WishInv
    <3>2. PairItem' = PairItem /\ PairUnit' = PairUnit
      BY <2>1 DEF PairItem, PairUnit
    <3>3. CASE j = PairItem /\ w = PairUnit
      BY <2>1, <3>1, <3>2, <3>3 DEF OneWish
    <3>4. CASE ~(j = PairItem /\ w = PairUnit)
      <4>1. pre'[j][w] = pre[j][w]
        BY <2>1, <3>4 DEF WishInv, GhpInv, TypeOK, TablesOK
      <4> QED BY <2>1, <3>1, <3>4, <4>1 DEF OneWish
    <3> QED BY <3>3, <3>4
  <2>3. WishesKept'
    BY <2>2 DEF WishesKept, OneWish
  <2> QED BY <2>1, <2>3 DEF RaceInv
<1> QED BY <1>1, <1>2, PutqWishes DEF Scan

LEMMA SendWishes ==
    ASSUME WishInv, Control \/ SendLost PROVE RaceInv' /\ WishesKept'
<1>t. QueueOK /\ OutsideOK /\ TablesOK
  BY DEF WishInv, GhpInv, TypeOK
<1>1. CASE SendNothing
  <2>1. at = "send" /\ at' # "write" /\ UNCHANGED <<table, pre, queue, real, wish>>
    BY <1>1 DEF SendNothing, GoTo, values, outside
  <2> QED BY <2>1, WishesStay DEF WishInv, RaceInv
<1>2. CASE SendObeyed
  <2>1. /\ at = "send" /\ at' = "poll" /\ UNCHANGED <<table, pre, wish>>
        /\ queue' = Rest /\ real' = Obeyed
    BY <1>2 DEF SendObeyed, GoTo, values
  <2>2. ASSUME NEW j \in Items, NEW w \in Units PROVE OneWish(j, w)'
    <3>1. OneWish(j, w) /\ Coming(j, w)' = Coming(j, w)
      BY <1>t, <2>1, EachWish, ComingObeyed DEF WishInv
    <3> QED BY <2>1, <3>1 DEF OneWish
  <2>3. WishesKept'
    BY <2>2 DEF WishesKept, OneWish
  <2> QED BY <2>1, <2>3 DEF RaceInv
<1>3. CASE SendRejected \/ SendLost
  <2>1. /\ at = "send" /\ at' = "poll" /\ UNCHANGED <<table, pre, real>>
        /\ queue' = Rest /\ wish' = Forgotten
    BY <1>3 DEF SendRejected, SendLost, GoTo, values, outside
  <2>2. ASSUME NEW j \in Items, NEW w \in Units PROVE OneWish(j, w)'
    <3>1. wish'[j][w] # NoWish => InBatch(j, w) = {} /\ wish'[j][w] = wish[j][w]
      BY <2>1 DEF Forgotten
    <3>2. CASE InBatch(j, w) = {}
      <4>1. OneWish(j, w) /\ Coming(j, w)' = Coming(j, w)
        BY <1>t, <2>1, <3>2, EachWish, ComingLost DEF WishInv
      <4> QED BY <2>1, <3>1, <4>1 DEF OneWish
    <3> QED BY <3>1, <3>2 DEF OneWish
  <2>3. WishesKept'
    BY <2>2 DEF WishesKept, OneWish
  <2> QED BY <2>1, <2>3 DEF RaceInv
<1> QED BY <1>1, <1>2, <1>3 DEF Control

LEMMA ReadWishes ==
    ASSUME WishInv, ReadUnits \/ ReadLost \/ Startup \/ StartupLost
    PROVE  RaceInv' /\ WishesKept'
<1>1. at # "putq" /\ at' = "poll" /\ UNCHANGED <<table, pre, queue, real, wish>>
  BY DEF ReadUnits, ReadLost, Startup, StartupLost, GoTo, values, outside
<1> QED BY <1>1, WishesStay DEF WishInv, RaceInv

LEMMA AskWishes ==
    ASSUME WishInv, NEW w \in Wishes, Ask(w[1], w[2], w[3])
    PROVE  RaceInv' /\ WishesKept'
<1> DEFINE i == w[1]
           u == w[2]
           v == w[3]
<1>1. i \in Items /\ u \in Units /\ v \in Int /\ TablesOK
  BY Constants DEF WishInv, GhpInv, TypeOK
<1>2. /\ UNCHANGED <<pre, error, queue, real, at, k, n, text>>
      /\ \A j \in Items, x \in Units :
            /\ table'[j][x] = IF j = i /\ x = u THEN v ELSE table[j][x]
            /\ wish'[j][x] = IF j = i /\ x = u
                             THEN IF ~Racing(i, u) /\ (v # pre[i][u] \/ v = Coming(i, u))
                                  THEN v ELSE NoWish
                             ELSE wish[j][x]
  BY <1>1 DEF Ask, thread, outside, TablesOK
<1>3. ASSUME NEW j \in Items, NEW x \in Units PROVE OneWish(j, x)'
  <2>1. OneWish(j, x) /\ Coming(j, x)' = Coming(j, x)
    BY <1>2, EachWish, ComingKept DEF WishInv
  <2>2. CASE j = i /\ x = u
    BY <1>2, <2>1, <2>2 DEF OneWish
  <2>3. CASE ~(j = i /\ x = u)
    BY <1>2, <2>1, <2>3 DEF OneWish, PairItem, PairUnit
  <2> QED BY <2>2, <2>3
<1>4. WishesKept'
  BY <1>3 DEF WishesKept, OneWish
<1>5. ASSUME at = "write", Shielded(Item, text.unit)'
      PROVE  wish'[Item][text.unit] = NoWish
  <2>1. Item \in Items /\ text.unit \in Units
    <3>1. text \in Reports /\ k \in 1 .. 6 /\ Item # "room"
      BY <1>5 DEF WishInv, GhpInv, TypeOK, ThreadOK, Position
    <3> QED BY <3>1, ReportItem DEF Item, Reports
  <2>2. Item' = Item
    BY <1>2 DEF Item
  <2>3. CASE Item = i /\ text.unit = u
    BY <1>2, <1>5, <2>1, <2>3 DEF Racing
  <2>4. CASE ~(Item = i /\ text.unit = u)
    <3>1. Shielded(Item, text.unit)
      BY <1>2, <1>5, <2>1, <2>2, <2>4 DEF Shielded
    <3> QED BY <1>2, <1>5, <2>1, <2>4, <3>1 DEF WishInv, RaceInv
  <2> QED BY <2>3, <2>4
<1>6. RaceInv'
  BY <1>2, <1>5 DEF RaceInv, Item
<1> QED BY <1>4, <1>6

LEMMA RemoteWishes ==
    ASSUME WishInv, NEW w \in Remotes, Remote(w[1], w[2], w[3])
    PROVE  RaceInv' /\ WishesKept'
<1> DEFINE i == w[1]
           u == w[2]
<1>1. i \in Items /\ u \in Units /\ TablesOK /\ OutsideOK
  BY Constants DEF WishInv, GhpInv, TypeOK
<1>2. /\ UNCHANGED <<table, pre, error, queue, at, k, n, text>>
      /\ \A j \in Items, x \in Units :
            /\ wish'[j][x] = IF j = i /\ x = u THEN NoWish ELSE wish[j][x]
            /\ ~(j = i /\ x = u) => real'[j][x] = real[j][x]
  BY <1>1 DEF Remote, thread, values, TablesOK, OutsideOK
<1>3. ASSUME NEW j \in Items, NEW x \in Units PROVE OneWish(j, x)'
  <2>1. OneWish(j, x)
    BY EachWish DEF WishInv
  <2>2. CASE j = i /\ x = u
    BY <1>2, <2>2 DEF OneWish
  <2>3. CASE ~(j = i /\ x = u)
    <3>1. Coming(j, x)' = Coming(j, x)
      BY <1>2, <2>3 DEF Coming, MessagesOf
    <3> QED BY <1>2, <2>1, <2>3, <3>1 DEF OneWish, PairItem, PairUnit
  <2> QED BY <2>2, <2>3
<1>4. WishesKept'
  BY <1>3 DEF WishesKept, OneWish
<1>5. ASSUME at = "write", Shielded(Item, text.unit)
      PROVE  wish'[Item][text.unit] = NoWish
  <2>1. Item \in Items /\ text.unit \in Units
    <3>1. text \in Reports /\ k \in 1 .. 6 /\ Item # "room"
      BY <1>5 DEF WishInv, GhpInv, TypeOK, ThreadOK, Position
    <3> QED BY <3>1, ReportItem DEF Item, Reports
  <2> QED BY <1>2, <1>5, <2>1 DEF WishInv, RaceInv
<1>6. RaceInv'
  BY <1>2, <1>5 DEF RaceInv, Item, Shielded
<1> QED BY <1>4, <1>6

\* What else happens outside concerns neither table nor queue nor units.
LEMMA OutsideWishes ==
    ASSUME WishInv, \/ PowerFails \/ AskAgain \/ UNCHANGED vars
                    \/ \E u \in Units : UnitFails(u)
    PROVE  RaceInv' /\ WishesKept'
<1>1. UNCHANGED <<table, pre, error, queue, real, wish, at, k, n, text>>
  BY DEF PowerFails, AskAgain, UnitFails, vars, values, thread
<1>2. WishesKept'
  BY <1>1, WishesStay DEF WishInv
<1>3. RaceInv'
  BY <1>1 DEF WishInv, RaceInv, Item, Shielded
<1> QED BY <1>2, <1>3

LEMMA WishNext == ASSUME WishInv, [Next]_vars PROVE WishInv'
<1>1. GhpInv'
  BY NextInv DEF WishInv
<1>2. RaceInv' /\ WishesKept'
  <2>1. CASE Poll \/ Report \/ Scan
    BY <2>1, PollWishes, ReportWishes, ScanWishes
  <2>2. CASE Control \/ SendLost \/ ReadUnits \/ ReadLost \/ Startup \/ StartupLost
    BY <2>2, SendWishes, ReadWishes
  <2>3. CASE Outside
    BY <2>3, AskWishes, RemoteWishes, OutsideWishes DEF Outside
  <2>4. CASE AskAgain \/ UNCHANGED vars
    BY <2>4, OutsideWishes
  <2> QED BY <2>1, <2>2, <2>3, <2>4 DEF Next, Thread
<1> QED BY <1>1, <1>2 DEF WishInv

(* A user's wish is in the table until the unit has it, and the thread     *)
(* will notice it or has: for any number of units, users and losses, and   *)
(* but for the ways that end it (WriteBoth, Putq, Forgotten, Remote).      *)
THEOREM WishesReach == Spec => []WishesKept
<1>1. Init => WishInv
  <2> SUFFICES ASSUME Init PROVE WishInv
    OBVIOUS
  <2>1. GhpInv
    BY InitInv
  <2>2. \A i \in Items, u \in Units : wish[i][u] = NoWish
    BY DEF Init
  <2>3. RaceInv /\ WishesKept
    BY <2>2 DEF Init, RaceInv, WishesKept
  <2> QED BY <2>1, <2>3 DEF WishInv
<1>2. WishInv => WishesKept
  BY DEF WishInv
<1> QED BY <1>1, <1>2, WishNext, PTL DEF Spec
=============================================================================
