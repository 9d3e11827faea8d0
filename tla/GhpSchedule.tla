---------------------------- MODULE GhpSchedule ----------------------------
(***************************************************************************)
(* The schedules of the indoor units (APP/Iface/IFACE_GHP/ghp_schedule.c)  *)
(* and the server that replaces them (ghp_ScheduleSvr.c).                  *)
(*                                                                         *)
(* In every pass of its loop the thread of the building reads the schedule *)
(* file, writes the modes of the groups to the point table and then looks  *)
(* at each unit: it is switched on or off where the time of day asks for   *)
(* it, and a unit that somebody switched on outside its schedule is        *)
(* switched off after the minutes of g_limitTime.  What the thread knows   *)
(* of a unit from one pass to the next is in three bytes, which users who  *)
(* change groups, modes and the switch itself do not know of.              *)
(***************************************************************************)
EXTENDS Integers

CONSTANTS UnitCnt,       \* g_unitCnt
          GroupCnt,      \* groups besides HAKSA (10 in the code)
          DayLen,        \* hours of a day (24)
          HourLen,       \* minutes of an hour (60), at most 100
          DayCnt,        \* days of a week (7)
          Wrap,          \* minCount is an unsigned char (256)
          DefaultLimit,  \* g_limitTime while the checksum is wrong (200)
          Contents,      \* the schedules the server may be sent
          Saved,         \* SchedGHP.dat from earlier, if there is one
          Grouped,       \* GHP_GROUP in the saved table
          Clocks,        \* the times that may come with a schedule
          Modes,         \* what may be written to GHP_GROUP_MODE
          MaxSkip,       \* bound: minutes between two looks at the same unit
          MaxEvents      \* bound: new schedules, groups, modes and restarts

Units == 0 .. UnitCnt - 1
HAKSA == 0
Groups == 1 .. GroupCnt

\* GHP_GROUP_MODE: 가동모드, 권한모드, 정지모드.
FORCE == 0
FREE == 1
STOP == 2

Hours == 0 .. DayLen - 1
Minutes == 0 .. HourLen - 1
Days == 0 .. DayCnt - 1
Intervals == SUBSET (Nat \X Nat)

(* A schedule file: per group its mode, whether every day has a row of its *)
(* own, and the rows (the one at DayCnt is for every day); the intervals   *)
(* of each unit in HAKSA; the limit.  A time is a number, 130 for 1:30.    *)
Schedules == [kind : {"full"}, mode : [Groups -> Modes], byDay : [Groups -> BOOLEAN],
              row : [Groups -> [0 .. DayCnt -> Intervals]],
              class : [Units -> Intervals], limit : Nat, good : BOOLEAN]
Missing == [kind |-> "missing"]
Short == [kind |-> "short"]

\* g_schedFileData after memset.
Zero == [kind |-> "zero",
         mode |-> [g \in Groups |-> 0], byDay |-> [g \in Groups |-> FALSE],
         row |-> [g \in Groups |-> [d \in 0 .. DayCnt |-> {}]],
         class |-> [u \in Units |-> {}], limit |-> 0, good |-> TRUE]

ASSUME ScheduleAssumption ==
    /\ {UnitCnt, DayLen, HourLen, DayCnt, Wrap, MaxSkip} \subseteq Nat \ {0}
    /\ {GroupCnt, DefaultLimit, MaxEvents} \subseteq Nat
    /\ Modes \subseteq Nat
    /\ {FORCE, FREE, STOP} \subseteq Modes
    /\ Contents \cup {Saved} \subseteq Schedules
    /\ Grouped \in [Units -> 0 .. GroupCnt]
    /\ MaxSkip < HourLen
    /\ Clocks \subseteq Hours \X Minutes \X Days

VARIABLES onoff,    \* GHP_ONOFF
          group,    \* GHP_GROUP
          mode,     \* GHP_GROUP_MODE
          file,     \* SchedGHP.dat
          svr,      \* what the schedule server does
          sent,     \* the schedule it was sent
          data,     \* g_schedFileData
          limit,    \* g_limitTime
          seen,     \* g_UnitData[].group
          touch,    \* g_UnitData[].chkTouch
          count,    \* g_UnitData[].minCount
          minute,   \* g_UnitData[].preMinute
          hour, min, day, \* the clock
          at, turn, \* where the thread is, and the next unit it looks at
          my,       \* the time it took at the start of the pass
          since,    \* minutes since it last looked at a unit
          over,     \* history: minutes a unit has run outside its schedule
          past,     \* history: what the last looks at a unit found
          known,    \* history: a schedule was read since the program started
          torn,     \* history: the program was stopped while the file was written
          events    \* bound: new schedules, groups, modes and restarts so far

table == <<onoff, group, mode>>
server == <<file, svr, sent>>
units == <<seen, touch, count, minute>>
clock == <<hour, min, day>>
thread == <<at, turn, my>>
history == <<past, known, torn>>
vars == <<onoff, group, mode, file, svr, sent, data, limit, seen, touch, count, minute,
          hour, min, day, at, turn, my, since, over, past, known, torn, events>>

\* Between two passes there is none.
NoTime == [time |-> 0, day |-> 0]

\* hong_init_data and Get_UnitInfo of iface_hong.c; the table is as it was saved.
Init == /\ onoff = [u \in Units |-> 0]
        /\ group = Grouped
        /\ mode = [u \in Units |-> FREE]
        /\ file \in {Saved, Missing}
        /\ svr = "idle" /\ sent = Missing
        /\ data = Zero
        /\ limit = 0
        /\ seen = [u \in Units |-> HAKSA]
        /\ touch = [u \in Units |-> 1]
        /\ count = [u \in Units |-> 0]
        /\ minute = [u \in Units |-> 0]
        /\ hour = 0 /\ min = 0 /\ day = 0
        /\ at = "rest" /\ turn = 0
        /\ my = NoTime
        /\ since = [u \in Units |-> 0]
        /\ over = [u \in Units |-> 0]
        /\ past = [u \in Units |-> "new"]
        /\ known = FALSE /\ torn = FALSE
        /\ events = 0

Event == events < MaxEvents /\ events' = events + 1

-----------------------------------------------------------------------------
(* Whoever else writes the switches: users, groups, the stop mode and the  *)
(* units themselves, several of them at once or one.                       *)
Others(new) == /\ onoff' = new
               /\ over' = [u \in Units |-> IF new[u] = 0 THEN 0 ELSE over[u]]
               /\ UNCHANGED <<group, mode, server, data, limit, units, clock, thread,
                              since, history, events>>

SetGroup(u, g) == /\ Event
                  /\ group' = [group EXCEPT ![u] = g]
                  /\ UNCHANGED <<onoff, mode, server, data, limit, units, clock, thread,
                                 since, over, history>>

SetMode(u, m) == /\ Event
                 /\ mode' = [mode EXCEPT ![u] = m]
                 /\ UNCHANGED <<onoff, group, server, data, limit, units, clock, thread,
                                since, over, history>>

(* The clock goes on.  The bound: a pass never takes so long that a unit   *)
(* is not looked at for more than MaxSkip minutes.                         *)
Tick == /\ \A u \in Units : since[u] < MaxSkip
        /\ min' = (min + 1) % HourLen
        /\ hour' = IF min' = 0 THEN (hour + 1) % DayLen ELSE hour
        /\ day' = IF min' = 0 /\ hour' = 0 THEN (day + 1) % DayCnt ELSE day
        /\ since' = [u \in Units |-> since[u] + 1]
        /\ over' = [u \in Units |-> IF onoff[u] = 1 THEN over[u] + 1 ELSE 0]
        /\ UNCHANGED <<table, server, data, limit, units, thread, history, events>>

(* schedule_main: a message that is not complete, does not fit or has a    *)
(* wrong checksum changes nothing but the buffer of the connection.        *)

\* Parsing_Data: under schedule_mutex the file is emptied, then written.
Upload(c) == /\ svr = "idle"
             /\ Event
             /\ svr' = "writing"
             /\ sent' = c
             /\ file' = Short
             /\ UNCHANGED <<table, data, limit, units, clock, thread, since, over, history>>

\* fopen fails: the old schedule stays, and the time is set all the same.
UploadFails == /\ svr = "idle"
               /\ Event
               /\ svr' = "date"
               /\ UNCHANGED <<table, file, sent, data, limit, units, clock, thread, since,
                              over, history>>

Written == /\ svr = "writing"
           /\ svr' = "date"
           /\ file' = sent
           /\ UNCHANGED <<table, sent, data, limit, units, clock, thread, since, over,
                          history, events>>

\* SetDate: with every schedule comes the time.
SetDate(c) == /\ svr = "date"
              /\ svr' = "idle"
              /\ sent' = Missing
              /\ hour' = c[1] /\ min' = c[2] /\ day' = c[3]
              /\ over' = [u \in Units |-> 0]
              /\ UNCHANGED <<table, file, data, limit, units, thread, since, history, events>>

\* The program is stopped and started again: the table and the file remain.
Restart == /\ Event
           /\ svr' = "idle" /\ sent' = Missing
           /\ data' = Zero
           /\ limit' = 0
           /\ seen' = [u \in Units |-> HAKSA]
           /\ touch' = [u \in Units |-> 1]
           /\ count' = [u \in Units |-> 0]
           /\ minute' = [u \in Units |-> 0]
           /\ at' = "rest" /\ turn' = 0
           /\ my' = NoTime
           /\ since' = [u \in Units |-> 0]
           /\ over' = [u \in Units |-> 0]
           /\ past' = [u \in Units |-> "new"]
           /\ known' = FALSE
           /\ torn' = (torn \/ svr = "writing")
           /\ UNCHANGED <<table, file, clock>>

-----------------------------------------------------------------------------
\* Check_Schedule: the time of day is taken once for the whole pass.
StartPass == /\ at = "rest"
             /\ at' = "file"
             /\ turn' = 0
             /\ my' = [time |-> hour * 100 + min, day |-> day]
             /\ UNCHANGED <<table, server, data, limit, units, clock, since, over,
                            history, events>>

\* Mutant: the thread does not wait.
NoLock == TRUE

\* schedule_mutex; the thread waits while the server writes.
Unlocked == svr # "writing"

\* Mutant: the group is taken for the index.
GroupModesShifted(new) == [u \in Units |->
    IF seen[u] # HAKSA /\ seen[u] + 1 \in Groups THEN new.mode[seen[u] + 1] ELSE mode[u]]

(* SetScheduleData: the modes of the groups, as the units were grouped in  *)
(* the pass before.                                                        *)
GroupModes(new) == [u \in Units |-> IF seen[u] # HAKSA THEN new.mode[seen[u]] ELSE mode[u]]

\* ReadScheduleFile, then SetScheduleData.
Read(new, lim) == /\ at = "file"
                  /\ Unlocked
                  /\ data' = new
                  /\ limit' = lim
                  /\ mode' = GroupModes(new)
                  /\ at' = "units"
                  /\ UNCHANGED <<onoff, group, server, units, clock, turn, my, since, over,
                                 past, torn, events>>

ReadMissing == file.kind = "missing" /\ Read(data, limit) /\ UNCHANGED known

\* The size is wrong: the schedule has been cleared already.
ReadShort == file.kind = "short" /\ Read(Zero, limit) /\ UNCHANGED known

\* A wrong checksum costs the file its limit only.
ReadFull == /\ file.kind = "full"
            /\ Read(file, IF file.good THEN file.limit ELSE DefaultLimit)
            /\ known' = TRUE

-----------------------------------------------------------------------------
\* ReadScheduleGroup, ReadScheduleMode: what is not valid is replaced.
GroupOf(u) == IF group[u] \in 0 .. GroupCnt THEN group[u] ELSE HAKSA
ModeOf(u) == IF mode[u] \in {FORCE, FREE, STOP} THEN mode[u] ELSE FREE

\* ReadScheduleMethod, ReadGroupScheduleTime.
Row(u, d) == LET g == GroupOf(u)
             IN IF g = HAKSA THEN data.class[u]
                ELSE data.row[g][IF data.byDay[g] THEN d ELSE DayCnt]

\* RunSchduleControl: an interval that starts at midnight is no interval.
Inside(S) == \E i \in S : i[1] # 0 /\ i[1] <= my.time /\ my.time < i[2]

\* CheckLimitTime: the limit in minutes, and one more minute where it is another one.
LimitTime(l) == ((l \div 100) * 60) + (l % 100)

\* Mutant: the minutes are not added up.
CountedOnce(u) == IF min # minute[u] THEN 1 ELSE count[u]

Counted(u) == IF min # minute[u] THEN (count[u] + 1) % Wrap ELSE count[u]

\* The switch of unit u and the three bytes after a look at it.
Put(u, on, t, c, m) == /\ onoff' = [onoff EXCEPT ![u] = on]
                       /\ touch' = [touch EXCEPT ![u] = t]
                       /\ count' = [count EXCEPT ![u] = c]
                       /\ minute' = [minute EXCEPT ![u] = m]
Keep(u, t) == Put(u, onoff[u], t, count[u], minute[u])

\* A unit that runs outside its schedule is switched off after the limit.
Limited(u, t) ==
    \/ onoff[u] # 1 /\ Keep(u, t)
    \/ /\ onoff[u] = 1
       /\ IF Counted(u) > LimitTime(limit) THEN Put(u, 0, t, 0, min)
          ELSE Put(u, 1, t, Counted(u), min)

\* The next unit of the pass.  localtime has one buffer: the day may be a newer one.
Look(u, m, in) ==
    /\ at = "units" /\ turn = u
    /\ ModeOf(u) = m
    /\ \E d \in {my.day, day} : Inside(Row(u, d)) = in
    /\ group' = [group EXCEPT ![u] = GroupOf(u)]
    /\ mode' = [mode EXCEPT ![u] = m]
    /\ seen' = [seen EXCEPT ![u] = GroupOf(u)]
    /\ turn' = IF u + 1 < UnitCnt THEN u + 1 ELSE 0
    /\ at' = IF u + 1 < UnitCnt THEN "units" ELSE "rest"
    /\ my' = IF u + 1 < UnitCnt THEN my ELSE NoTime
    /\ since' = [since EXCEPT ![u] = 0]
    /\ over' = [over EXCEPT ![u] = IF in \/ onoff'[u] = 0 THEN 0 ELSE @]
    /\ past' = [past EXCEPT ![u] = IF m # FORCE THEN "new"
                                   ELSE IF in THEN "in"
                                   ELSE IF @ \in {"gap", "out"} THEN "out" ELSE "gap"]
    /\ UNCHANGED <<server, data, limit, clock, known, torn, events>>

\* Mutant: a unit is switched on wherever it is found off.
TouchForgotten(u) == Put(u, 1, 0, count[u], minute[u]) /\ Look(u, FORCE, TRUE)

\* Sched_ForceMode: switched on once, then left to the users.
ForceStart(u) == touch[u] = 0 /\ Put(u, 1, 1, count[u], minute[u]) /\ Look(u, FORCE, TRUE)
ForceInside(u) == touch[u] # 0 /\ Keep(u, touch[u]) /\ Look(u, FORCE, TRUE)

\* RunSchduleControl, then Sched_ForceMode_2.
ForceEnd(u) == touch[u] = 1 /\ Put(u, 0, 2, 0, 0) /\ Look(u, FORCE, FALSE)

\* Mutant: the mark of the last interval stays.
ForceOutsideMarked(u) == touch[u] # 1 /\ Limited(u, touch[u]) /\ Look(u, FORCE, FALSE)

ForceOutside(u) == touch[u] # 1 /\ Limited(u, 0) /\ Look(u, FORCE, FALSE)

\* Sched_FreeMode: outside the schedule switched off once, then limited.
FreeInside(u) == Put(u, onoff[u], 0, 0, 0) /\ Look(u, FREE, TRUE)
FreeEnd(u) == touch[u] = 0 /\ Put(u, 0, 1, count[u], minute[u]) /\ Look(u, FREE, FALSE)
FreeOutside(u) == touch[u] # 0 /\ Limited(u, touch[u]) /\ Look(u, FREE, FALSE)

Stopped(u) == Put(u, 0, touch[u], count[u], minute[u])
                 /\ \E in \in BOOLEAN : Look(u, STOP, in)

-----------------------------------------------------------------------------
LookAt(u) == \/ ForceStart(u) \/ ForceInside(u) \/ ForceEnd(u) \/ ForceOutside(u)
             \/ FreeInside(u) \/ FreeEnd(u) \/ FreeOutside(u) \/ Stopped(u)
Thread == StartPass \/ ReadMissing \/ ReadShort \/ ReadFull \/ \E u \in Units : LookAt(u)
Server == Written \/ \E c \in Clocks : SetDate(c)
Users == \/ \E new \in [Units -> {0, 1}] : Others(new)
         \/ \E u \in Units : \/ \E g \in 0 .. GroupCnt + 1 : SetGroup(u, g)
                             \/ \E m \in Modes : SetMode(u, m)
         \/ \E c \in Contents : Upload(c)
         \/ UploadFails

Next == Thread \/ Server \/ Users \/ Tick \/ Restart

Spec == Init /\ [][Next]_vars
FairSpec == Spec /\ WF_vars(Thread) /\ WF_vars(Server)

-----------------------------------------------------------------------------
Looks == {"new", "in", "gap", "out"}

\* The switches, the three bytes of every unit and the clock have their types.
TypeOK == /\ onoff \in [Units -> {0, 1}]
          /\ group \in [Units -> 0 .. GroupCnt + 1] /\ seen \in [Units -> 0 .. GroupCnt]
          /\ mode \in [Units -> Modes]
          /\ file \in Contents \cup {Saved, Missing, Short}
          /\ svr \in {"idle", "writing", "date"} /\ sent \in Contents \cup {Missing}
          /\ data \in Contents \cup {Saved, Zero} /\ limit \in Nat
          /\ touch \in [Units -> 0 .. 2]
          /\ count \in [Units -> 0 .. Wrap - 1]
          /\ minute \in [Units -> Minutes]
          /\ hour \in Hours /\ min \in Minutes /\ day \in Days
          /\ at \in {"rest", "file", "units"} /\ turn \in Units
          /\ my \in [time : Nat, day : Days]
          /\ since \in [Units -> 0 .. MaxSkip] /\ over \in [Units -> Nat]
          /\ past \in [Units -> Looks]
          /\ known \in BOOLEAN /\ torn \in BOOLEAN /\ events \in 0 .. MaxEvents

\* What g_limitTime may be.
Limits == {0, DefaultLimit} \cup {c.limit : c \in Contents \cup {Saved}}

(* Outside its schedule a unit runs for the limit and not for ever, however *)
(* often users switch it and change its group or mode: one minute at most  *)
(* is not counted, and one more is over the limit (over starts again with  *)
(* the program and with a new time).  A limit that minCount cannot exceed, *)
(* 255 minutes or more, never ends.                                        *)
RunsAtMost == \A b \in 0 .. Wrap - 2 :
                 (\A l \in Limits : LimitTime(l) <= b)
                    => \A u \in Units : over[u] <= (b + 2) * MaxSkip

\* The thread looks at unit u in this step.
LooksAt(u) == at = "units" /\ turn = u /\ <<at, turn>>' # <<at, turn>>

(* In force mode a unit is switched on when its schedule begins, whatever  *)
(* users did to it before: if two looks in a row found it outside.         *)
EachStart == [][\A u \in Units :
                   past[u] = "out" /\ past'[u] = "in" => onoff'[u] = 1]_vars

(* Once it has begun the switch is left to the users: a unit that one of   *)
(* them switched off stays off for the rest of the interval.               *)
UserKept == [][\A u \in Units :
                  LooksAt(u) /\ past[u] = "in" /\ past'[u] = "in"
                     => onoff'[u] = onoff[u]]_vars

(* The thread never works with a schedule that is half written: it loses   *)
(* the one it has only to a file that a stop of the program left behind.   *)
Whole == data.kind = "zero" => ~known \/ torn

(* When nobody changes groups, modes and schedules any more every unit of  *)
(* a group has the mode of that group: those that came from another group  *)
(* bring its mode with them for one pass only.                             *)
ModesSettle == <>[](\A u \in Units :
                       LET g == group[u]
                       IN g \in Groups /\ data.mode[g] \in {FORCE, FREE, STOP}
                             => mode[u] = data.mode[g])
=============================================================================
