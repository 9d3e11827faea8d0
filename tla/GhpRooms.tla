------------------------------ MODULE GhpRooms ------------------------------
(***************************************************************************)
(* Who switches the rooms of a building: the loop of hong_while in         *)
(* iface_hong.c with the stop mode of the building (Set_AllStopMode), its  *)
(* group switches (GhpGroup) and its schedules (GhpSchedule), one after    *)
(* the other in every pass, and the users.  While commands are being sent  *)
(* the stop mode and the groups have passes of their own.  All of them     *)
(* write the same switches of the point table, and none knows of the       *)
(* others.                                                                 *)
(***************************************************************************)
EXTENDS GhpGroup, Integers

CONSTANTS GroupCnt, DayLen, HourLen, DayCnt, Wrap, DefaultLimit, Contents, Saved,
          Grouped, Clocks, Modes, MaxSkip, MaxEvents,
          MaxLoops,   \* passes of ST_GET_USER_CONTROL in one turn (6 in the code)
          Commands,   \* the <<switch, value>> users write
          Touched     \* the <<unit, value>> users write

ASSUME RoomsAssumption == /\ MaxLoops \in Nat
                          /\ Touched \subseteq Units \X {0, 1}
                          /\ Commands \subseteq Switches \X {0, 1}

VARIABLES group, mode, file, svr, sent, data, limit, seen, touch, count, minute,
          hour, min, day, at, turn, my, since, over, past, known, torn, events,
          stop,    \* PNO_ALL_STOP_MODE
          stage,   \* what the thread is at: "stop", "halt", "groups" or "schedule"
          halted,  \* units Set_AllStopMode has switched off in this call
          loops,   \* passes of ST_GET_USER_CONTROL since the last schedule
          due      \* history: the value a group switch promises a unit

S == INSTANCE GhpSchedule

schedule == <<group, mode, file, svr, sent, data, limit, seen, touch, count, minute,
              hour, min, day, at, turn, my, since, past, known, torn>>
switches == <<point, copy, next, value, done>>
pass == <<stop, stage, halted, loops>>
vars == <<onoff, over, events, schedule, switches, pass, due>>

Init == /\ S!Init /\ GroupInit
        /\ stop = 0
        /\ stage = "stop"
        /\ halted = 0 /\ loops = 0
        /\ due = [u \in Units |-> Nothing]

\* Whoever writes another value to a unit takes it from the group.
Taken == [u \in Units |-> IF onoff'[u] # onoff[u] /\ onoff'[u] # due[u] THEN Nothing ELSE due[u]]

-----------------------------------------------------------------------------
\* Set_AllStopMode reads the point once.
StopMode == /\ stage = "stop"
            /\ stage' = IF stop > 0 THEN "halt" ELSE "groups"
            /\ next' = 0
            /\ UNCHANGED <<onoff, over, events, schedule, point, copy, value, done, stop, halted,
                           loops, due>>

\* Mutant: one unit less.
AllButOne == halted + 1 < UnitCnt

ToHalt == halted < UnitCnt

\* The units one by one.
Halt == /\ stage = "halt" /\ ToHalt
        /\ S!Others([onoff EXCEPT ![halted] = 0])
        /\ halted' = halted + 1
        /\ due' = Taken
        /\ UNCHANGED <<switches, stop, stage, loops>>

Halted == /\ stage = "halt" /\ ~ToHalt
          /\ stage' = "groups"
          /\ halted' = 0
          /\ UNCHANGED <<onoff, over, events, schedule, switches, stop, loops, due>>

\* Chk_Group_Control.
LookAtSwitch == /\ stage = "groups"
                /\ LookSame \/ LookChanged \/ PassOn \/ LookEnds
                /\ S!Others(onoff')
                /\ due' = Taken
                /\ UNCHANGED pass

\* At most so many passes of ST_GET_USER_CONTROL in a row.
LoopLeft == loops < MaxLoops

\* Do_User_Control has sent a text: the stop mode and the groups again.
NextLoop == /\ stage = "groups" /\ ~Looking
            /\ LoopLeft
            /\ loops' = loops + 1
            /\ stage' = "stop"
            /\ UNCHANGED <<onoff, over, events, schedule, switches, stop, halted, due>>

GroupsDone == /\ stage = "groups" /\ ~Looking
              /\ stage' = "schedule"
              /\ loops' = 0
              /\ UNCHANGED <<onoff, over, events, schedule, switches, stop, halted, due>>

\* Check_Schedule.
CheckSchedule == /\ stage = "schedule"
                 /\ S!Thread
                 /\ stage' = IF at' = "rest" THEN "stop" ELSE "schedule"
                 /\ due' = Taken
                 /\ UNCHANGED <<switches, stop, halted, loops>>

-----------------------------------------------------------------------------
SetUnit(u, v) == /\ S!Others([onoff EXCEPT ![u] = v])
                 /\ due' = Taken
                 /\ UNCHANGED <<switches, pass>>

SetStop(v) == /\ S!Event
              /\ stop' = v
              /\ UNCHANGED <<onoff, over, schedule, switches, stage, halted, loops, due>>

\* The switches whose change is still to be passed on to p.
Above(p) == IF p = Whole THEN {} ELSE {q \in Switches : p \in Writes(q)}
Pending(p) == \E q \in Above(p) : Changed(q) \/ Busy(q)

\* The units below a switch, and those whose section it is passed on to.
Under(p) == {u \in Units : \/ p = SubSeq(Place[u], 1, Len(p))
                           \/ p \in Floors /\ p[1] \in Joined /\ Place[u][1] = p[1] + 1}
Reached(p) == {u \in Under(p) : p = Whole => Number(Place[u]) < AllEnd}

(* A command is a promise to the units of the sections that were switched  *)
(* the other way, if it is a change and nothing above is still to come or  *)
(* on its way; what was promised to the others below it is taken back.     *)
SetSwitch(p, v) ==
    /\ S!Event
    /\ Command(p, v)
    /\ due' = [u \in Units |->
                 IF u \notin Under(p) THEN due[u]
                 ELSE IF u \in Reached(p) /\ copy[p] # v /\ copy[Place[u]] # v
                            /\ ~Busy(p) /\ ~Busy(Place[u])
                            /\ ~Pending(p) /\ ~\E q \in Above(p) : Pending(q)
                 THEN v ELSE Nothing]
    /\ UNCHANGED <<over, schedule, pass>>

SetSchedule == /\ \/ \E u \in Units : \/ \E g \in 0 .. GroupCnt : S!SetGroup(u, g)
                                      \/ \E m \in Modes : S!SetMode(u, m)
                  \/ \E c \in Contents : S!Upload(c)
                  \/ S!Tick
               /\ UNCHANGED <<switches, pass, due>>

Server == S!Server /\ UNCHANGED <<switches, pass, due>>

Restart == /\ S!Restart
           /\ GroupRestart
           /\ stage' = "stop" /\ halted' = 0 /\ loops' = 0
           /\ due' = [u \in Units |-> Nothing]
           /\ UNCHANGED stop

-----------------------------------------------------------------------------
Pass == StopMode \/ Halt \/ Halted \/ LookAtSwitch \/ NextLoop \/ GroupsDone \/ CheckSchedule
Users == \/ \E w \in Touched : SetUnit(w[1], w[2])
         \/ \E v \in {0, 1} : SetStop(v)
         \/ \E c \in Commands : SetSwitch(c[1], c[2])

Next == Pass \/ Server \/ Users \/ SetSchedule \/ Restart

\* The thread runs, and the server finishes what it writes.
FairSpec == Init /\ [][Next]_vars /\ WF_vars(Pass) /\ WF_vars(Server)

-----------------------------------------------------------------------------
\* The switches, their copies and the stages of a pass have their types.
TypeOK == /\ GroupTypeOK
          /\ stop \in {0, 1}
          /\ stage \in {"stop", "halt", "groups", "schedule"}
          /\ halted \in 0 .. UnitCnt
          /\ loops \in 0 .. MaxLoops
          /\ due \in [Units -> 0 .. 2]

(* Stop mode wins: whatever schedules, groups and users do, every unit is  *)
(* off again and again, until the mode is ended.                           *)
StopReaches == \A u \in Units : []<>(stop = 0 \/ onoff[u] = 0)

(* A command to a group reaches its units, through the building, the floor *)
(* and the section: unless it is taken back, or somebody else switches the *)
(* unit, a unit of a section that was switched the other way gets it.      *)
GroupReaches == []<>(\A u \in Units : due[u] \in {Nothing, onoff[u]})
=============================================================================
