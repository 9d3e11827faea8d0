------------------------- MODULE GhpScheduleProofs -------------------------
(***************************************************************************)
(* The schedules of a building with any number of units and groups, any    *)
(* schedules and any users: what a unit's three bytes remember of it, that *)
(* a half-written schedule is never used, and how long a unit runs outside *)
(* its schedule.                                                           *)
(***************************************************************************)
EXTENDS GhpSchedule, TLAPS

\* The assumption on the constants, one fact at a time.
LEMMA Constants ==
    /\ UnitCnt \in Nat \ {0} /\ DayLen \in Nat \ {0} /\ HourLen \in Nat \ {0}
    /\ DayCnt \in Nat \ {0} /\ Wrap \in Nat \ {0} /\ MaxSkip \in Nat \ {0}
    /\ GroupCnt \in Nat /\ DefaultLimit \in Nat /\ MaxEvents \in Nat
    /\ MaxSkip < HourLen
    /\ FORCE \in Modes /\ FREE \in Modes /\ STOP \in Modes
    /\ Modes \subseteq Nat
    /\ Contents \subseteq Schedules /\ Saved \in Schedules
    /\ Grouped \in [Units -> 0 .. GroupCnt]
    /\ Clocks \subseteq Hours \X Minutes \X Days
  BY ScheduleAssumption

\* A remainder is below its divisor, and a smaller number is its own remainder.
LEMMA Remainder == ASSUME NEW a \in Nat, NEW d \in Nat \ {0}
                   PROVE  a % d \in 0 .. d - 1 /\ (a < d => a % d = a)
  OBVIOUS

\* The group of a unit and its mode are valid, whatever was written.
LEMMA Valid == ASSUME TypeOK, NEW u \in Units
               PROVE  GroupOf(u) \in 0 .. GroupCnt /\ ModeOf(u) \in {FORCE, FREE, STOP}
  BY Constants DEF GroupOf, ModeOf, HAKSA, TypeOK

\* The files that can be read whole have a limit and a mode for every group.
LEMMA SchedulesOK == ASSUME NEW s \in Contents \cup {Saved, Zero}, NEW g \in Groups
                     PROVE  s.mode[g] \in Modes
  <1>1. CASE s = Zero
    BY <1>1, Constants DEF Zero, FORCE
  <1>2. CASE s \in Schedules
    BY <1>2 DEF Schedules
  <1> QED BY <1>1, <1>2, Constants

LEMMA FileOK == ASSUME TypeOK, file.kind = "full"
                PROVE  file \in Contents \cup {Saved} /\ file.limit \in Nat
  <1>1. file \in Contents \cup {Saved}
    BY DEF TypeOK, Missing, Short
  <1>2. file \in Schedules
    BY <1>1, Constants
  <1> QED BY <1>1, <1>2 DEF Schedules

(* Every look at a unit is one of these: what it finds, and what it leaves *)
(* in the switch and in the three bytes.                                   *)
LEMMA LookForm ==
    ASSUME TypeOK, NEW u \in Units, LookAt(u)
    PROVE  \E m \in {FORCE, FREE, STOP}, in \in BOOLEAN, on \in {0, 1}, t \in 0 .. 2,
              c \in 0 .. Wrap - 1, mi \in Minutes : Look(u, m, in) /\ Put(u, on, t, c, mi)
  <1>1. /\ onoff[u] \in {0, 1} /\ touch[u] \in 0 .. 2 /\ count[u] \in 0 .. Wrap - 1
        /\ minute[u] \in Minutes /\ min \in Minutes /\ 0 \in Minutes /\ 0 \in 0 .. Wrap - 1
    BY Constants DEF Minutes, TypeOK
  <1>2. Counted(u) \in 0 .. Wrap - 1
    <2>1. count[u] + 1 \in Nat
      BY <1>1
    <2>2. (count[u] + 1) % Wrap \in 0 .. Wrap - 1
      BY <2>1, Constants, Remainder
    <2> QED BY <1>1, <2>2 DEF Counted
  <1>0. 0 \in 0 .. 2 /\ 1 \in 0 .. 2 /\ 2 \in 0 .. 2
    OBVIOUS
  <1> DEFINE Left(t) == \E on \in {0, 1}, c \in 0 .. Wrap - 1, mi \in Minutes : Put(u, on, t, c, mi)
             Form(m, in, t) == Look(u, m, in) /\ Left(t)
  <1>3. ASSUME NEW t \in 0 .. 2, Limited(u, t) PROVE Left(t)
    BY <1>1, <1>2, <1>3 DEF Limited, Keep
  <1>4. CASE ForceStart(u)
    <2>1. Put(u, 1, 1, count[u], minute[u]) /\ Look(u, FORCE, TRUE)
      BY <1>4 DEF ForceStart
    <2>2. Form(FORCE, TRUE, 1)
      BY <1>1, <2>1
    <2> QED BY <1>0, <2>2
  <1>5. CASE ForceInside(u)
    <2>1. Put(u, onoff[u], touch[u], count[u], minute[u]) /\ Look(u, FORCE, TRUE)
      BY <1>5 DEF ForceInside, Keep
    <2>2. Form(FORCE, TRUE, touch[u])
      BY <1>1, <2>1
    <2> QED BY <1>1, <2>2
  <1>6. CASE ForceEnd(u)
    <2>1. Put(u, 0, 2, 0, 0) /\ Look(u, FORCE, FALSE)
      BY <1>6 DEF ForceEnd
    <2>2. Form(FORCE, FALSE, 2)
      BY <1>1, <2>1
    <2> QED BY <1>0, <2>2
  <1>7. CASE ForceOutside(u)
    <2>1. Form(FORCE, FALSE, 0)
      BY <1>0, <1>3, <1>7 DEF ForceOutside
    <2> QED BY <1>0, <2>1
  <1>8. CASE FreeInside(u)
    <2>1. Put(u, onoff[u], 0, 0, 0) /\ Look(u, FREE, TRUE)
      BY <1>8 DEF FreeInside
    <2>2. Form(FREE, TRUE, 0)
      BY <1>1, <2>1
    <2> QED BY <1>0, <2>2
  <1>9. CASE FreeEnd(u)
    <2>1. Put(u, 0, 1, count[u], minute[u]) /\ Look(u, FREE, FALSE)
      BY <1>9 DEF FreeEnd
    <2>2. Form(FREE, FALSE, 1)
      BY <1>1, <2>1
    <2> QED BY <1>0, <2>2
  <1>10. CASE FreeOutside(u)
    <2>1. Form(FREE, FALSE, touch[u])
      BY <1>1, <1>3, <1>10 DEF FreeOutside
    <2> QED BY <1>1, <2>1
  <1>11. CASE Stopped(u)
    <2>1. PICK in \in BOOLEAN : Put(u, 0, touch[u], count[u], minute[u]) /\ Look(u, STOP, in)
      BY <1>11 DEF Stopped
    <2>2. Form(STOP, in, touch[u])
      BY <1>1, <2>1
    <2> QED BY <1>1, <2>2
  <1> QED BY <1>4, <1>5, <1>6, <1>7, <1>8, <1>9, <1>10, <1>11 DEF LookAt

-----------------------------------------------------------------------------
LEMMA InitType == Init => TypeOK
  <1> SUFFICES ASSUME Init PROVE TypeOK
    OBVIOUS
  <1>1. 0 \in Units /\ 0 \in Hours /\ 0 \in Minutes /\ 0 \in Days /\ 0 \in 0 .. Wrap - 1
    BY Constants DEF Units, Hours, Minutes, Days
  <1>2. /\ onoff \in [Units -> {0, 1}] /\ group \in [Units -> 0 .. GroupCnt + 1]
        /\ seen \in [Units -> 0 .. GroupCnt] /\ mode \in [Units -> Modes]
    BY Constants DEF Init, HAKSA
  <1>3. /\ touch \in [Units -> 0 .. 2] /\ count \in [Units -> 0 .. Wrap - 1]
        /\ minute \in [Units -> Minutes]
    BY <1>1 DEF Init
  <1>4. /\ since \in [Units -> 0 .. MaxSkip] /\ over \in [Units -> Nat]
        /\ past \in [Units -> Looks] /\ events \in 0 .. MaxEvents
    BY Constants DEF Init, Looks
  <1>5. hour \in Hours /\ min \in Minutes /\ day \in Days /\ turn \in Units
           /\ my \in [time : Nat, day : Days]
    BY <1>1 DEF Init, NoTime
  <1>6. /\ file \in Contents \cup {Saved, Missing, Short} /\ sent \in Contents \cup {Missing}
        /\ svr \in {"idle", "writing", "date"} /\ data \in Contents \cup {Saved, Zero}
        /\ limit \in Nat /\ at \in {"rest", "file", "units"}
        /\ known \in BOOLEAN /\ torn \in BOOLEAN
    BY DEF Init
  <1> QED BY <1>2, <1>3, <1>4, <1>5, <1>6 DEF TypeOK

LEMMA LookType == ASSUME TypeOK, NEW u \in Units, LookAt(u) PROVE TypeOK'
  <1>1. PICK m \in {FORCE, FREE, STOP}, in \in BOOLEAN, on \in {0, 1}, t \in 0 .. 2,
             c \in 0 .. Wrap - 1, mi \in Minutes : Look(u, m, in) /\ Put(u, on, t, c, mi)
    BY LookForm
  <1> USE DEF TypeOK
  <1>2. /\ onoff' \in [Units -> {0, 1}] /\ touch' \in [Units -> 0 .. 2]
        /\ count' \in [Units -> 0 .. Wrap - 1] /\ minute' \in [Units -> Minutes]
    BY <1>1 DEF Put
  <1>3. /\ group' \in [Units -> 0 .. GroupCnt + 1] /\ seen' \in [Units -> 0 .. GroupCnt]
        /\ mode' \in [Units -> Modes]
    BY <1>1, Valid, Constants DEF Look
  <1>4. turn' \in Units /\ at' \in {"rest", "file", "units"} /\ my' \in [time : Nat, day : Days]
    BY <1>1, Constants DEF Look, Units, NoTime, Days
  <1>5. since' \in [Units -> 0 .. MaxSkip] /\ over' \in [Units -> Nat]
    BY <1>1, Constants DEF Look
  <1>6. past' \in [Units -> Looks]
    BY <1>1 DEF Look, Looks
  <1> QED BY <1>1, <1>2, <1>3, <1>4, <1>5, <1>6 DEF Look, server, clock

LEMMA ReadType == ASSUME TypeOK, ReadMissing \/ ReadShort \/ ReadFull PROVE TypeOK'
  <1> USE DEF TypeOK
  <1>1. ASSUME NEW new \in Contents \cup {Saved, Zero}, NEW lim \in Nat, Read(new, lim),
               known' \in BOOLEAN
        PROVE  TypeOK'
    <2>1. mode' \in [Units -> Modes]
      BY <1>1, SchedulesOK DEF Read, GroupModes, Groups, HAKSA
    <2> QED BY <1>1, <2>1 DEF Read, server, units, clock
  <1>2. CASE ReadMissing
    BY <1>1, <1>2 DEF ReadMissing
  <1>3. CASE ReadShort
    BY <1>1, <1>3 DEF ReadShort
  <1>4. CASE ReadFull
    BY <1>1, <1>4, FileOK, Constants DEF ReadFull
  <1> QED BY <1>2, <1>3, <1>4

LEMMA StartType == ASSUME TypeOK, StartPass PROVE TypeOK'
  <1>1. 0 \in Units /\ my' \in [time : Nat, day : Days]
    BY Constants DEF TypeOK, StartPass, Units, Hours, Minutes
  <1> QED BY <1>1 DEF TypeOK, StartPass, table, server, units, clock, history

LEMMA TickType == ASSUME TypeOK, Tick PROVE TypeOK'
  <1> USE DEF TypeOK
  <1>1. min' \in Minutes /\ hour' \in Hours /\ day' \in Days
    <2>1. hour + 1 \in Nat /\ min + 1 \in Nat /\ day + 1 \in Nat
      BY DEF Hours, Minutes, Days
    <2>2. (hour + 1) % DayLen \in Hours /\ (min + 1) % HourLen \in Minutes
             /\ (day + 1) % DayCnt \in Days
      BY <2>1, Constants, Remainder DEF Hours, Minutes, Days
    <2> QED BY <2>2 DEF Tick
  <1>2. since' \in [Units -> 0 .. MaxSkip] /\ over' \in [Units -> Nat]
    BY Constants DEF Tick
  <1> QED BY <1>1, <1>2 DEF Tick, table, server, units, thread, history

LEMMA RestartType == ASSUME TypeOK, Restart PROVE TypeOK'
  <1>1. 0 \in Units /\ 0 \in Minutes /\ 0 \in 0 .. Wrap - 1
           /\ NoTime \in [time : Nat, day : Days]
    BY Constants DEF Units, Minutes, Days, NoTime
  <1>2. seen' \in [Units -> 0 .. GroupCnt]
    BY Constants DEF Restart, HAKSA
  <1>3. /\ touch' \in [Units -> 0 .. 2] /\ count' \in [Units -> 0 .. Wrap - 1]
        /\ minute' \in [Units -> Minutes]
    BY <1>1 DEF Restart
  <1>4. /\ since' \in [Units -> 0 .. MaxSkip] /\ over' \in [Units -> Nat]
        /\ past' \in [Units -> Looks]
    BY Constants DEF Restart, Looks
  <1>5. /\ sent' \in Contents \cup {Missing} /\ svr' \in {"idle", "writing", "date"}
        /\ data' \in Contents \cup {Saved, Zero} /\ limit' \in Nat
        /\ at' \in {"rest", "file", "units"} /\ turn' \in Units
        /\ my' \in [time : Nat, day : Days] /\ known' \in BOOLEAN
    BY <1>1 DEF Restart
  <1>6. torn' \in BOOLEAN /\ events' \in 0 .. MaxEvents
    <2>1. torn' \in BOOLEAN
      BY Zenon DEF Restart, TypeOK
    <2>2. events' \in 0 .. MaxEvents
      BY Constants DEF Restart, Event, TypeOK
    <2> QED BY <2>1, <2>2
  <1> QED BY <1>2, <1>3, <1>4, <1>5, <1>6 DEF TypeOK, Restart, table, clock

LEMMA ServerType == ASSUME TypeOK, Server PROVE TypeOK'
  <1>1. CASE Written
    BY <1>1 DEF TypeOK, Written, table, units, clock, thread, history
  <1>2. ASSUME NEW c \in Clocks, SetDate(c) PROVE TypeOK'
    <2>1. c[1] \in Hours /\ c[2] \in Minutes /\ c[3] \in Days
      BY Constants
    <2> QED BY <1>2, <2>1 DEF TypeOK, SetDate, table, units, thread, history
  <1> QED BY <1>1, <1>2 DEF Server

LEMMA UsersType == ASSUME TypeOK, Users PROVE TypeOK'
  <1> USE Constants DEF TypeOK
  <1>1. ASSUME NEW new \in [Units -> {0, 1}], Others(new) PROVE TypeOK'
    BY <1>1 DEF Others, server, units, clock, thread, history
  <1>2. ASSUME NEW u \in Units, NEW g \in 0 .. GroupCnt + 1, SetGroup(u, g) PROVE TypeOK'
    BY <1>2 DEF SetGroup, Event, server, units, clock, thread, history
  <1>3. ASSUME NEW u \in Units, NEW m \in Modes, SetMode(u, m) PROVE TypeOK'
    BY <1>3 DEF SetMode, Event, server, units, clock, thread, history
  <1>4. ASSUME NEW c \in Contents, Upload(c) PROVE TypeOK'
    BY <1>4 DEF Upload, Event, table, units, clock, thread, history
  <1>5. ASSUME UploadFails PROVE TypeOK'
    BY <1>5 DEF UploadFails, Event, table, units, clock, thread, history
  <1> QED BY <1>1, <1>2, <1>3, <1>4, <1>5 DEF Users

LEMMA NextType == TypeOK /\ [Next]_vars => TypeOK'
  <1> SUFFICES ASSUME TypeOK, [Next]_vars PROVE TypeOK'
    OBVIOUS
  <1>1. CASE UNCHANGED vars
    BY <1>1 DEF vars, TypeOK
  <1> QED BY <1>1, LookType, ReadType, StartType, TickType, RestartType, ServerType, UsersType
          DEF Next, Thread

(* The switches, the bytes of every unit, the schedule and the clock have  *)
(* their types, for any number of units, groups and days.                  *)
THEOREM TypeCorrect == Spec => []TypeOK
  BY InitType, NextType, PTL DEF Spec

-----------------------------------------------------------------------------
(* What the byte chkTouch of a unit says about the last looks at it.       *)
Remembered(u) == /\ past[u] = "out" => touch[u] = 0
                 /\ past[u] = "gap" => touch[u] # 1
                 /\ past[u] = "in" => touch[u] # 0
PastInv == TypeOK /\ \A u \in Units : Remembered(u)

\* A look remembers what it found, and keeps what a user did in an interval.
LEMMA LookPast ==
    ASSUME PastInv, NEW u \in Units, LookAt(u)
    PROVE  /\ Remembered(u)'
           /\ past[u] = "out" /\ past'[u] = "in" => onoff'[u] = 1
           /\ past[u] = "in" /\ past'[u] = "in" => onoff'[u] = onoff[u]
  <1>1. Remembered(u) /\ TypeOK
    BY DEF PastInv
  <1>2. ASSUME NEW m, NEW in, Look(u, m, in)
        PROVE  past'[u] = (IF m # FORCE THEN "new" ELSE IF in THEN "in"
                           ELSE IF past[u] \in {"gap", "out"} THEN "out" ELSE "gap")
    BY <1>1, <1>2 DEF TypeOK, Look
  <1>3. ASSUME NEW on, NEW t, NEW c, NEW mi, Put(u, on, t, c, mi)
        PROVE  touch'[u] = t /\ onoff'[u] = on
    BY <1>1, <1>3 DEF TypeOK, Put
  <1>4. CASE ForceStart(u)
    <2>1. touch'[u] = 1 /\ onoff'[u] = 1 /\ touch[u] = 0 /\ past'[u] = "in"
      BY <1>2, <1>3, <1>4 DEF ForceStart
    <2> QED BY <1>1, <2>1 DEF Remembered
  <1>5. CASE ForceInside(u)
    <2>1. touch'[u] = touch[u] /\ onoff'[u] = onoff[u] /\ touch[u] # 0 /\ past'[u] = "in"
      BY <1>2, <1>3, <1>5 DEF ForceInside, Keep
    <2> QED BY <1>1, <2>1 DEF Remembered
  <1>6. CASE ForceEnd(u)
    <2>1. touch'[u] = 2 /\ touch[u] = 1
      BY <1>3, <1>6 DEF ForceEnd
    <2>2. past[u] \notin {"gap", "out"}
      BY <1>1, <2>1 DEF Remembered
    <2>3. past'[u] = "gap"
      BY <1>2, <1>6, <2>2 DEF ForceEnd
    <2> QED BY <2>1, <2>3 DEF Remembered
  <1>7. CASE ForceOutside(u)
    <2>1. touch'[u] = 0
      BY <1>3, <1>7 DEF ForceOutside, Limited, Keep
    <2>2. past'[u] \in {"gap", "out"}
      BY <1>2, <1>7 DEF ForceOutside
    <2> QED BY <2>1, <2>2 DEF Remembered
  <1>8. CASE FreeInside(u) \/ FreeEnd(u) \/ FreeOutside(u) \/ Stopped(u)
    <2>1. FREE # FORCE /\ STOP # FORCE
      BY DEF FORCE, FREE, STOP
    <2>2. \E in : Look(u, FREE, in) \/ Look(u, STOP, in)
      BY <1>8 DEF FreeInside, FreeEnd, FreeOutside, Stopped
    <2>3. past'[u] = "new"
      BY <1>2, <2>1, <2>2
    <2> QED BY <2>3 DEF Remembered
  <1> QED BY <1>4, <1>5, <1>6, <1>7, <1>8 DEF LookAt

\* It leaves the other units alone.
LEMMA LookOthers ==
    ASSUME TypeOK, NEW u \in Units, LookAt(u), NEW w \in Units, w # u
    PROVE  /\ past'[w] = past[w] /\ touch'[w] = touch[w] /\ onoff'[w] = onoff[w]
           /\ count'[w] = count[w] /\ minute'[w] = minute[w]
           /\ since'[w] = since[w] /\ over'[w] = over[w]
  <1>1. PICK m \in {FORCE, FREE, STOP}, in \in BOOLEAN, on \in {0, 1}, t \in 0 .. 2,
             c \in 0 .. Wrap - 1, mi \in Minutes : Look(u, m, in) /\ Put(u, on, t, c, mi)
    BY LookForm
  <1> QED BY <1>1 DEF Look, Put, TypeOK

\* Every step that is no look leaves the two as they are, or starts anew.
LEMMA OtherPast ==
    ASSUME [Next]_vars, ~\E u \in Units : LookAt(u)
    PROVE  \/ past' = past /\ touch' = touch
           \/ past' = [u \in Units |-> "new"]
  <1>1. CASE StartPass \/ Tick
    BY <1>1 DEF StartPass, Tick, units, history
  <1>2. CASE ReadMissing \/ ReadShort \/ ReadFull
    BY <1>2 DEF ReadMissing, ReadShort, ReadFull, Read, units
  <1>3. CASE Server
    BY <1>3 DEF Server, Written, SetDate, units, history
  <1>4. CASE Users
    BY <1>4 DEF Users, Others, SetGroup, SetMode, Upload, UploadFails, units, history
  <1>5. CASE Restart
    BY <1>5 DEF Restart
  <1>6. CASE UNCHANGED vars
    BY <1>6 DEF vars
  <1> QED BY <1>1, <1>2, <1>3, <1>4, <1>5, <1>6 DEF Next, Thread

LEMMA PastStep == PastInv /\ [Next]_vars => PastInv'
  <1> SUFFICES ASSUME PastInv, [Next]_vars PROVE PastInv'
    OBVIOUS
  <1>1. TypeOK /\ TypeOK'
    BY NextType DEF PastInv
  <1>2. CASE \E u \in Units : LookAt(u)
    <2>1. PICK u \in Units : LookAt(u)
      BY <1>2
    <2>2. Remembered(u)'
      BY <2>1, LookPast
    <2>3. \A w \in Units \ {u} : Remembered(w)'
      BY <1>1, <2>1, LookOthers DEF Remembered, PastInv
    <2> QED BY <1>1, <2>2, <2>3 DEF PastInv
  <1>3. CASE ~\E u \in Units : LookAt(u)
    BY <1>1, <1>3, OtherPast DEF PastInv, Remembered
  <1> QED BY <1>2, <1>3

\* What a unit's byte remembers of the last looks at it is always true.
THEOREM PastInvariant == Spec => []PastInv
  <1>1. Init => PastInv
    BY InitType DEF Init, PastInv, Remembered
  <1> QED BY <1>1, PastStep, PTL DEF Spec

(* In force mode a unit that two looks in a row found outside its schedule *)
(* is switched on by the look that finds it inside, whatever users did.    *)
THEOREM Starts == Spec => EachStart
  <1>1. PastInv /\ [Next]_vars
           => [\A u \in Units : past[u] = "out" /\ past'[u] = "in" => onoff'[u] = 1]_vars
    <2> SUFFICES ASSUME PastInv, [Next]_vars, NEW u \in Units, past[u] = "out", past'[u] = "in"
                 PROVE  onoff'[u] = 1
      OBVIOUS
    <2>1. CASE \E w \in Units : LookAt(w)
      <3>1. PICK w \in Units : LookAt(w)
        BY <2>1
      <3>2. w = u
        BY <3>1, LookOthers DEF PastInv
      <3> QED BY <3>1, <3>2, LookPast
    <2>2. CASE ~\E w \in Units : LookAt(w)
      BY <2>2, OtherPast
    <2> QED BY <2>1, <2>2
  <1> QED BY <1>1, PastInvariant, PTL DEF Spec, EachStart

(* Inside the interval that look has begun the switch is left to the users *)
(* and the program does not switch it on a second time.                    *)
THEOREM Kept == Spec => UserKept
  <1>1. PastInv /\ [Next]_vars
           => [\A u \in Units : LooksAt(u) /\ past[u] = "in" /\ past'[u] = "in"
                                   => onoff'[u] = onoff[u]]_vars
    <2> SUFFICES ASSUME PastInv, [Next]_vars, NEW u \in Units, LooksAt(u),
                        past[u] = "in", past'[u] = "in"
                 PROVE  onoff'[u] = onoff[u]
      OBVIOUS
    <2>1. CASE \E w \in Units : LookAt(w)
      <3>1. PICK w \in Units : LookAt(w)
        BY <2>1
      <3>2. w = u
        BY <3>1, LookForm DEF PastInv, LooksAt, Look
      <3> QED BY <3>1, <3>2, LookPast
    <2>2. CASE ~\E w \in Units : LookAt(w)
      <3>1. CASE Restart
        BY <3>1 DEF Restart
      <3>2. CASE ~Restart
        <4>1. ~(StartPass \/ ReadMissing \/ ReadShort \/ ReadFull)
          BY DEF LooksAt, StartPass, ReadMissing, ReadShort, ReadFull, Read
        <4>2. Server \/ Users \/ Tick \/ UNCHANGED vars
          BY <2>2, <3>2, <4>1 DEF Next, Thread
        <4>3. UNCHANGED <<at, turn>>
          BY <4>2 DEF Server, Written, SetDate, Users, Others, SetGroup, SetMode, Upload,
                      UploadFails, Tick, thread, vars
        <4> QED BY <4>3 DEF LooksAt
      <3> QED BY <3>1, <3>2
    <2> QED BY <2>1, <2>2
  <1> QED BY <1>1, PastInvariant, PTL DEF Spec, UserKept

-----------------------------------------------------------------------------
(* The file is short only while the server writes it, or since a stop of   *)
(* the program: what was read whole stays whole until then.                *)
FileInv == /\ TypeOK
           /\ file.kind = "short" => svr = "writing" \/ torn
           /\ known => data.kind # "zero" \/ torn

\* Neither a schedule that is sent nor a missing file is a short one.
LEMMA Kinds == /\ \A c \in Contents \cup {Saved} : c.kind = "full"
               /\ Missing.kind = "missing" /\ Short.kind = "short" /\ Zero.kind = "zero"
  BY Constants DEF Schedules, Missing, Short, Zero

LEMMA FileStep == FileInv /\ [Next]_vars => FileInv'
  <1> SUFFICES ASSUME FileInv, [Next]_vars PROVE FileInv'
    OBVIOUS
  <1>1. TypeOK /\ TypeOK'
    BY NextType DEF FileInv
  <1>2. CASE \E u \in Units : LookAt(u)
    <2>1. UNCHANGED <<file, svr, data, known, torn>>
      BY <1>1, <1>2, LookForm DEF Look, server
    <2> QED BY <1>1, <2>1 DEF FileInv
  <1>3. CASE ReadMissing
    BY <1>1, <1>3 DEF FileInv, ReadMissing, Read, server
  <1>4. CASE ReadShort
    <2>1. torn /\ UNCHANGED <<file, svr, torn>>
      BY <1>4 DEF FileInv, ReadShort, Read, Unlocked, server
    <2> QED BY <1>1, <2>1 DEF FileInv
  <1>5. CASE ReadFull
    <2>1. data' = file /\ UNCHANGED <<file, svr, torn>>
      BY <1>5 DEF ReadFull, Read, server
    <2>2. file.kind = "full"
      BY <1>5 DEF ReadFull
    <2> QED BY <1>1, <2>1, <2>2 DEF FileInv
  <1>6. CASE StartPass \/ Tick \/ UNCHANGED vars
    BY <1>1, <1>6 DEF FileInv, StartPass, Tick, server, history, vars
  <1>7. CASE Server
    <2>1. CASE Written
      <3>1. file' = sent /\ sent.kind # "short" /\ UNCHANGED <<data, known, torn>>
        BY <1>1, <2>1, Kinds DEF Written, TypeOK, history
      <3> QED BY <1>1, <3>1 DEF FileInv
    <2>2. CASE \E c \in Clocks : SetDate(c)
      <3>1. svr = "date" /\ UNCHANGED <<file, data, known, torn>>
        BY <2>2 DEF SetDate, history
      <3> QED BY <1>1, <3>1 DEF FileInv
    <2> QED BY <1>7, <2>1, <2>2 DEF Server
  <1>8. CASE Users
    <2>1. /\ UNCHANGED <<data, known, torn>>
          /\ \/ UNCHANGED <<file, svr>>
             \/ svr' = "writing"
             \/ svr = "idle" /\ svr' = "date" /\ file' = file
      BY <1>8 DEF Users, Others, SetGroup, SetMode, Upload, UploadFails, server, history
    <2> QED BY <1>1, <2>1 DEF FileInv
  <1>9. CASE Restart
    <2>1. /\ file' = file /\ known' = FALSE
          /\ torn' = (torn \/ svr = "writing")
      BY <1>9 DEF Restart
    <2> QED BY <1>1, <2>1 DEF FileInv
  <1> QED BY <1>2, <1>3, <1>4, <1>5, <1>6, <1>7, <1>8, <1>9 DEF Next, Thread

(* Once a schedule was read the thread has a whole one, unless the program *)
(* was stopped while the server wrote the file.                            *)
THEOREM WholeData == Spec => []Whole
  <1>1. Init => FileInv
    <2> SUFFICES ASSUME Init PROVE FileInv
      OBVIOUS
    <2>1. file.kind # "short" /\ ~known
      BY Kinds DEF Init
    <2> QED BY <2>1, InitType DEF FileInv
  <1>2. FileInv => Whole
    BY DEF FileInv, Whole
  <1> QED BY <1>1, <1>2, FileStep, PTL DEF Spec

-----------------------------------------------------------------------------
\* No limit the thread may have read is above b minutes, nor minCount's range.
Bounds == {b \in 0 .. Wrap - 2 : \A l \in Limits : LimitTime(l) <= b}

(* The minutes a unit runs outside its schedule are those counted, of      *)
(* MaxSkip minutes each, one look more and the time since the last one:    *)
(* every look counts, as no look comes a whole hour after the one before.  *)
Counts(u) == /\ over[u] <= since[u] + MaxSkip * (count[u] + 1)
             /\ over[u] > since[u] => minute[u] + since[u] \in {min, min + HourLen}
RunInv == /\ TypeOK
          /\ limit \in Limits
          /\ \A b \in Bounds, u \in Units : Counts(u) /\ count[u] <= b

LEMMA LimitsOK == /\ Limits \subseteq Nat
                  /\ \A l \in Nat : LimitTime(l) \in Nat
  <1>1. Limits \subseteq Nat
    BY Constants DEF Limits, Schedules
  <1>2. ASSUME NEW l \in Nat PROVE LimitTime(l) \in Nat
    BY DEF LimitTime
  <1> QED BY <1>1, <1>2

LEMMA OneMore == ASSUME NEW c \in Nat
                 PROVE  /\ MaxSkip * (c + 1) \in Nat /\ MaxSkip * (c + 2) \in Nat
                        /\ MaxSkip * (c + 2) = MaxSkip * (c + 1) + MaxSkip
                        /\ MaxSkip * (c + 1) >= MaxSkip
  <1>1. MaxSkip * (c + 2) = MaxSkip * (c + 1) + MaxSkip
    BY Constants
  <1>2. MaxSkip * (c + 1) = MaxSkip * c + MaxSkip /\ MaxSkip * c \in Nat
    BY Constants
  <1> QED BY <1>1, <1>2, Constants

\* A unit that does not run outside its schedule has nothing to count.
LEMMA NothingCounted == ASSUME NEW u \in Units, TypeOK', over'[u] = 0
                        PROVE  Counts(u)'
  <1>1. since'[u] \in Nat /\ count'[u] \in Nat
    BY DEF TypeOK
  <1>2. MaxSkip * (count'[u] + 1) \in Nat
    BY <1>1, OneMore
  <1> QED BY <1>1, <1>2 DEF Counts

LEMMA LookCounts ==
    ASSUME RunInv, NEW b \in Bounds, NEW u \in Units, LookAt(u)
    PROVE  Counts(u)' /\ count'[u] <= b
  <1>1. TypeOK /\ TypeOK' /\ Counts(u) /\ count[u] <= b /\ limit \in Limits
    BY LookType DEF RunInv
  <1>2. /\ onoff[u] \in {0, 1} /\ count[u] \in Nat /\ since[u] \in Nat /\ since[u] <= MaxSkip
        /\ over[u] \in Nat /\ minute[u] \in Nat /\ minute[u] < HourLen
        /\ min \in Nat /\ min < HourLen
    BY <1>1, Constants DEF TypeOK, Minutes
  <1>3. b \in Nat /\ b + 1 < Wrap /\ LimitTime(limit) \in Nat /\ LimitTime(limit) <= b
    BY <1>1, Constants, LimitsOK DEF Bounds
  <1>4. ASSUME NEW m, NEW in, Look(u, m, in)
        PROVE  /\ over'[u] = (IF in \/ onoff'[u] = 0 THEN 0 ELSE over[u])
               /\ since'[u] = 0 /\ min' = min
    BY <1>1, <1>4 DEF Look, TypeOK, clock
  <1>5. ASSUME NEW on, NEW t, NEW c, NEW mi, Put(u, on, t, c, mi)
        PROVE  onoff'[u] = on /\ count'[u] = c /\ minute'[u] = mi
    BY <1>1, <1>5 DEF Put, TypeOK
  <1>6. ASSUME over'[u] = 0, count'[u] \in {0, count[u]}
        PROVE  Counts(u)' /\ count'[u] <= b
    BY <1>1, <1>3, <1>6, NothingCounted
  <1>7. ASSUME NEW m, NEW t, Limited(u, t), Look(u, m, FALSE)
        PROVE  Counts(u)' /\ count'[u] <= b
    <2>1. CASE onoff'[u] = 0
      <3>1. over'[u] = 0
        BY <1>4, <1>7, <2>1
      <3>2. count'[u] \in {0, count[u]}
        BY <1>2, <1>5, <1>7, <2>1 DEF Limited, Keep
      <3> QED BY <1>6, <3>1, <3>2
    <2>2. CASE onoff'[u] # 0
      <3>1. /\ count'[u] = Counted(u) /\ minute'[u] = min
            /\ ~(Counted(u) > LimitTime(limit))
        BY <1>2, <1>5, <1>7, <2>2 DEF Limited, Keep
      <3>2. over'[u] = over[u] /\ since'[u] = 0 /\ min' = min
        BY <1>4, <1>7, <2>2
      <3>3. (count[u] + 1) % Wrap = count[u] + 1
        <4>1. count[u] + 1 \in Nat /\ count[u] + 1 < Wrap
          BY <1>1, <1>2, <1>3, Constants
        <4> QED BY <4>1, Constants, Remainder
      <3>4. count'[u] = (IF min # minute[u] THEN count[u] + 1 ELSE count[u])
        BY <3>1, <3>3 DEF Counted
      <3>5. count'[u] <= b
        BY <1>2, <1>3, <3>1, <3>4
      <3>6. over[u] <= MaxSkip * (count'[u] + 1)
        <4>1. CASE min # minute[u]
          <5>1. over[u] <= MaxSkip * (count[u] + 1) + MaxSkip
            BY <1>1, <1>2, Constants, OneMore DEF Counts
          <5>2. MaxSkip * (count'[u] + 1) = MaxSkip * (count[u] + 2)
            BY <1>2, <3>4, <4>1
          <5>3. MaxSkip * (count[u] + 2) = MaxSkip * (count[u] + 1) + MaxSkip
            BY <1>2, OneMore
          <5> QED BY <5>1, <5>2, <5>3
        <4>2. CASE min = minute[u]
          <5>1. over[u] <= since[u] \/ since[u] = 0
            BY <1>1, <1>2, <4>2, Constants DEF Counts
          <5>2. over[u] <= MaxSkip * (count[u] + 1)
            BY <1>1, <1>2, <5>1, Constants, OneMore DEF Counts
          <5> QED BY <3>4, <4>2, <5>2
        <4> QED BY <4>1, <4>2
      <3>7. MaxSkip * (count'[u] + 1) \in Nat
        BY <1>2, <3>4, OneMore
      <3>8. Counts(u)'
        BY <1>2, <3>1, <3>2, <3>6, <3>7 DEF Counts
      <3> QED BY <3>5, <3>8
    <2> QED BY <2>1, <2>2
  <1>8. CASE ForceStart(u)
    <2>1. over'[u] = 0 /\ count'[u] = count[u]
      BY <1>4, <1>5, <1>8 DEF ForceStart
    <2> QED BY <1>6, <2>1
  <1>9. CASE ForceInside(u)
    <2>1. over'[u] = 0 /\ count'[u] = count[u]
      BY <1>4, <1>5, <1>9 DEF ForceInside, Keep
    <2> QED BY <1>6, <2>1
  <1>10. CASE ForceEnd(u)
    <2>1. over'[u] = 0 /\ count'[u] = 0
      BY <1>4, <1>5, <1>10 DEF ForceEnd
    <2> QED BY <1>6, <2>1
  <1>11. CASE ForceOutside(u)
    BY <1>7, <1>11 DEF ForceOutside
  <1>12. CASE FreeInside(u)
    <2>1. over'[u] = 0 /\ count'[u] = 0
      BY <1>4, <1>5, <1>12 DEF FreeInside
    <2> QED BY <1>6, <2>1
  <1>13. CASE FreeEnd(u)
    <2>1. Put(u, 0, 1, count[u], minute[u]) /\ Look(u, FREE, FALSE)
      BY <1>13 DEF FreeEnd
    <2>2. onoff'[u] = 0 /\ count'[u] = count[u]
      BY <1>5, <2>1
    <2>3. over'[u] = 0 /\ count'[u] = count[u]
      BY <1>4, <2>1, <2>2
    <2> QED BY <1>6, <2>3
  <1>14. CASE FreeOutside(u)
    BY <1>7, <1>14 DEF FreeOutside
  <1>15. CASE Stopped(u)
    <2>1. over'[u] = 0 /\ count'[u] = count[u]
      BY <1>4, <1>5, <1>15 DEF Stopped
    <2> QED BY <1>6, <2>1
  <1> QED BY <1>8, <1>9, <1>10, <1>11, <1>12, <1>13, <1>14, <1>15 DEF LookAt

\* The minute that passes is one more since the last look, also over the hour.
LEMMA TickCounts ==
    ASSUME RunInv, NEW b \in Bounds, NEW u \in Units, Tick
    PROVE  Counts(u)' /\ count'[u] <= b
  <1>1. TypeOK /\ TypeOK' /\ Counts(u) /\ count[u] <= b
    BY TickType DEF RunInv
  <1>2. /\ count[u] \in Nat /\ since[u] \in Nat /\ since[u] < MaxSkip /\ over[u] \in Nat
        /\ minute[u] \in Nat /\ minute[u] < HourLen /\ min \in Nat /\ min < HourLen
    BY <1>1, Constants DEF TypeOK, Minutes, Tick
  <1>3. count' = count /\ minute' = minute /\ since'[u] = since[u] + 1
           /\ over'[u] = (IF onoff[u] = 1 THEN over[u] + 1 ELSE 0)
    BY <1>1 DEF Tick, units, TypeOK
  <1>4. min' = (IF min + 1 = HourLen THEN 0 ELSE min + 1)
    <2>1. min + 1 < HourLen => (min + 1) % HourLen = min + 1
      <3>1. min + 1 \in Nat
        BY <1>2
      <3> QED BY <3>1, Constants, Remainder
    <2>2. HourLen % HourLen = 0
      BY Constants
    <2> QED BY <1>2, <2>1, <2>2, Constants DEF Tick
  <1>5. CASE over'[u] = 0
    BY <1>1, <1>3, <1>5, NothingCounted
  <1>6. CASE over'[u] = over[u] + 1
    <2>1. over'[u] <= since'[u] + MaxSkip * (count'[u] + 1)
      BY <1>1, <1>2, <1>3, <1>6, OneMore DEF Counts
    <2>2. ASSUME over'[u] > since'[u]
          PROVE  minute'[u] + since'[u] \in {min', min' + HourLen}
      <3>1. minute[u] + since[u] \in {min, min + HourLen}
        BY <1>1, <1>2, <1>3, <1>6, <2>2 DEF Counts
      <3> QED BY <1>2, <1>3, <1>4, <3>1, Constants
    <2> QED BY <1>1, <1>3, <2>1, <2>2 DEF Counts
  <1> QED BY <1>3, <1>5, <1>6

\* Every step that is neither leaves the counts as they are, or starts anew.
LEMMA OtherCounts ==
    ASSUME TypeOK, [Next]_vars, ~Tick, ~\E u \in Units : LookAt(u), NEW u \in Units
    PROVE  \/ UNCHANGED <<count, minute, since, min>> /\ over'[u] \in {0, over[u]}
           \/ over'[u] = 0 /\ count'[u] \in {0, count[u]}
  <1>1. CASE StartPass
    BY <1>1 DEF StartPass, units, clock
  <1>2. CASE ReadMissing \/ ReadShort \/ ReadFull
    BY <1>2 DEF ReadMissing, ReadShort, ReadFull, Read, units, clock
  <1>3. CASE Server
    BY <1>3 DEF Server, Written, SetDate, units, clock
  <1>4. CASE Users
    BY <1>4 DEF Users, Others, SetGroup, SetMode, Upload, UploadFails, units, clock, TypeOK
  <1>5. CASE Restart
    BY <1>5 DEF Restart
  <1>6. CASE UNCHANGED vars
    BY <1>6 DEF vars
  <1> QED BY <1>1, <1>2, <1>3, <1>4, <1>5, <1>6 DEF Next, Thread

LEMMA LimitStep == RunInv /\ [Next]_vars => limit' \in Limits
  <1> SUFFICES ASSUME RunInv, [Next]_vars PROVE limit' \in Limits
    OBVIOUS
  <1>1. limit \in Limits /\ 0 \in Limits /\ DefaultLimit \in Limits
    BY DEF RunInv, Limits
  <1>2. CASE ReadFull
    <2>1. file.limit \in Limits
      BY <1>2, FileOK DEF RunInv, ReadFull, Limits
    <2> QED BY <1>1, <1>2, <2>1 DEF ReadFull, Read
  <1>3. CASE ReadMissing \/ ReadShort
    BY <1>1, <1>3 DEF ReadMissing, ReadShort, Read
  <1>4. CASE \E u \in Units : LookAt(u)
    BY <1>1, <1>4, LookForm DEF RunInv, Look
  <1>5. CASE StartPass \/ Tick \/ Server
    BY <1>1, <1>5 DEF StartPass, Tick, Server, Written, SetDate
  <1>6. CASE Users
    BY <1>1, <1>6 DEF Users, Others, SetGroup, SetMode, Upload, UploadFails
  <1>7. CASE Restart \/ UNCHANGED vars
    BY <1>1, <1>7 DEF Restart, vars
  <1> QED BY <1>2, <1>3, <1>4, <1>5, <1>6, <1>7 DEF Next, Thread

LEMMA RunStep == RunInv /\ [Next]_vars => RunInv'
  <1> SUFFICES ASSUME RunInv, [Next]_vars PROVE RunInv'
    OBVIOUS
  <1>1. TypeOK /\ TypeOK' /\ limit' \in Limits
    BY NextType, LimitStep DEF RunInv
  <1>2. ASSUME NEW b \in Bounds, NEW u \in Units PROVE Counts(u)' /\ count'[u] <= b
    <2>1. Counts(u) /\ count[u] <= b /\ b \in Nat
      BY <1>2, Constants DEF RunInv, Bounds
    <2>2. CASE Tick
      BY <2>2, TickCounts
    <2>3. CASE \E w \in Units : LookAt(w)
      <3>1. PICK w \in Units : LookAt(w)
        BY <2>3
      <3>2. CASE w = u
        BY <3>1, <3>2, LookCounts
      <3>3. CASE w # u
        <4>1. /\ count'[u] = count[u] /\ minute'[u] = minute[u]
              /\ since'[u] = since[u] /\ over'[u] = over[u]
          BY <1>1, <3>1, <3>3, LookOthers
        <4>2. min' = min
          BY <1>1, <3>1, LookForm DEF Look, clock
        <4> QED BY <2>1, <4>1, <4>2 DEF Counts
      <3> QED BY <3>2, <3>3
    <2>4. CASE ~Tick /\ ~\E w \in Units : LookAt(w)
      <3>1. CASE over'[u] = 0 /\ count'[u] \in {0, count[u]}
        BY <1>1, <2>1, <3>1, NothingCounted
      <3>2. CASE UNCHANGED <<count, minute, since, min>> /\ over'[u] = over[u]
        BY <2>1, <3>2 DEF Counts
      <3> QED BY <1>1, <2>4, <3>1, <3>2, OtherCounts
    <2> QED BY <2>2, <2>3, <2>4
  <1> QED BY <1>1, <1>2 DEF RunInv

(* Outside its schedule a unit runs for the largest limit and at most two  *)
(* looks more, for any users, schedules and modes.                         *)
THEOREM LimitedRuns == Spec => []RunsAtMost
  <1>1. Init => RunInv
    <2> SUFFICES ASSUME Init PROVE RunInv
      OBVIOUS
    <2>1. TypeOK /\ limit \in Limits
      BY InitType DEF Init, Limits
    <2>2. ASSUME NEW b \in Bounds, NEW u \in Units PROVE Counts(u) /\ count[u] <= b
      <3>1. over[u] = 0 /\ count[u] = 0 /\ since[u] = 0 /\ b \in Nat
        BY DEF Init, Bounds
      <3> QED BY <3>1, OneMore DEF Counts
    <2> QED BY <2>1, <2>2 DEF RunInv
  <1>2. RunInv => RunsAtMost
    <2> SUFFICES ASSUME RunInv, NEW b \in Bounds, NEW u \in Units
                 PROVE  over[u] <= (b + 2) * MaxSkip
      BY DEF RunsAtMost, Bounds
    <2>1. /\ over[u] \in Nat /\ since[u] \in Nat /\ since[u] <= MaxSkip /\ count[u] \in Nat
          /\ count[u] <= b /\ b \in Nat /\ Counts(u)
      BY Constants DEF RunInv, TypeOK, Bounds
    <2>2. MaxSkip * (count[u] + 1) <= MaxSkip * (b + 1)
      BY <2>1, Constants
    <2>3. (b + 2) * MaxSkip = MaxSkip * (b + 1) + MaxSkip
      BY <2>1, Constants
    <2>4. MaxSkip * (b + 1) \in Nat /\ MaxSkip * (count[u] + 1) \in Nat
      BY <2>1, OneMore
    <2> QED BY <2>1, <2>2, <2>3, <2>4, Constants DEF Counts
  <1> QED BY <1>1, <1>2, RunStep, PTL DEF Spec
=============================================================================
