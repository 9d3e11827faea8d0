------------------------------ MODULE GhpGroup ------------------------------
(***************************************************************************)
(* The group switches of a building (APP/Iface/IFACE_GHP/ghp_group.c,      *)
(* Dong_OnOff, and AC_Dong_OnOff where a floor is passed on to the next    *)
(* one too): one for the whole building, one for every floor and one for   *)
(* every section of a floor, which is a place with indoor units.           *)
(*                                                                         *)
(* The switches are points of the table.  Dong_Data holds the value each   *)
(* of them had at the last look; a look that finds another one passes it   *)
(* on, one point after the other, to the switches below or to the units of *)
(* the section.  The switches of a building are looked at one after the    *)
(* other, from the top, while users write all of them.                     *)
(***************************************************************************)
EXTENDS Naturals, Sequences
LOCAL INSTANCE SequencesExt

CONSTANTS UnitCnt,    \* g_unitCnt
          FloorCnt,   \* floors, from DONG_B3 (11 in the code)
          LetterCnt,  \* sections of a floor, from SECTION_A (4)
          AllEnd,     \* PNO_ALL_DEFINE_END - PNO_ALL_DEFINE_START (44)
          Joined,     \* floors passed on to the next (DONG_6 in AC_Dong_OnOff)
          Place       \* floor and section of the units: g_pDongInfo

Units == 0 .. UnitCnt - 1
Floors == {<<f>> : f \in 0 .. FloorCnt - 1}
Sections == {<<f, l>> : f \in 0 .. FloorCnt - 1, l \in 0 .. LetterCnt - 1}
Whole == << >>
Switches == {Whole} \cup Floors \cup Sections

ASSUME GroupAssumption == /\ {UnitCnt, FloorCnt, LetterCnt} \subseteq Nat \ {0}
                          /\ AllEnd \in Nat
                          /\ Joined \subseteq 0 .. FloorCnt - 2
                          /\ Place \in [Units -> Sections]

VARIABLES onoff,   \* GHP_ONOFF
          point,   \* the switches, in GHP_MODE_STATUS
          copy,    \* Dong_Data
          next,    \* how many of the switches have been looked at in this call
          value,   \* what the switch was read with that is being passed on
          done     \* how many points it has been passed on to

Nothing == 2

\* Dong_OnOff: the building, the floors, then the sections floor by floor.
Order == <<Whole>> \o [i \in 1 .. FloorCnt |-> <<i - 1>>]
            \o [i \in 1 .. FloorCnt * LetterCnt |->
                   <<(i - 1) \div LetterCnt, (i - 1) % LetterCnt>>]

\* ghp_app.h: the numbers of the points, from PNO_ALL_DEFINE_START.
Number(p) == p[1] * (LetterCnt + 1) + (IF Len(p) = 1 THEN 0 ELSE p[2] + 1)

\* The switches a switch is passed on to.
Writes(p) == IF p = Whole THEN {q \in Floors \cup Sections : Number(q) < AllEnd}
             ELSE IF p \in Floors
             THEN {q \in Sections : q[1] = p[1]}
                     \cup {q \in Floors \cup Sections : p[1] \in Joined /\ q[1] = p[1] + 1}
             ELSE {}

\* A_Section_OnOff .. D_Section_OnOff: the units of a section.
Members(p) == {u \in Units : Place[u] = p}

GroupInit == /\ point = [p \in Switches |-> 0]
             /\ copy = [p \in Switches |-> 0]
             /\ next = 0
             /\ value = Nothing /\ done = 0

-----------------------------------------------------------------------------
Looking == next < Len(Order)
Here == Order[next + 1]
Changed(p) == copy[p] # point[p]

\* The switch that is being passed on, and the points it is written to.
Busy(p) == value # Nothing /\ p = Here
Below(a, b) == Number(a) < Number(b)
Targets(p) == IF p \in Sections THEN SetToSortSeq(Members(p), <) ELSE SetToSortSeq(Writes(p), Below)
Passed == done = Len(Targets(Here))

\* Mutant: the copies of the switches below are set with it.
CopiesBelow(p) == [q \in Switches |-> IF q = p \/ q \in Writes(p) THEN value ELSE copy[q]]

\* What Dong_Data is after a look at p: the value that was read.
Copies(p) == [copy EXCEPT ![p] = value]

LookSame == /\ Looking
            /\ value = Nothing /\ ~Changed(Here)
            /\ next' = next + 1
            /\ UNCHANGED <<onoff, point, copy, value, done>>

LookChanged == /\ Looking
               /\ value = Nothing /\ Changed(Here)
               /\ value' = point[Here]
               /\ UNCHANGED <<onoff, point, copy, next, done>>

\* The next pSet, to a unit of the section or to a switch.
PassOn == /\ value # Nothing /\ ~Passed
          /\ done' = done + 1
          /\ LET q == Targets(Here)[done + 1]
             IN IF Here \in Sections
                THEN onoff' = [onoff EXCEPT ![q] = value] /\ UNCHANGED point
                ELSE point' = [point EXCEPT ![q] = value] /\ UNCHANGED onoff
          /\ UNCHANGED <<copy, next, value>>

LookEnds == /\ value # Nothing /\ Passed
            /\ copy' = Copies(Here)
            /\ next' = next + 1
            /\ value' = Nothing /\ done' = 0
            /\ UNCHANGED <<onoff, point>>

\* A user writes a switch.
Command(p, v) == /\ point' = [point EXCEPT ![p] = v]
                 /\ UNCHANGED <<onoff, copy, next, value, done>>

\* The program starts: Dong_Data is cleared, the table is as it was saved.
GroupRestart == /\ copy' = [p \in Switches |-> 0]
                /\ next' = 0
                /\ value' = Nothing /\ done' = 0
                /\ UNCHANGED <<onoff, point>>

GroupTypeOK == /\ point \in [Switches -> {0, 1}] /\ copy \in [Switches -> {0, 1}]
               /\ next \in 0 .. Len(Order)
               /\ value \in {0, 1, Nothing} /\ done \in Nat
=============================================================================
