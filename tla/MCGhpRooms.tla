----------------------------- MODULE MCGhpRooms -----------------------------
EXTENDS GhpRooms

\* One group, in force mode from the second minute of the only hour.
MCSaved == [kind |-> "full", mode |-> [g \in 1 .. GroupCnt |-> 0],
            byDay |-> [g \in 1 .. GroupCnt |-> FALSE],
            row |-> [g \in 1 .. GroupCnt |-> [d \in 0 .. DayCnt |-> {<<1, 2>>}]],
            class |-> [u \in 0 .. UnitCnt - 1 |-> {}], limit |-> 0, good |-> TRUE]
MCGrouped == [u \in 0 .. UnitCnt - 1 |-> IF u = 0 THEN 1 ELSE 0]

(* A section on each of two floors.  The second floor is not among the     *)
(* points of the building, but the first is passed on to it.               *)
MCPlace == [u \in 0 .. UnitCnt - 1 |-> <<u, 0>>]
MCCommands == ({<< >>, <<0>>, <<1>>, <<1, 0>>} \X {0, 1})
MCTouched == {<<0, 0>>, <<0, 1>>}

CONSTANT MaxTimed  \* bound: events where time goes on

(* Either time goes on and schedules change, or users command the groups   *)
(* and the thread sends them: the stop mode, users at the units and        *)
(* restarts are in both.                                                   *)
VARIABLE time

Timed == /\ Pass \/ Server \/ SetSchedule \/ Restart
              \/ (\E w \in Touched : SetUnit(w[1], w[2]))
              \/ (\E v \in {0, 1} : SetStop(v))
         /\ events' <= MaxTimed
         /\ loops' = 0

MCInit == Init /\ time \in BOOLEAN
MCNext == /\ \/ time /\ Timed
             \/ ~time /\ (Pass \/ Users \/ Restart)
          /\ UNCHANGED time

MCSpec == MCInit /\ [][MCNext]_<<vars, time>> /\ WF_<<vars, time>>(Pass /\ UNCHANGED time)
             /\ WF_<<vars, time>>(Server /\ UNCHANGED time)
=============================================================================
