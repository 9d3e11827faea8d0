--------------------------- MODULE MCGhpSchedule ---------------------------
EXTENDS GhpSchedule

\* Two intervals a day for the groups, one for the units in HAKSA.
Content(m1, m2, byDay, lim, ok) ==
    [kind |-> "full",
     mode |-> [g \in Groups |-> IF g = 1 THEN m1 ELSE m2],
     byDay |-> [g \in Groups |-> byDay],
     row |-> [g \in Groups |-> [d \in 0 .. DayCnt |->
                 IF d = 0 THEN {} ELSE IF g = 1 THEN {<<1, 100>>} ELSE {<<0, 2>>, <<101, 102>>}]],
     class |-> [u \in Units |-> {<<2, 100>>}],
     limit |-> lim, good |-> ok]

MCSaved == Content(FORCE, FREE, FALSE, 1, TRUE)
MCContents == {Content(FORCE, STOP, TRUE, 0, FALSE)}
MCGrouped == [u \in Units |-> 1]
MCClocks == {<<0, 0, 0>>}
=============================================================================
