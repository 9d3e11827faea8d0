---------------------------- MODULE MCGhpControl ----------------------------
EXTENDS GhpControl

\* Units that are off, at another speed and direction than they will be given.
MCInitial == [i \in Items |-> [u \in Units |-> 0]]

\* Users switch the first unit and set the temperature of both.
MCWishes == {<<"onoff", 0, 0>>, <<"onoff", 0, 1>>, <<"temp", 0, 1>>,
             <<"temp", UnitCnt - 1, 2>>}
MCRemotes == {<<"onoff", 0, 1>>, <<"temp", 0, 2>>}
=============================================================================
