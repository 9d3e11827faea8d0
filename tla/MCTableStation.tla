--------------------------- MODULE MCTableStation ---------------------------
(***************************************************************************)
(* The point table with a station, in both modes of g_nMultiDdcFlag, which *)
(* is read once at the start: net32 mode as PointTable has it, multi-DDC   *)
(* mode as an instance of it.  Each mode has threads and points of its own *)
(* next to the observer; those of the other mode are there and never run.  *)
(* With limits 0 .. 4 and a hysteresis of 2 the input starts at 4, and an  *)
(* f_preval of 0 keeps the sample 0 from the station.                      *)
(***************************************************************************)
EXTENDS PointTable

CONSTANTS setter, subio, net32, elba, station, observer, p0, p1

MCMinVal == [p \in Points |-> 0]
MCMaxVal == [p \in Points |-> 4]
MCHyst == [p \in Points |-> 2]
MCInitial == [n \in Pcms |-> [p \in Points |-> IF n = p0 /\ p \in Inputs THEN 4 ELSE 0]]

\* Net32 mode: the station commands and requests output 1, the network reports
\* a point of the other node.  Multi-DDC mode: the station commands output 3,
\* the subio thread samples the input, a setter writes to the other node.
Net32Mode == {net32, elba, observer}
MultiMode == {setter, subio, station, observer}
TouchesStation == [t \in Threads |-> CASE t = elba -> {<<p0, 1>>}
                                       [] t = net32 -> {<<p1, 1>>}
                                       [] t = station -> {<<p0, 3>>}
                                       [] t = subio -> {<<p0, 2>>}
                                       [] t = setter -> {<<p1, 2>>}
                                       [] t = observer -> {<<p0, 1>>, <<p0, 3>>}]

Multi == INSTANCE PointTable WITH MultiDdc <- TRUE

\* The initial values but for pc, which says who runs; multi-DDC mode starts
\* without a PointDefine.dat.
AllIdle == INSTANCE PointTable WITH pc <- [t \in Threads |-> "idle"]
MCInit == /\ AllIdle!Init
          /\ \E mode \in {Net32Mode, MultiMode} :
                /\ pc = [t \in Threads |-> IF t \in mode THEN "idle" ELSE "off"]
                /\ mode = Net32Mode <=> fPreval = Initial[MyPcm]

\* A parked thread does nothing, and Continue and Observe are those of both modes.
MCNext == \/ \E t \in Threads : Continue(t)
          \/ \E t \in Observers : ObserverStep(t)
          \/ \E t \in Net32Threads : Net32Step(t)
          \/ ElbaStep(elba)
          \/ \E t \in Setters : Multi!SetterStep(t)
          \/ \E t \in SubioThreads : Multi!SubioStep(t)
          \/ Multi!ElbaStep(station)
MCSpec == MCInit /\ [][MCNext]_vars
=============================================================================
