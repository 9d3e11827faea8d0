---------------------------- MODULE MCPointTable ----------------------------
(***************************************************************************)
(* A node p0 with an output, point 1, and an input, point 2, next to one   *)
(* other node p1.  With limits 0 .. 3 and a hysteresis of 2 the value 5    *)
(* exceeds the limits; 1 and 2 differ by less than the hysteresis, 1 and 5 *)
(* by twice as much.  Both points start outside their limits, the output   *)
(* at 5 and the input at -1; 1 is close to an f_preval of 0.               *)
(***************************************************************************)
EXTENDS PointTable

CONSTANTS scanner, net32, p0, p1

MCMinVal == [p \in Points |-> 0]
MCMaxVal == [p \in Points |-> 3]
MCHyst == [p \in Points |-> 2]
MCInitial == [n \in Pcms |-> [p \in Points |-> IF p \in Outputs THEN 5 ELSE -1]]

\* Each point has one thread: the network commands and requires the output,
\* the point thread samples the input.
TouchesNet32 == [t \in Threads |-> CASE t = net32 -> {<<p0, 1>>}
                                     [] t = scanner -> {<<p0, 2>>}]
=============================================================================
