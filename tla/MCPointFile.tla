---------------------------- MODULE MCPointFile -----------------------------
(***************************************************************************)
(* A file of two points with three values each: long enough to end too     *)
(* early after its first value, and for a value to be written at the place *)
(* of another.                                                             *)
(***************************************************************************)
EXTENDS PointFile

MCValues == {0, 1, 2}
=============================================================================
