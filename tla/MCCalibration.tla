--------------------------- MODULE MCCalibration ---------------------------
(***************************************************************************)
(* Two groups of inputs and one of outputs, group 0: enough for the second *)
(* JPT command to name the group of the first one, another one, or one the *)
(* ADC driver answers nothing for.                                         *)
(***************************************************************************)
EXTENDS Calibration

MCGroups == {0, 2, 3}
MCInputGroups == {2, 3}
=============================================================================
