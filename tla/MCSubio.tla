------------------------------ MODULE MCSubio ------------------------------
(***************************************************************************)
(* Two boards of inputs and a group that has no points, with one answer of *)
(* each board or two of one under way: enough for an answer to be read in  *)
(* the other board's turn and for two to be read together.                 *)
(***************************************************************************)
EXTENDS Subio, TLC

MCType == 0 :> "ADI" @@ 1 :> "ADI" @@ 2 :> "NONE"
=============================================================================
