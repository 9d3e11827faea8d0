----------------------------- MODULE MCElbaLink -----------------------------
(***************************************************************************)
(* Two frames on every connection, of every kind, whose payload can be     *)
(* taken for the start of a frame or for the kind of a request.            *)
(***************************************************************************)
EXTENDS ElbaLink

MCPayloads == {0, Brace}
=============================================================================
