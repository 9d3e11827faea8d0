---------------------------- MODULE MCPointQueue ----------------------------
(***************************************************************************)
(* A queue of three slots, so of two messages, shared by three threads:    *)
(* it fills, wraps round and empties in every order.  Or, side by side in  *)
(* the same run, the connection to the station, with two frames on every   *)
(* connection: the two share no variable, and one of them moves.           *)
(***************************************************************************)
EXTENDS PointQueue, FiniteSets

CONSTANTS Payloads, MaxFrames

VARIABLES linking,   \* the run is about the connection
          phase, peer, frames, wire, arrived, buffer, reused, rest,
          handled, timeRequest, unanswered, stale

linkVars == <<phase, peer, frames, wire, arrived, buffer, reused, rest,
              handled, timeRequest, unanswered, stale>>
Link == INSTANCE ElbaLink WITH pc <- phase, prev <- rest

\* Bytes a payload may have: one that is taken for the kind of a frame, and
\* one that is taken for its start.
MCPayloads == {0, 123}

MCInit == Init /\ Link!Init /\ linking \in BOOLEAN
QueueNext == ~linking /\ Next /\ UNCHANGED <<linking, linkVars>>
LinkNext == /\ linking
            /\ Link!Next
            \* Bound: the frames of a connection have one payload.
            /\ Cardinality({frames'[i].payload : i \in DOMAIN frames'}) < 2
            /\ UNCHANGED <<linking, vars>>
MCNext == QueueNext \/ LinkNext
MCSpec == MCInit /\ [][MCNext]_<<vars, linking, linkVars>>

(* However the stream is cut into reads, the frames handled are those that *)
(* arrived whole, in their order (elba_recv_message).                      *)
FramesInOrder == Link!FramesInOrder

(* What waits for the next read is less than a frame (elba_recv_message).  *)
RestIsShort == Link!RestIsShort

(* A time frame is answered before the next read (elba_main).              *)
TimeAnswered == Link!TimeAnswered
=============================================================================
