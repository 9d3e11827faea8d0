------------------------------- MODULE Subio -------------------------------
(***************************************************************************)
(* The four SUBIO boards on the serial line (APP/Src/subio_mgr.c).  The    *)
(* subio thread polls the groups in turn.  It counts the turns of a group  *)
(* that brought no bytes, and at the fourth sets the inputs of the group   *)
(* to zero (subio_value_zero).  A reply is taken for whatever the line     *)
(* delivers while the thread listens: an answer names its board, but the   *)
(* counter that is reset is that of the group polled, and an answer that   *)
(* comes late is read in a later turn, alone or joined to the next one.    *)
(*                                                                         *)
(* A value is either what the board measured or the zero written for it;   *)
(* how it is reported is PointTable's subject.                             *)
(***************************************************************************)
EXTENDS Naturals, Sequences

CONSTANTS LastGroup,    \* groups are 0 .. LastGroup; 3 in the code
          Type,         \* "ADI", "DO", "VO" or "NONE" for each group
          MaxUnderway   \* bound: answers on the line at a time

Groups == 0 .. LastGroup

ASSUME SubioAssumption == /\ LastGroup \in Nat
                          /\ Type \in [Groups -> {"ADI", "DO", "VO", "NONE"}]
                          /\ MaxUnderway \in Nat \ {0}

\* The turns a group may miss: it is zeroed when the counter exceeds it.
MaxMissed == 3

VARIABLES n_grp,   \* the group whose turn it is
          at,      \* where the subio thread is in this turn
          alive,   \* g_nSubioAliveChk
          value,   \* the inputs of each group: measured, or set to zero
          up,      \* boards that answer
          line,    \* answers under way, by the id of the board that sent them
          source,  \* history: the board each group's values come from
          silent,  \* history: turns since a board of inputs was heard
          late     \* history: an answer missed the turn that asked for it

vars == <<n_grp, at, alive, value, up, line, source, silent, late>>

\* c_id of a request and of its answer, and the points a group begins with.
IdOf(g) == g + 1
FirstPno(g) == 32 + g * 8

Ids == {IdOf(g) : g \in Groups}

Init == /\ n_grp = 0
        /\ at = "turn"
        /\ alive = [g \in Groups |-> 0]
        /\ value = [g \in Groups |-> "measured"]
        /\ up \in SUBSET {g \in Groups : Type[g] # "NONE"}
        /\ line = << >>
        /\ source = [g \in Groups |-> IdOf(g)]
        /\ silent = [g \in Groups |-> 0]
        /\ late = FALSE

NextGroup == IF n_grp = LastGroup THEN 0 ELSE n_grp + 1

\* pnt_local_subio leaves a point alone that is no input.
IsInput(g) == g \in Groups /\ Type[g] = "ADI"

\* The points an answer is for.
PnoOf(id) == id * 8 + 24
GroupOf(id) == CHOOSE g \in Groups : FirstPno(g) = PnoOf(id)

-----------------------------------------------------------------------------
\* The counter, and the inputs set to zero when it has run out.
Counted(g) == alive[g] + 1

\* Mutant: the counter runs out a turn early.
RunOutEarly(g) == Counted(g) > MaxMissed - 1

RunOut(g) == Counted(g) > MaxMissed

\* Mutant: the counter starts again, but the values stay.
TurnForgetsValues ==
    /\ at = "turn"
    /\ alive' = [alive EXCEPT ![n_grp] = IF RunOut(n_grp) THEN 0 ELSE Counted(n_grp)]
    /\ IF Type[n_grp] = "NONE"
       THEN n_grp' = NextGroup /\ at' = "turn"
       ELSE n_grp' = n_grp /\ at' = "send"
    /\ UNCHANGED <<value, up, line, source, silent, late>>

Turn == /\ at = "turn"
        /\ alive' = [alive EXCEPT ![n_grp] = IF RunOut(n_grp) THEN 0 ELSE Counted(n_grp)]
        /\ value' = IF RunOut(n_grp) /\ IsInput(n_grp)
                    THEN [value EXCEPT ![n_grp] = "zero"] ELSE value
        /\ IF Type[n_grp] = "NONE"
           THEN n_grp' = NextGroup /\ at' = "turn"
           ELSE n_grp' = n_grp /\ at' = "send"
        /\ UNCHANGED <<up, line, source, silent, late>>

\* subio_send_msg; a board that is up answers, if there is room on the line.
Send == /\ at = "send"
        /\ line' = IF n_grp \in up /\ Len(line) < MaxUnderway
                   THEN Append(line, IdOf(n_grp)) ELSE line
        /\ at' = "listen"
        /\ UNCHANGED <<n_grp, alive, value, up, source, silent, late>>

\* subio_recv_msg: nothing came before the time was over, or the poll failed.
NoReply == /\ at = "listen"
           /\ late' = (late \/ line # << >>)
           /\ silent' = IF IsInput(n_grp) /\ silent[n_grp] <= MaxMissed
                        THEN [silent EXCEPT ![n_grp] = @ + 1] ELSE silent
           /\ n_grp' = NextGroup
           /\ at' = "turn"
           /\ UNCHANGED <<alive, value, up, line, source>>

\* Mutant: the values go to the points of the group polled.
ReplyToPolled ==
    /\ at = "listen"
    /\ line # << >>
    /\ LET taken == Type[n_grp] = "ADI"
       IN /\ value' = IF taken THEN [value EXCEPT ![n_grp] = "measured"] ELSE value
          /\ source' = IF taken THEN [source EXCEPT ![n_grp] = Head(line)] ELSE source
    /\ silent' = [silent EXCEPT ![GroupOf(Head(line))] = 0]
    /\ line' = Tail(line)
    /\ alive' = [alive EXCEPT ![n_grp] = 0]
    /\ n_grp' = NextGroup
    /\ at' = "turn"
    /\ UNCHANGED <<up, late>>

\* Mutant: one reply resets the counters of all groups.
ReplyResetsAll ==
    /\ at = "listen"
    /\ line # << >>
    /\ LET g == GroupOf(Head(line))
           taken == Type[n_grp] = "ADI" /\ IsInput(g)
       IN /\ value' = IF taken THEN [value EXCEPT ![g] = "measured"] ELSE value
          /\ source' = IF taken THEN [source EXCEPT ![g] = Head(line)] ELSE source
    /\ silent' = [silent EXCEPT ![GroupOf(Head(line))] = 0]
    /\ line' = Tail(line)
    /\ alive' = [g \in Groups |-> 0]
    /\ n_grp' = NextGroup
    /\ at' = "turn"
    /\ UNCHANGED <<up, late>>

\* Mutant: a reply does not reset the counter.
ReplyKeepsCount ==
    /\ at = "listen"
    /\ line # << >>
    /\ LET g == GroupOf(Head(line))
           taken == Type[n_grp] = "ADI" /\ IsInput(g)
       IN /\ value' = IF taken THEN [value EXCEPT ![g] = "measured"] ELSE value
          /\ source' = IF taken THEN [source EXCEPT ![g] = Head(line)] ELSE source
    /\ silent' = [silent EXCEPT ![GroupOf(Head(line))] = 0]
    /\ line' = Tail(line)
    /\ n_grp' = NextGroup
    /\ at' = "turn"
    /\ UNCHANGED <<alive, up, late>>

\* subio_msg_handler of one answer: inputs are taken from it when the group
\* polled is one of inputs, and go to the points of the board it names.
Reply == /\ at = "listen"
         /\ line # << >>
         /\ LET g == GroupOf(Head(line))
                taken == Type[n_grp] = "ADI" /\ IsInput(g)
            IN /\ value' = IF taken THEN [value EXCEPT ![g] = "measured"] ELSE value
               /\ source' = IF taken THEN [source EXCEPT ![g] = Head(line)] ELSE source
         /\ silent' = [silent EXCEPT ![GroupOf(Head(line))] = 0]
         /\ line' = Tail(line)
         /\ alive' = [alive EXCEPT ![n_grp] = 0]
         /\ n_grp' = NextGroup
         /\ at' = "turn"
         /\ UNCHANGED <<up, late>>

\* Answers that are not taken: two in one turn, so that the checksum over both
\* is wrong, or one that was disturbed or cut short.  They count all the same.
SpoiledReplies(n) ==
    /\ at = "listen"
    /\ n <= Len(line)
    /\ line' = SubSeq(line, n + 1, Len(line))
    /\ silent' = [g \in Groups |-> IF \E i \in 1 .. n : line[i] = IdOf(g) THEN 0 ELSE silent[g]]
    /\ alive' = [alive EXCEPT ![n_grp] = 0]
    /\ n_grp' = NextGroup
    /\ at' = "turn"
    /\ UNCHANGED <<value, up, source, late>>

\* The boards come and go.
Fails(g) == /\ g \in up
            /\ up' = up \ {g}
            /\ UNCHANGED <<n_grp, at, alive, value, line, source, silent, late>>

Recovers(g) == /\ g \in Groups \ up
               /\ Type[g] # "NONE"
               /\ up' = up \cup {g}
               /\ UNCHANGED <<n_grp, at, alive, value, line, source, silent, late>>

Loop == Turn \/ Send \/ NoReply \/ Reply \/ \E n \in {1, 2} : SpoiledReplies(n)

Next == Loop \/ \E g \in Groups : Fails(g) \/ Recovers(g)

\* The thread sleeps and polls with timeouts only: it always comes round.
Spec == Init /\ [][Next]_vars /\ WF_vars(Loop)

-----------------------------------------------------------------------------
\* The counters stay within their limit, the rest has its type.
TypeOK == /\ n_grp \in Groups
          /\ at \in {"turn", "send", "listen"}
          /\ alive \in [Groups -> 0 .. MaxMissed]
          /\ value \in [Groups -> {"zero", "measured"}]
          /\ up \subseteq Groups
          /\ line \in Seq(Ids) /\ Len(line) <= MaxUnderway
          /\ source \in [Groups -> Ids]
          /\ silent \in [Groups -> 0 .. MaxMissed + 1]
          /\ late \in BOOLEAN

(* Whichever group is polled when an answer arrives, late or not, its      *)
(* values go to the points of the board that sent it (subio_msg_handler    *)
(* computes the point number from the id in the frame).                    *)
AnswersGoHome == \A g \in Groups : source[g] = IdOf(g)

\* Answers in time are those of the group polled, read before its turn ends;
\* the counter of a group of inputs is the turns its board was not heard.
InTimeInv ==
    /\ at # "listen" => line = << >>
    /\ line # << >> => line = <<IdOf(n_grp)>>
    /\ \A g \in Groups : IsInput(g) =>
          alive[g] <= IF at # "turn" /\ g = n_grp THEN silent[g] + 1 ELSE silent[g]

(* The inductive invariant of the subio thread.                            *)
SubioInv == TypeOK /\ AnswersGoHome /\ (~late => InTimeInv)

(* As long as answers are in time, inputs are set to zero only when their  *)
(* board was not heard for three turns: one lost reply, or two, leave them *)
(* alone (g_nSubioAliveChk in subio_main).                                 *)
ZeroedWhenSilent ==
    [][\A g \in Groups : ~late /\ value[g] = "measured" /\ value'[g] = "zero"
                            => silent[g] >= MaxMissed]_vars

(* As long as answers are in time, a board that stays silent does not      *)
(* leave its last measurements in the table for good, whatever the others  *)
(* answer.                                                                 *)
SilentIsZeroed ==
    \A g \in Groups :
       IsInput(g) /\ g \notin up ~> g \in up \/ value[g] = "zero" \/ late

(* Even with late answers, once no board answers every input reads zero.   *)
AllSilentIsZeroed ==
    up = {} ~> up # {} \/ \A g \in Groups : IsInput(g) => value[g] = "zero"
=============================================================================
