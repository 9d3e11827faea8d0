---------------------------- MODULE SubioProofs ----------------------------
(***************************************************************************)
(* The subio thread with any number of groups: where answers go, and when  *)
(* inputs are set to zero.                                                 *)
(***************************************************************************)
EXTENDS Subio, TLAPS

\* The point number in an answer is the first one of the board's group.
LEMMA GroupOfId == ASSUME NEW g \in Groups PROVE GroupOf(IdOf(g)) = g
  <1>1. \A h \in Groups : FirstPno(h) = PnoOf(IdOf(g)) => h = g
    BY SubioAssumption DEF Groups, FirstPno, PnoOf, IdOf
  <1>2. FirstPno(g) = PnoOf(IdOf(g))
    BY SubioAssumption DEF Groups, FirstPno, PnoOf, IdOf
  <1> QED
    BY <1>1, <1>2 DEF GroupOf

\* The group of any id on the line, and the id of that group.
LEMMA IdOfGroup ==
    ASSUME NEW id \in Ids PROVE GroupOf(id) \in Groups /\ IdOf(GroupOf(id)) = id
  <1>1. PICK g \in Groups : id = IdOf(g)
    BY DEF Ids, IdOf
  <1> QED
    BY <1>1, GroupOfId

\* Reading an answer leaves the others as they are.
LEMMA OneRead ==
    ASSUME NEW S, NEW s \in Seq(S), Len(s) >= 1
    PROVE  Tail(s) \in Seq(S) /\ Len(Tail(s)) = Len(s) - 1
  OBVIOUS

LEMMA SubioInitial == Init => SubioInv
  <1> SUFFICES ASSUME Init PROVE SubioInv
    OBVIOUS
  <1>1. TypeOK
    BY SubioAssumption DEF Init, TypeOK, Groups, MaxMissed
  <1>2. AnswersGoHome /\ InTimeInv
    BY DEF Init, AnswersGoHome, InTimeInv
  <1> QED
    BY <1>1, <1>2 DEF SubioInv

LEMMA NextGroupType == n_grp \in Groups => NextGroup \in Groups
  BY SubioAssumption DEF NextGroup, Groups

LEMMA TypeStep == TypeOK /\ [Next]_vars => TypeOK'
  <1> SUFFICES ASSUME TypeOK, [Next]_vars PROVE TypeOK'
    OBVIOUS
  <1> USE NextGroupType, SubioAssumption DEF TypeOK, MaxMissed
  <1>1. CASE Turn
    BY <1>1 DEF Turn, RunOut, Counted
  <1>2. CASE Send
    <2>1. IdOf(n_grp) \in Ids
      BY DEF IdOf, Ids
    <2>2. line' \in Seq(Ids) /\ Len(line') <= MaxUnderway
      BY <1>2, <2>1 DEF Send
    <2> QED
      BY <1>2, <2>2 DEF Send
  <1>3. CASE NoReply
    BY <1>3 DEF NoReply
  <1>4. CASE Reply
    <2>1. Head(line) \in Ids /\ Tail(line) \in Seq(Ids) /\ Len(Tail(line)) <= MaxUnderway
      BY <1>4 DEF Reply
    <2>2. GroupOf(Head(line)) \in Groups
      BY <2>1, IdOfGroup
    <2> QED
      BY <1>4, <2>1, <2>2 DEF Reply
  <1>5. ASSUME NEW n \in {1, 2}, SpoiledReplies(n) PROVE TypeOK'
    <2>1. line' \in Seq(Ids) /\ Len(line') <= MaxUnderway
      BY <1>5 DEF SpoiledReplies
    <2>2. silent' \in [Groups -> 0 .. MaxMissed + 1]
      BY <1>5 DEF SpoiledReplies, MaxMissed
    <2> QED
      BY <1>5, <2>1, <2>2 DEF SpoiledReplies, MaxMissed
  <1>6. ASSUME NEW g \in Groups, Fails(g) \/ Recovers(g) PROVE TypeOK'
    BY <1>6 DEF Fails, Recovers
  <1>7. CASE UNCHANGED vars
    BY <1>7 DEF vars
  <1> QED
    BY <1>1, <1>2, <1>3, <1>4, <1>5, <1>6, <1>7 DEF Next, Loop

LEMMA HomeStep == TypeOK /\ AnswersGoHome /\ [Next]_vars => AnswersGoHome'
  <1> SUFFICES ASSUME TypeOK, AnswersGoHome, [Next]_vars PROVE AnswersGoHome'
    OBVIOUS
  <1>1. CASE Reply
    <2>1. Head(line) \in Ids
      BY <1>1 DEF Reply, TypeOK
    <2>2. IdOf(GroupOf(Head(line))) = Head(line)
      BY <2>1, IdOfGroup
    <2> QED
      BY <1>1, <2>2 DEF Reply, AnswersGoHome, TypeOK
  <1>2. CASE ~Reply
    BY <1>2 DEF Next, Loop, Turn, Send, NoReply, SpoiledReplies, Fails, Recovers,
                vars, AnswersGoHome
  <1> QED
    BY <1>1, <1>2

\* What was late once stays so in the history.
LEMMA LateStays == ASSUME late, [Next]_vars PROVE late'
  BY Zenon DEF Next, Loop, Turn, Send, NoReply, Reply, SpoiledReplies, Fails,
               Recovers, vars

LEMMA InTimeStep ==
    ASSUME TypeOK, InTimeInv, [Next]_vars, ~late'
    PROVE  InTimeInv'
  <1> USE NextGroupType DEF TypeOK, InTimeInv
  <1>1. CASE Turn
    BY <1>1 DEF Turn, RunOut, Counted, IsInput, MaxMissed
  <1>2. CASE Send
    BY <1>2 DEF Send, IsInput
  <1>3. CASE NoReply
    <2>1. line = << >>
      BY <1>3, Zenon DEF NoReply
    <2> QED
      BY <1>3, <2>1 DEF NoReply, IsInput, MaxMissed
  <1>4. CASE Reply
    <2>1. line = <<IdOf(n_grp)>>
      BY <1>4 DEF Reply
    <2>2. Head(line) = IdOf(n_grp) /\ Tail(line) = << >>
      BY <2>1
    <2>3. GroupOf(Head(line)) = n_grp
      BY <2>2, GroupOfId
    <2> QED
      BY <1>4, <2>2, <2>3 DEF Reply, IsInput, MaxMissed
  <1>5. ASSUME NEW n \in {1, 2}, SpoiledReplies(n) PROVE InTimeInv'
    <2>1. line # << >> /\ n <= Len(line)
      BY <1>5 DEF SpoiledReplies
    <2>2. line = <<IdOf(n_grp)>>
      BY <2>1
    <2>3. Len(line) = 1 /\ line[1] = IdOf(n_grp)
      BY <2>2
    <2>4. n = 1
      BY <2>1, <2>3
    <2>5. line' = << >> /\ silent'[n_grp] = 0
      BY <1>5, <2>3, <2>4 DEF SpoiledReplies
    <2>6. \A g \in Groups : g # n_grp => silent'[g] = silent[g]
      <3>1. \A g \in Groups : g # n_grp => IdOf(g) # IdOf(n_grp)
        BY SubioAssumption DEF IdOf, Groups
      <3> QED
        BY <1>5, <2>3, <2>4, <3>1 DEF SpoiledReplies
    <2>7. /\ alive' = [alive EXCEPT ![n_grp] = 0] /\ at' = "turn" /\ n_grp' = NextGroup
      BY <1>5 DEF SpoiledReplies
    <2> QED
      BY <2>5, <2>6, <2>7 DEF IsInput, MaxMissed
  <1>6. ASSUME NEW g \in Groups, Fails(g) \/ Recovers(g) PROVE InTimeInv'
    BY <1>6 DEF Fails, Recovers, IsInput
  <1>7. CASE UNCHANGED vars
    BY <1>7 DEF vars, IsInput
  <1> QED
    BY <1>1, <1>2, <1>3, <1>4, <1>5, <1>6, <1>7 DEF Next, Loop

(* The inductive invariant holds, with answers in time and without.        *)
THEOREM SubioInvariant == Spec => []SubioInv
  <1>1. SubioInv /\ [Next]_vars => SubioInv'
    BY TypeStep, HomeStep, InTimeStep, LateStays DEF SubioInv
  <1> QED
    BY SubioInitial, <1>1, PTL DEF Spec

(* Every variable of the subio thread and of the line has its type.        *)
THEOREM TypeCorrect == Spec => []TypeOK
  BY SubioInvariant, PTL DEF SubioInv

(* An answer is never taken for another board's points, however late.      *)
THEOREM Home == Spec => []AnswersGoHome
  BY SubioInvariant, PTL DEF SubioInv

(* With answers in time no input is set to zero before its board has       *)
(* missed three turns.                                                     *)
THEOREM Silence == Spec => ZeroedWhenSilent
  <1>1. SubioInv /\ [Next]_vars =>
          [\A g \in Groups : ~late /\ value[g] = "measured" /\ value'[g] = "zero"
                                => silent[g] >= MaxMissed]_vars
    <2> SUFFICES ASSUME SubioInv, Next, NEW g \in Groups, ~late,
                        value[g] = "measured", value'[g] = "zero"
                 PROVE  silent[g] >= MaxMissed
      OBVIOUS
    <2>1. Turn
      BY DEF Next, Loop, Turn, Send, NoReply, Reply, SpoiledReplies, Fails, Recovers,
             SubioInv, TypeOK
    <2>2. g = n_grp /\ RunOut(g) /\ IsInput(g)
      BY <2>1 DEF Turn, SubioInv, TypeOK
    <2> QED
      BY <2>1, <2>2 DEF Turn, RunOut, Counted, SubioInv, TypeOK, InTimeInv, MaxMissed
  <1> QED
    BY SubioInvariant, <1>1, PTL DEF Spec, ZeroedWhenSilent
=============================================================================
