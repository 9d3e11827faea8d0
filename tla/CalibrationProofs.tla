------------------------- MODULE CalibrationProofs -------------------------
(***************************************************************************)
(* What the flags of the calibration guarantee, for any set of groups.     *)
(***************************************************************************)
EXTENDS Calibration, TLAPS

\* The whole table is of the right type after a pass has stored a value.
LEMMA MeasureType ==
    ASSUME conv \in Table, NEW end \in {"low", "high"}
    PROVE  Measure(end) \in Table
  BY DEF Measure, Table, Stamps

\* No table of values is mistaken for a file that was cut short.
LEMMA CutShort == Cut \notin Table /\ Cleared \in Table
  BY CalibrationAssumption DEF Cut, Cleared, Table, Stamps

LEMMA CalInitial == Init => PairInv
  <1> SUFFICES ASSUME Init PROVE PairInv
    OBVIOUS
  <1>1. TypeOK
    BY CalibrationAssumption DEF Init, TypeOK, Table, Stamps
  <1>2. Handshake /\ OrderInv
    BY <1>1, CutShort DEF TypeOK, Init, Handshake, OrderInv, Measuring
  <1>3. JptPairs /\ HalfInv
    BY DEF Init, JptPairs, HalfInv
  <1> QED
    BY <1>1, <1>2, <1>3 DEF PairInv, HandshakeInv

\* The two threads keep the flags to their protocol.
LEMMA HandshakeStep == HandshakeInv /\ [Next]_vars => HandshakeInv'
  <1> SUFFICES ASSUME HandshakeInv, [Next]_vars PROVE HandshakeInv'
    OBVIOUS
  <1> USE DEF HandshakeInv, Handshake, Measuring, Orders, Types
  <1>1. CASE Load
    BY <1>1 DEF Load, TypeOK, command, NoOrder
  <1>2. CASE CalInit
    BY <1>2, CutShort DEF CalInit, TypeOK, command, shared
  <1>3. CASE Save
    BY <1>3 DEF Save, TypeOK, command, shared
  <1>4. ASSUME NEW type \in Types, NEW g \in Groups, Order(type, g)
        PROVE  HandshakeInv'
    BY <1>4 DEF Order, TypeOK, data, shared
  <1>5. CASE SetStatus
    BY <1>5 DEF SetStatus, TypeOK, data, NoOrder
  <1>6. CASE Return
    BY <1>6 DEF Return, TypeOK, data, shared, NoOrder
  <1>7. CASE Scan \/ ScanDone \/ Hold \/ HoldDone \/ BeginPass \/ BeginHigh
    BY <1>7 DEF Scan, ScanDone, Hold, HoldDone, BeginPass, BeginHigh, TypeOK,
                data, shared, command
  <1>8. CASE PassDone
    BY <1>8 DEF PassDone, TypeOK, data, command
  <1>9. CASE LowDone
    BY <1>9, MeasureType DEF LowDone, TypeOK, command
  <1>10. CASE HighDone
    BY <1>10, MeasureType DEF HighDone, TypeOK, command
  <1>11. CASE Restart \/ RestartRefused \/ Removed
    BY <1>11, CalibrationAssumption, CutShort
    DEF Restart, RestartRefused, Removed, StartWith, TypeOK, NoOrder
  <1>12. CASE SaveDone
    BY <1>12, CutShort DEF SaveDone, TypeOK, shared
  <1>13. CASE UNCHANGED vars
    BY <1>13 DEF vars, TypeOK
  <1> QED
    BY <1>1, <1>2, <1>3, <1>4, <1>5, <1>6, <1>7, <1>8, <1>9, <1>10, <1>11, <1>12,
       <1>13
    DEF Next, CommandStep, PointStep

\* An order is the one the status asks for, and after a first pass the same.
LEMMA OrderStep == HandshakeInv /\ OrderInv /\ [Next]_vars => OrderInv'
  <1> SUFFICES ASSUME HandshakeInv, OrderInv, [Next]_vars PROVE OrderInv'
    OBVIOUS
  <1> USE DEF HandshakeInv, Handshake, OrderInv, Measuring
  <1>1. CASE Load \/ CalInit \/ Save \/ SaveDone
    BY <1>1 DEF Load, CalInit, Save, SaveDone, Obeys, NoOrder, command, shared
  <1>2. ASSUME NEW type \in Types, NEW g \in Groups, Order(type, g)
        PROVE  OrderInv'
    BY <1>2 DEF Order, Obeys, data, shared, TypeOK
  <1>3. CASE SetStatus
    BY <1>3 DEF SetStatus, data, Orders, Types
  <1>4. CASE Return
    BY <1>4 DEF Return, data, shared
  <1>5. CASE Scan \/ ScanDone \/ Hold \/ HoldDone \/ BeginPass \/ BeginHigh
    BY <1>5 DEF Scan, ScanDone, Hold, HoldDone, BeginPass, BeginHigh,
                data, shared, command
  <1>6. CASE PassDone \/ LowDone \/ HighDone
    BY <1>6 DEF PassDone, LowDone, HighDone, data, command
  <1>7. CASE Restart \/ RestartRefused \/ Removed
    BY <1>7 DEF Restart, RestartRefused, Removed, StartWith, Cleared
  <1>8. CASE UNCHANGED vars
    BY <1>8 DEF vars
  <1> QED
    BY <1>1, <1>2, <1>3, <1>4, <1>5, <1>6, <1>7, <1>8
    DEF Next, CommandStep, PointStep

\* No step leaves a JPT half calibrated but the two passes of the group itself.
LEMMA PairStep ==
    ASSUME FollowsScreen, PairInv, [Next]_vars
    PROVE  (JptPairs /\ HalfInv)'
  <1> USE DEF PairInv, HandshakeInv, Handshake, OrderInv, JptPairs, HalfInv, Measuring
  <1>1. CASE Load
    BY <1>1 DEF Load, Obeys, command
  <1>2. CASE CalInit
    BY <1>2 DEF CalInit, Cleared, Obeys, command, shared
  <1>3. CASE Save
    BY <1>3 DEF Save, Cut, Obeys, command, shared
  <1>4. ASSUME NEW type \in Types, NEW g \in Groups, Order(type, g)
        PROVE  (JptPairs /\ HalfInv)'
    BY <1>4 DEF Order, data, shared
  <1>5. CASE SetStatus
    BY <1>5 DEF SetStatus, data
  <1>6. CASE Return
    BY <1>6 DEF Return, data, shared
  <1>7. CASE Scan \/ ScanDone \/ Hold \/ HoldDone \/ BeginPass \/ BeginHigh
    BY <1>7 DEF Scan, ScanDone, Hold, HoldDone, BeginPass, BeginHigh,
                data, shared, command
  <1>8. CASE PassDone
    BY <1>8 DEF PassDone, data, command
  <1>9. CASE LowDone
    BY <1>9 DEF LowDone, Measure, TypeOK, Table, command
  <1>10. CASE HighDone
    BY <1>10 DEF HighDone, Measure, TypeOK, Table, command
  <1>11. CASE Restart \/ RestartRefused \/ Removed
    BY <1>11 DEF Restart, RestartRefused, Removed, StartWith, Cleared
  <1>12. CASE SaveDone
    BY <1>12 DEF SaveDone, NoOrder, shared
  <1>13. CASE UNCHANGED vars
    BY <1>13 DEF vars
  <1> QED
    BY <1>1, <1>2, <1>3, <1>4, <1>5, <1>6, <1>7, <1>8, <1>9, <1>10, <1>11, <1>12,
       <1>13
    DEF Next, CommandStep, PointStep

(* The inductive invariant of the calibration holds, whoever types what.   *)
THEOREM CalibrationInvariant == Spec => []PairInv
  <1>1. PairInv /\ [Next]_vars => PairInv'
    <2> SUFFICES ASSUME PairInv, [Next]_vars PROVE PairInv'
      OBVIOUS
    <2>1. HandshakeInv' /\ OrderInv'
      BY HandshakeStep, OrderStep DEF PairInv
    <2>2. FollowsScreen => (JptPairs /\ HalfInv)'
      BY PairStep
    <2> QED
      BY <2>1, <2>2 DEF PairInv
  <1> QED
    BY CalInitial, <1>1, PTL DEF Spec

(* The flags, the tables and the two threads always have their types, and  *)
(* a pass runs only while the command thread waits for it.                 *)
THEOREM CommandWaits == Spec => []HandshakeInv
  BY CalibrationInvariant, PTL DEF PairInv

(* Neither the status, nor the group, nor the table changes under a pass.  *)
THEOREM Undisturbed == Spec => PassUndisturbed
  <1>1. HandshakeInv /\ [Next]_vars
          => [(pnt \in Measuring /\ pnt' = pnt) => UNCHANGED <<status, grp, conv>>]_vars
    <2> SUFFICES ASSUME HandshakeInv, Next, pnt \in Measuring, pnt' = pnt
                 PROVE  UNCHANGED <<status, grp, conv>>
      OBVIOUS
    <2> QED
      BY DEF HandshakeInv, TypeOK, Handshake, Measuring, Next, CommandStep, PointStep, Load,
             CalInit, Save, Order, SetStatus, Return, Scan, ScanDone, Hold,
             HoldDone, BeginPass, PassDone, LowDone, BeginHigh, HighDone,
             SaveDone, Restart, RestartRefused, Removed, StartWith, shared, data, command
  <1> QED
    BY CommandWaits, <1>1, PTL DEF Spec, PassUndisturbed

(* An operator who follows the screen leaves no JPT half calibrated.       *)
THEOREM Pairs ==
    ASSUME FollowsScreen
    PROVE  Spec => []JptPairs
  <1>1. PairInv => JptPairs
    BY DEF PairInv
  <1> QED
    BY CalibrationInvariant, <1>1, PTL
=============================================================================
