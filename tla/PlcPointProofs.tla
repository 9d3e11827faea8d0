--------------------------- MODULE PlcPointProofs ---------------------------
(***************************************************************************)
(* What holds of a point of the power station program for any stations,    *)
(* descriptors, values and number of events, and of its descriptors for    *)
(* any number of them and any stations.                                    *)
(***************************************************************************)
EXTENDS MCPower, TLAPS, FiniteSetTheorems, WellFoundedInduction

\* Only digital points are compared, and only setpoints shown after a write;
\* nobody commands a digital input.
KindInv == /\ plc.at \in {"compare", "keep"} => kind \in Digital
           /\ plc.at \in {"show", "flag"} => kind = "AO"
           /\ plc.at = "zero_prev" => val = 0
           /\ cmd.fields # << >> => kind # "DI"

\* PrevVal of a digital point is its value but for the two statements that
\* tell them apart and for the command server.
PrevInv == kind \in Digital /\ ~cleared /\ plc.at \notin {"compare", "keep", "zero_prev"} => prevVal = val

\* The thread that holds the mutex has a connection, connections have a
\* descriptor each, and who has none was sent nothing.
SockInv == /\ dnp.at # "idle" => dnp.who \in Connected
           /\ dnp.at = "idle" => dnp.who = None
           /\ \A c, d \in Connected : sock[c] = sock[d] => c = d
           /\ \A c \in Clients : sock[c] = None => view[c] = Unknown

\* The stations know of v or will be told.
Known(v) == \A c \in Connected : view[c] \in {Unknown, v} \/ Due(c) \/ c \in missed

\* They know of the value, also while it is compared if it has not changed.
NewsInv == \/ Known(val)
           \/ plc.at \in {"flag", "zero_val"}
           \/ plc.at = "compare" /\ (val # prevVal \/ cleared)

\* A command that was taken is being written.
FateInv == fate = "taken" => plc.at \in {"request", "clear"}

PlcInv == /\ TypeOK /\ KindInv /\ PrevInv /\ SockInv /\ NewsInv /\ FateInv
          /\ CommandKept

USE DEF vars, record, station, told, ordered

\* The end of a turn leaves the PLC thread's record one.
LEMMA DoneTyped == plc \in PlcThreads /\ Done => plc' \in PlcThreads
<1> SUFFICES ASSUME plc \in PlcThreads, Done PROVE plc' \in PlcThreads
  OBVIOUS
<1>1. After[plc.turn] \in Turns
  <2>1. plc.turn \in Turns
    BY DEF PlcThreads
  <2>2. /\ After["DI"] = "DO" /\ After["DO"] = "AI"
        /\ After["AI"] = "AO" /\ After["AO"] = "DI"
    BY Zenon DEF After
  <2> QED
    BY <2>1, <2>2, Zenon DEF Turns
<1>2. "read" \in States /\ "close" \in States /\ "DI" \in Turns
  BY DEF States, Turns
<1>3. 0 \in Values
  BY PointAssumption
<1>4. CASE plc.ok
  <2>1. plc' = [plc EXCEPT !.at = "read", !.turn = After[plc.turn], !.taken = 0]
    BY <1>4, Zenon DEF Done
  <2> QED
    BY <1>1, <1>2, <1>3, <2>1, Zenon DEF PlcThreads
<1>5. CASE ~plc.ok
  <2>1. plc' = [plc EXCEPT !.at = "close", !.turn = "DI", !.ok = TRUE, !.taken = 0]
    BY <1>5, Zenon DEF Done
  <2>2. TRUE \in BOOLEAN
    OBVIOUS
  <2> QED
    BY <1>2, <1>3, <2>1, <2>2, Zenon DEF PlcThreads
<1> QED
  BY <1>4, <1>5

LEMMA InitInv == Init => PlcInv
<1> SUFFICES ASSUME Init PROVE PlcInv
  OBVIOUS
<1> USE PointAssumption
<1>1. plc \in PlcThreads
  BY DEF Init, PlcThreads, States, Turns
<1>2. dnp \in DnpThreads /\ cmd \in Commands
  BY DEF Init, DnpThreads, Nothing, Unsols, Commands, Fields
<1>3. TypeOK
  <2>1. sock \in [Clients -> Descriptors \cup {None}] /\ view \in [Clients -> Values \cup {Unknown}]
    BY Zenon DEF Init
  <2>2. kind \in Kinds /\ missed \in SUBSET Clients /\ cleared \in BOOLEAN
    BY Zenon DEF Init
  <2>6. events \in 0 .. MaxEvents
    BY DEF Init
  <2>3. val \in Values /\ prevVal \in Values /\ wrVal \in Values /\ held \in Values
    BY DEF Init
  <2>4. unsol \in Unsols /\ wrFlag \in {0, 1} /\ link \in {0, 1}
    BY DEF Init, Unsols
  <2>5. order \in Values \cup {None} /\ fate \in {"none", "waiting", "taken"}
    BY DEF Init
  <2> QED
    BY <1>1, <1>2, <2>1, <2>2, <2>3, <2>4, <2>5, <2>6, Zenon DEF TypeOK
<1>4. Connected = {}
  BY DEF Init, Connected
<1> QED
  BY <1>3, <1>4 DEF Init, PlcInv, KindInv, PrevInv, SockInv, NewsInv, Known, FateInv,
     CommandKept,
                    HalfWay, Nothing

LEMMA PlcKeepsInv == PlcInv /\ PlcStep => PlcInv'
<1> SUFFICES ASSUME PlcInv, PlcStep PROVE PlcInv'
  OBVIOUS
<1> USE PointAssumption DEF At, Go, DnpAt, Done, Lose, After, Count
<1>a. 0 \in Values /\ 1 \in Values /\ 0 \in 0 .. Retries /\ 0 \in Unsols /\ 1 \in Unsols
  BY DEF Unsols
<1>f. /\ kind' = kind /\ sock' = sock /\ view' = view /\ link' = link
      /\ dnp' = dnp /\ cmd' = cmd /\ events' = events
  BY DEF PlcStep
<1>h. held' \in Values
  <2>1. plc.taken \in Values
    BY DEF PlcInv, TypeOK, PlcThreads
  <2>2. CASE Write
    BY <2>1, <2>2 DEF Write, PlcInv, TypeOK
  <2> QED
    BY <2>2 DEF PlcStep, PlcInv, TypeOK
<1>d. Done => plc' \in PlcThreads
  BY DoneTyped, Zenon DEF PlcInv, TypeOK
<1>p. \A v : Apart(v) \in SUBSET Clients
  BY Zenon DEF Apart
<1>1. plc' \in PlcThreads
  <2>1. CASE ConnectPlc
    BY <2>1, <1>a, Zenon DEF PlcInv, TypeOK, PlcThreads, States, Turns, Ordered, ConnectPlc
  <2>2. CASE ConnectFails
    <3>1. plc \in PlcThreads /\ plc.fails \in 0 .. Retries
      BY DEF PlcInv, TypeOK, PlcThreads
    <3>2. plc.fails < Retries => plc.fails + 1 \in 0 .. Retries
      BY <3>1
    <3>3. \/ \E f \in 0 .. Retries : plc' = [plc EXCEPT !.fails = f]
          \/ plc' = [plc EXCEPT !.at = "zero_unsol", !.fails = 0]
      BY <1>a, <2>2, <3>2, Zenon DEF ConnectFails
    <3>4. "zero_unsol" \in States
      BY DEF States
    <3> QED
      BY <1>a, <3>1, <3>3, <3>4, Zenon DEF PlcThreads
  <2>3. CASE ReadOthers
    BY <2>3, <1>a, Zenon DEF PlcInv, TypeOK, PlcThreads, States, Turns, Ordered, ReadOthers
  <2>4. CASE ReadDigital
    BY <2>4, <1>a, Zenon DEF PlcInv, TypeOK, PlcThreads, States, Turns, Ordered, ReadDigital
  <2>5. CASE Compare
    BY <2>5, <1>a, Zenon DEF PlcInv, TypeOK, PlcThreads, States, Turns, Ordered, Compare
  <2>6. CASE Keep
    BY <2>6, <1>a, Zenon DEF PlcInv, TypeOK, PlcThreads, States, Turns, Ordered, Keep
  <2>7. CASE ReadAnalog
    BY <2>7, <1>a, Zenon DEF PlcInv, TypeOK, PlcThreads, States, Turns, Ordered, ReadAnalog
  <2>8. CASE Take
    BY <2>8, <1>a, Zenon DEF PlcInv, TypeOK, PlcThreads, States, Turns, Ordered, Take
  <2>9. CASE TakeNothing
    BY <2>9, <1>d, Zenon DEF TakeNothing
  <2>10. CASE Clear
    <3>1. CASE kind = "AO"
      <4>1. plc \in PlcThreads /\ "show" \in States
        BY Zenon DEF PlcInv, TypeOK, States
      <4>2. plc' = [plc EXCEPT !.at = "show", !.taken = 0]
        BY <2>10, <3>1, Zenon DEF Clear
      <4> QED
        BY <1>a, <4>1, <4>2, Zenon DEF PlcThreads
    <3>2. CASE kind # "AO"
      BY <1>d, <2>10, <3>2, Zenon DEF Clear
    <3> QED
      BY <3>1, <3>2
  <2>11. CASE Show
    BY <2>11, <1>a, Zenon DEF PlcInv, TypeOK, PlcThreads, States, Turns, Ordered, Show
  <2>12. CASE Flag
    BY <2>12, <1>d, Zenon DEF Flag
  <2>13. CASE Close
    BY <2>13, <1>a, Zenon DEF PlcInv, TypeOK, PlcThreads, States, Turns, Ordered, Close
  <2>14. CASE Write
    BY <2>14, <1>a, Zenon DEF PlcInv, TypeOK, PlcThreads, States, Turns, Ordered, Write
  <2>15. CASE DefineUnsol
    BY <2>15, <1>a, Zenon DEF PlcInv, TypeOK, PlcThreads, States, Turns, Ordered, DefineUnsol
  <2>16. CASE DefineVal
    BY <2>16, <1>a, Zenon DEF PlcInv, TypeOK, PlcThreads, States, Turns, Ordered, DefineVal
  <2>17. CASE DefinePrev
    BY <2>17, <1>a, Zenon DEF PlcInv, TypeOK, PlcThreads, States, Turns, Ordered, DefinePrev
  <2>18. CASE DefineFlag
    BY <2>18, <1>a, Zenon DEF PlcInv, TypeOK, PlcThreads, States, Turns, Ordered, DefineFlag
  <2> QED
    BY <2>1, <2>2, <2>3, <2>4, <2>5, <2>6, <2>7, <2>8, <2>9, <2>10, <2>11, <2>12, <2>13,
       <2>14, <2>15, <2>16, <2>17, <2>18, Zenon DEF PlcStep
<1>2. TypeOK'
  <2>1. CASE ConnectPlc
    BY <2>1, <1>f, <1>h, <1>1, SMT DEF PlcInv, TypeOK, SockInv, Connected, Kinds, Unsols,
       Digital, Nothing, ConnectPlc
  <2>2. CASE ConnectFails
    BY <2>2, <1>f, <1>h, <1>1, SMT DEF PlcInv, TypeOK, SockInv, Connected, Kinds, Unsols,
       Digital, Nothing, ConnectFails
  <2>3. CASE ReadOthers
    BY <2>3, <1>f, <1>h, <1>1, SMT DEF PlcInv, TypeOK, SockInv, Connected, Kinds, Unsols,
       Digital, Nothing, ReadOthers
  <2>4. CASE ReadDigital
    BY <2>4, <1>f, <1>h, <1>1, SMT DEF PlcInv, TypeOK, SockInv, Connected, Kinds, Unsols,
       Digital, Nothing, ReadDigital
  <2>5. CASE Compare
    <3>1. missed' \in SUBSET Clients
      BY <1>p, <2>5, SMT DEF PlcInv, TypeOK, Compare
    <3> QED
      BY <1>f, <1>h, <1>1, <1>a, <2>5, <3>1, SMT DEF PlcInv, TypeOK, Compare
  <2>6. CASE Keep
    <3>1. cleared' \in BOOLEAN
      BY <2>6, Zenon DEF Keep
    <3> QED
      BY <1>f, <1>h, <1>1, <2>6, <3>1, SMT DEF PlcInv, TypeOK, Keep
  <2>7. CASE ReadAnalog
    <3>1. missed' \in SUBSET Clients
      BY <1>p, <2>7, SMT DEF PlcInv, TypeOK, ReadAnalog
    <3> QED
      BY <1>f, <1>h, <1>1, <1>a, <2>7, <3>1, SMT DEF PlcInv, TypeOK, ReadAnalog
  <2>8. CASE Take
    BY <2>8, <1>f, <1>h, <1>1, SMT DEF PlcInv, TypeOK, SockInv, Connected, Kinds, Unsols,
       Digital, Nothing, Take
  <2>9. CASE TakeNothing
    BY <2>9, <1>f, <1>h, <1>1, SMT DEF PlcInv, TypeOK, SockInv, Connected, Kinds, Unsols,
       Digital, Nothing, TakeNothing
  <2>10. CASE Clear
    BY <2>10, <1>f, <1>h, <1>1, SMT DEF PlcInv, TypeOK, SockInv, Connected, Kinds,
       Unsols, Digital, Nothing, Clear
  <2>11. CASE Show
    BY <2>11, <1>f, <1>h, <1>1, SMT DEF PlcInv, TypeOK, SockInv, Connected, Kinds,
       Unsols, Digital, Nothing, Show
  <2>12. CASE Flag
    BY <2>12, <1>f, <1>h, <1>1, SMT DEF PlcInv, TypeOK, SockInv, Connected, Kinds,
       Unsols, Digital, Nothing, Flag
  <2>13. CASE Close
    BY <2>13, <1>f, <1>h, <1>1, SMT DEF PlcInv, TypeOK, SockInv, Connected, Kinds,
       Unsols, Digital, Nothing, Close
  <2>14. CASE Write
    BY <2>14, <1>f, <1>h, <1>1, SMT DEF PlcInv, TypeOK, SockInv, Connected, Kinds,
       Unsols, Digital, Nothing, Write
  <2>15. CASE DefineUnsol
    BY <2>15, <1>f, <1>h, <1>1, SMT DEF PlcInv, TypeOK, SockInv, Connected, Kinds,
       Unsols, Digital, Nothing, DefineUnsol
  <2>16. CASE DefineVal
    <3>1. missed' \in SUBSET Clients
      BY <1>p, <2>16, SMT DEF PlcInv, TypeOK, DefineVal
    <3> QED
      BY <1>f, <1>h, <1>1, <1>a, <2>16, <3>1, SMT DEF PlcInv, TypeOK, DefineVal
  <2>17. CASE DefinePrev
    BY <2>17, <1>f, <1>h, <1>1, SMT DEF PlcInv, TypeOK, SockInv, Connected, Kinds,
       Unsols, Digital, Nothing, DefinePrev
  <2>18. CASE DefineFlag
    BY <2>18, <1>f, <1>h, <1>1, SMT DEF PlcInv, TypeOK, SockInv, Connected, Kinds,
       Unsols, Digital, Nothing, DefineFlag
  <2> QED
    BY <2>1, <2>2, <2>3, <2>4, <2>5, <2>6, <2>7, <2>8, <2>9, <2>10, <2>11, <2>12, <2>13,
       <2>14, <2>15, <2>16, <2>17, <2>18, Zenon DEF PlcStep
<1>3. KindInv'
  <2>1. CASE ConnectPlc
    BY <2>1, <1>f, <1>h, SMT DEF PlcInv, TypeOK, KindInv, Digital, PlcThreads, ConnectPlc
  <2>2. CASE ConnectFails
    BY <2>2, <1>f, <1>h, SMT DEF PlcInv, TypeOK, KindInv, Digital, PlcThreads, ConnectFails
  <2>3. CASE ReadOthers
    BY <2>3, <1>f, <1>h, SMT DEF PlcInv, TypeOK, KindInv, Digital, PlcThreads, ReadOthers
  <2>4. CASE ReadDigital
    BY <2>4, <1>f, <1>h, SMT DEF PlcInv, TypeOK, KindInv, Digital, PlcThreads, ReadDigital
  <2>5. CASE Compare
    BY <2>5, <1>f, <1>h, SMT DEF PlcInv, TypeOK, KindInv, Digital, PlcThreads, Compare
  <2>6. CASE Keep
    BY <2>6, <1>f, <1>h, SMT DEF PlcInv, TypeOK, KindInv, Digital, PlcThreads, Keep
  <2>7. CASE ReadAnalog
    BY <2>7, <1>f, <1>h, SMT DEF PlcInv, TypeOK, KindInv, Digital, PlcThreads, ReadAnalog
  <2>8. CASE Take
    BY <2>8, <1>f, <1>h, SMT DEF PlcInv, TypeOK, KindInv, Digital, PlcThreads, Take
  <2>9. CASE TakeNothing
    BY <2>9, <1>f, <1>h, SMT DEF PlcInv, TypeOK, KindInv, Digital, PlcThreads, TakeNothing
  <2>10. CASE Clear
    <3>1. CASE kind = "AO"
      <4>1. plc' = [plc EXCEPT !.at = "show", !.taken = 0]
        BY <2>10, <3>1, Zenon DEF Clear
      <4>2. plc'.at = "show"
        BY <4>1 DEF PlcInv, TypeOK, PlcThreads
      <4> QED
        BY <1>f, <3>1, <4>2 DEF PlcInv, KindInv
    <3>2. CASE kind # "AO"
      <4>1. Done
        BY <2>10, <3>2, Zenon DEF Clear
      <4>2. plc'.at \in {"read", "close"}
        BY <4>1 DEF PlcInv, TypeOK, PlcThreads
      <4> QED
        BY <1>f, <4>2 DEF PlcInv, KindInv
    <3> QED
      BY <3>1, <3>2
  <2>11. CASE Show
    BY <2>11, <1>f, <1>h, SMT DEF PlcInv, TypeOK, KindInv, Digital, PlcThreads, Show
  <2>12. CASE Flag
    BY <2>12, <1>f, <1>h, SMT DEF PlcInv, TypeOK, KindInv, Digital, PlcThreads, Flag
  <2>13. CASE Close
    BY <2>13, <1>f, <1>h, SMT DEF PlcInv, TypeOK, KindInv, Digital, PlcThreads, Close
  <2>14. CASE Write
    BY <2>14, <1>f, <1>h, SMT DEF PlcInv, TypeOK, KindInv, Digital, PlcThreads, Write
  <2>15. CASE DefineUnsol
    BY <2>15, <1>f, <1>h, SMT DEF PlcInv, TypeOK, KindInv, Digital, PlcThreads, DefineUnsol
  <2>16. CASE DefineVal
    BY <2>16, <1>f, <1>h, SMT DEF PlcInv, TypeOK, KindInv, Digital, PlcThreads, DefineVal
  <2>17. CASE DefinePrev
    BY <2>17, <1>f, <1>h, SMT DEF PlcInv, TypeOK, KindInv, Digital, PlcThreads, DefinePrev
  <2>18. CASE DefineFlag
    BY <2>18, <1>f, <1>h, SMT DEF PlcInv, TypeOK, KindInv, Digital, PlcThreads, DefineFlag
  <2> QED
    BY <2>1, <2>2, <2>3, <2>4, <2>5, <2>6, <2>7, <2>8, <2>9, <2>10, <2>11, <2>12, <2>13,
       <2>14, <2>15, <2>16, <2>17, <2>18, Zenon DEF PlcStep
<1>4. PrevInv'
  <2>1. CASE ConnectPlc
    BY <2>1, <1>f, <1>h, SMT DEF PlcInv, TypeOK, PrevInv, Digital, KindInv, PlcThreads,
       ConnectPlc
  <2>2. CASE ConnectFails
    BY <2>2, <1>f, <1>h, SMT DEF PlcInv, TypeOK, PrevInv, Digital, KindInv, PlcThreads,
       ConnectFails
  <2>3. CASE ReadOthers
    BY <2>3, <1>f, <1>h, SMT DEF PlcInv, TypeOK, PrevInv, Digital, KindInv, PlcThreads,
       ReadOthers
  <2>4. CASE ReadDigital
    BY <2>4, <1>f, <1>h, SMT DEF PlcInv, TypeOK, PrevInv, Digital, KindInv, PlcThreads,
       ReadDigital
  <2>5. CASE Compare
    BY <2>5, <1>f, <1>h, SMT DEF PlcInv, TypeOK, PrevInv, Digital, KindInv, PlcThreads,
       Compare
  <2>6. CASE Keep
    BY <2>6, <1>f, <1>h, SMT DEF PlcInv, TypeOK, PrevInv, Digital, KindInv, PlcThreads, Keep
  <2>7. CASE ReadAnalog
    BY <2>7, <1>f, <1>h, SMT DEF PlcInv, TypeOK, PrevInv, Digital, KindInv, PlcThreads,
       ReadAnalog
  <2>8. CASE Take
    BY <2>8, <1>f, <1>h, SMT DEF PlcInv, TypeOK, PrevInv, Digital, KindInv, PlcThreads, Take
  <2>9. CASE TakeNothing
    BY <2>9, <1>f, <1>h, SMT DEF PlcInv, TypeOK, PrevInv, Digital, KindInv, PlcThreads,
       TakeNothing
  <2>10. CASE Clear
    BY <2>10, <1>f, <1>h, SMT DEF PlcInv, TypeOK, PrevInv, Digital, KindInv, PlcThreads,
       Clear
  <2>11. CASE Show
    BY <2>11, <1>f, <1>h, SMT DEF PlcInv, TypeOK, PrevInv, Digital, KindInv, PlcThreads,
       Show
  <2>12. CASE Flag
    BY <2>12, <1>f, <1>h, SMT DEF PlcInv, TypeOK, PrevInv, Digital, KindInv, PlcThreads,
       Flag
  <2>13. CASE Close
    BY <2>13, <1>f, <1>h, SMT DEF PlcInv, TypeOK, PrevInv, Digital, KindInv, PlcThreads,
       Close
  <2>14. CASE Write
    BY <2>14, <1>f, <1>h, SMT DEF PlcInv, TypeOK, PrevInv, Digital, KindInv, PlcThreads,
       Write
  <2>15. CASE DefineUnsol
    BY <2>15, <1>f, <1>h, SMT DEF PlcInv, TypeOK, PrevInv, Digital, KindInv, PlcThreads,
       DefineUnsol
  <2>16. CASE DefineVal
    BY <2>16, <1>f, <1>h, SMT DEF PlcInv, TypeOK, PrevInv, Digital, KindInv, PlcThreads,
       DefineVal
  <2>17. CASE DefinePrev
    BY <2>17, <1>f, <1>h, SMT DEF PlcInv, TypeOK, PrevInv, Digital, KindInv, PlcThreads,
       DefinePrev
  <2>18. CASE DefineFlag
    BY <2>18, <1>f, <1>h, SMT DEF PlcInv, TypeOK, PrevInv, Digital, KindInv, PlcThreads,
       DefineFlag
  <2> QED
    BY <2>1, <2>2, <2>3, <2>4, <2>5, <2>6, <2>7, <2>8, <2>9, <2>10, <2>11, <2>12, <2>13,
       <2>14, <2>15, <2>16, <2>17, <2>18, Zenon DEF PlcStep
<1>5. SockInv'
  <2>1. CASE ConnectPlc
    BY <2>1, <1>f, <1>h, SMT DEF PlcInv, TypeOK, SockInv, Connected, Nothing, PlcThreads,
       ConnectPlc
  <2>2. CASE ConnectFails
    BY <2>2, <1>f, <1>h, SMT DEF PlcInv, TypeOK, SockInv, Connected, Nothing, PlcThreads,
       ConnectFails
  <2>3. CASE ReadOthers
    BY <2>3, <1>f, <1>h, SMT DEF PlcInv, TypeOK, SockInv, Connected, Nothing, PlcThreads,
       ReadOthers
  <2>4. CASE ReadDigital
    BY <2>4, <1>f, <1>h, SMT DEF PlcInv, TypeOK, SockInv, Connected, Nothing, PlcThreads,
       ReadDigital
  <2>5. CASE Compare
    BY <2>5, <1>f, <1>h, SMT DEF PlcInv, TypeOK, SockInv, Connected, Nothing, PlcThreads,
       Compare
  <2>6. CASE Keep
    BY <2>6, <1>f, <1>h, SMT DEF PlcInv, TypeOK, SockInv, Connected, Nothing, PlcThreads,
       Keep
  <2>7. CASE ReadAnalog
    BY <2>7, <1>f, <1>h, SMT DEF PlcInv, TypeOK, SockInv, Connected, Nothing, PlcThreads,
       ReadAnalog
  <2>8. CASE Take
    BY <2>8, <1>f, <1>h, SMT DEF PlcInv, TypeOK, SockInv, Connected, Nothing, PlcThreads,
       Take
  <2>9. CASE TakeNothing
    BY <2>9, <1>f, <1>h, SMT DEF PlcInv, TypeOK, SockInv, Connected, Nothing, PlcThreads,
       TakeNothing
  <2>10. CASE Clear
    BY <2>10, <1>f, <1>h, SMT DEF PlcInv, TypeOK, SockInv, Connected, Nothing,
       PlcThreads, Clear
  <2>11. CASE Show
    BY <2>11, <1>f, <1>h, SMT DEF PlcInv, TypeOK, SockInv, Connected, Nothing,
       PlcThreads, Show
  <2>12. CASE Flag
    BY <2>12, <1>f, <1>h, SMT DEF PlcInv, TypeOK, SockInv, Connected, Nothing,
       PlcThreads, Flag
  <2>13. CASE Close
    BY <2>13, <1>f, <1>h, SMT DEF PlcInv, TypeOK, SockInv, Connected, Nothing,
       PlcThreads, Close
  <2>14. CASE Write
    BY <2>14, <1>f, <1>h, SMT DEF PlcInv, TypeOK, SockInv, Connected, Nothing,
       PlcThreads, Write
  <2>15. CASE DefineUnsol
    BY <2>15, <1>f, <1>h, SMT DEF PlcInv, TypeOK, SockInv, Connected, Nothing,
       PlcThreads, DefineUnsol
  <2>16. CASE DefineVal
    BY <2>16, <1>f, <1>h, SMT DEF PlcInv, TypeOK, SockInv, Connected, Nothing,
       PlcThreads, DefineVal
  <2>17. CASE DefinePrev
    BY <2>17, <1>f, <1>h, SMT DEF PlcInv, TypeOK, SockInv, Connected, Nothing,
       PlcThreads, DefinePrev
  <2>18. CASE DefineFlag
    BY <2>18, <1>f, <1>h, SMT DEF PlcInv, TypeOK, SockInv, Connected, Nothing,
       PlcThreads, DefineFlag
  <2> QED
    BY <2>1, <2>2, <2>3, <2>4, <2>5, <2>6, <2>7, <2>8, <2>9, <2>10, <2>11, <2>12, <2>13,
       <2>14, <2>15, <2>16, <2>17, <2>18, Zenon DEF PlcStep
<1>6. NewsInv'
  <2>1. CASE ConnectPlc
    BY <2>1, <1>f, <1>h, SMT DEF PlcInv, TypeOK, NewsInv, Known, Connected, Due, Apart,
       AboutToFlag, PrevInv, SockInv, KindInv, Digital, PlcThreads, ConnectPlc
  <2>2. CASE ConnectFails
    BY <2>2, <1>f, <1>h, SMT DEF PlcInv, TypeOK, NewsInv, Known, Connected, Due, Apart,
       AboutToFlag, PrevInv, SockInv, KindInv, Digital, PlcThreads, ConnectFails
  <2>3. CASE ReadOthers
    BY <2>3, <1>f, <1>h, SMT DEF PlcInv, TypeOK, NewsInv, Known, Connected, Due, Apart,
       AboutToFlag, PrevInv, SockInv, KindInv, Digital, PlcThreads, ReadOthers
  <2>4. CASE ReadDigital
    BY <2>4, <1>f, <1>h, SMT DEF PlcInv, TypeOK, NewsInv, Known, Connected, Due, Apart,
       AboutToFlag, PrevInv, SockInv, KindInv, Digital, PlcThreads, ReadDigital
  <2>5. CASE Compare
    BY <2>5, <1>f, <1>h, SMT DEF PlcInv, TypeOK, NewsInv, Known, Connected, Due, Apart,
       AboutToFlag, PrevInv, SockInv, KindInv, Digital, PlcThreads, Compare
  <2>6. CASE Keep
    BY <2>6, <1>f, <1>h, SMT DEF PlcInv, TypeOK, NewsInv, Known, Connected, Due, Apart,
       AboutToFlag, PrevInv, SockInv, KindInv, Digital, PlcThreads, Keep
  <2>7. CASE ReadAnalog
    BY <2>7, <1>f, <1>h, SMT DEF PlcInv, TypeOK, NewsInv, Known, Connected, Due, Apart,
       AboutToFlag, PrevInv, SockInv, KindInv, Digital, PlcThreads, ReadAnalog
  <2>8. CASE Take
    BY <2>8, <1>f, <1>h, SMT DEF PlcInv, TypeOK, NewsInv, Known, Connected, Due, Apart,
       AboutToFlag, PrevInv, SockInv, KindInv, Digital, PlcThreads, Take
  <2>9. CASE TakeNothing
    BY <2>9, <1>f, <1>h, SMT DEF PlcInv, TypeOK, NewsInv, Known, Connected, Due, Apart,
       AboutToFlag, PrevInv, SockInv, KindInv, Digital, PlcThreads, TakeNothing
  <2>10. CASE Clear
    BY <2>10, <1>f, <1>h, SMT DEF PlcInv, TypeOK, NewsInv, Known, Connected, Due, Apart,
       AboutToFlag, PrevInv, SockInv, KindInv, Digital, PlcThreads, Clear
  <2>11. CASE Show
    BY <2>11, <1>f, <1>h, SMT DEF PlcInv, TypeOK, NewsInv, Known, Connected, Due, Apart,
       AboutToFlag, PrevInv, SockInv, KindInv, Digital, PlcThreads, Show
  <2>12. CASE Flag
    BY <2>12, <1>f, <1>h, SMT DEF PlcInv, TypeOK, NewsInv, Known, Connected, Due, Apart,
       AboutToFlag, PrevInv, SockInv, KindInv, Digital, PlcThreads, Flag
  <2>13. CASE Close
    BY <2>13, <1>f, <1>h, SMT DEF PlcInv, TypeOK, NewsInv, Known, Connected, Due, Apart,
       AboutToFlag, PrevInv, SockInv, KindInv, Digital, PlcThreads, Close
  <2>14. CASE Write
    BY <2>14, <1>f, <1>h, SMT DEF PlcInv, TypeOK, NewsInv, Known, Connected, Due, Apart,
       AboutToFlag, PrevInv, SockInv, KindInv, Digital, PlcThreads, Write
  <2>15. CASE DefineUnsol
    BY <2>15, <1>f, <1>h, SMT DEF PlcInv, TypeOK, NewsInv, Known, Connected, Due, Apart,
       AboutToFlag, PrevInv, SockInv, KindInv, Digital, PlcThreads, DefineUnsol
  <2>16. CASE DefineVal
    BY <2>16, <1>f, <1>h, SMT DEF PlcInv, TypeOK, NewsInv, Known, Connected, Due, Apart,
       AboutToFlag, PrevInv, SockInv, KindInv, Digital, PlcThreads, DefineVal
  <2>17. CASE DefinePrev
    BY <2>17, <1>f, <1>h, SMT DEF PlcInv, TypeOK, NewsInv, Known, Connected, Due, Apart,
       AboutToFlag, PrevInv, SockInv, KindInv, Digital, PlcThreads, DefinePrev
  <2>18. CASE DefineFlag
    BY <2>18, <1>f, <1>h, SMT DEF PlcInv, TypeOK, NewsInv, Known, Connected, Due, Apart,
       AboutToFlag, PrevInv, SockInv, KindInv, Digital, PlcThreads, DefineFlag
  <2> QED
    BY <2>1, <2>2, <2>3, <2>4, <2>5, <2>6, <2>7, <2>8, <2>9, <2>10, <2>11, <2>12, <2>13,
       <2>14, <2>15, <2>16, <2>17, <2>18, Zenon DEF PlcStep
<1>7. FateInv'
  <2>1. CASE ConnectPlc
    BY <2>1, <1>f, <1>h, SMT DEF PlcInv, TypeOK, FateInv, PlcThreads, ConnectPlc
  <2>2. CASE ConnectFails
    BY <2>2, <1>f, <1>h, SMT DEF PlcInv, TypeOK, FateInv, PlcThreads, ConnectFails
  <2>3. CASE ReadOthers
    BY <2>3, <1>f, <1>h, SMT DEF PlcInv, TypeOK, FateInv, PlcThreads, ReadOthers
  <2>4. CASE ReadDigital
    BY <2>4, <1>f, <1>h, SMT DEF PlcInv, TypeOK, FateInv, PlcThreads, ReadDigital
  <2>5. CASE Compare
    BY <2>5, <1>f, <1>h, SMT DEF PlcInv, TypeOK, FateInv, PlcThreads, Compare
  <2>6. CASE Keep
    BY <2>6, <1>f, <1>h, SMT DEF PlcInv, TypeOK, FateInv, PlcThreads, Keep
  <2>7. CASE ReadAnalog
    BY <2>7, <1>f, <1>h, SMT DEF PlcInv, TypeOK, FateInv, PlcThreads, ReadAnalog
  <2>8. CASE Take
    BY <2>8, <1>f, <1>h, SMT DEF PlcInv, TypeOK, FateInv, PlcThreads, Take
  <2>9. CASE TakeNothing
    BY <2>9, <1>f, <1>h, SMT DEF PlcInv, TypeOK, FateInv, PlcThreads, TakeNothing
  <2>10. CASE Clear
    BY <2>10, <1>f, <1>h, SMT DEF PlcInv, TypeOK, FateInv, PlcThreads, Clear
  <2>11. CASE Show
    BY <2>11, <1>f, <1>h, SMT DEF PlcInv, TypeOK, FateInv, PlcThreads, Show
  <2>12. CASE Flag
    BY <2>12, <1>f, <1>h, SMT DEF PlcInv, TypeOK, FateInv, PlcThreads, Flag
  <2>13. CASE Close
    BY <2>13, <1>f, <1>h, SMT DEF PlcInv, TypeOK, FateInv, PlcThreads, Close
  <2>14. CASE Write
    BY <2>14, <1>f, <1>h, SMT DEF PlcInv, TypeOK, FateInv, PlcThreads, Write
  <2>15. CASE DefineUnsol
    BY <2>15, <1>f, <1>h, SMT DEF PlcInv, TypeOK, FateInv, PlcThreads, DefineUnsol
  <2>16. CASE DefineVal
    BY <2>16, <1>f, <1>h, SMT DEF PlcInv, TypeOK, FateInv, PlcThreads, DefineVal
  <2>17. CASE DefinePrev
    BY <2>17, <1>f, <1>h, SMT DEF PlcInv, TypeOK, FateInv, PlcThreads, DefinePrev
  <2>18. CASE DefineFlag
    BY <2>18, <1>f, <1>h, SMT DEF PlcInv, TypeOK, FateInv, PlcThreads, DefineFlag
  <2> QED
    BY <2>1, <2>2, <2>3, <2>4, <2>5, <2>6, <2>7, <2>8, <2>9, <2>10, <2>11, <2>12, <2>13,
       <2>14, <2>15, <2>16, <2>17, <2>18, Zenon DEF PlcStep
<1>8. CommandKept'
  <2>1. CASE ConnectPlc
    BY <2>1, <1>f, <1>h, SMT DEF PlcInv, TypeOK, CommandKept, HalfWay, Ordered, FateInv,
       KindInv, Digital, PlcThreads, ConnectPlc
  <2>2. CASE ConnectFails
    BY <2>2, <1>f, <1>h, SMT DEF PlcInv, TypeOK, CommandKept, HalfWay, Ordered, FateInv,
       KindInv, Digital, PlcThreads, ConnectFails
  <2>3. CASE ReadOthers
    BY <2>3, <1>f, <1>h, SMT DEF PlcInv, TypeOK, CommandKept, HalfWay, Ordered, FateInv,
       KindInv, Digital, PlcThreads, ReadOthers
  <2>4. CASE ReadDigital
    BY <2>4, <1>f, <1>h, SMT DEF PlcInv, TypeOK, CommandKept, HalfWay, Ordered, FateInv,
       KindInv, Digital, PlcThreads, ReadDigital
  <2>5. CASE Compare
    BY <2>5, <1>f, <1>h, SMT DEF PlcInv, TypeOK, CommandKept, HalfWay, Ordered, FateInv,
       KindInv, Digital, PlcThreads, Compare
  <2>6. CASE Keep
    BY <2>6, <1>f, <1>h, SMT DEF PlcInv, TypeOK, CommandKept, HalfWay, Ordered, FateInv,
       KindInv, Digital, PlcThreads, Keep
  <2>7. CASE ReadAnalog
    BY <2>7, <1>f, <1>h, SMT DEF PlcInv, TypeOK, CommandKept, HalfWay, Ordered, FateInv,
       KindInv, Digital, PlcThreads, ReadAnalog
  <2>8. CASE Take
    BY <2>8, <1>f, <1>h, SMT DEF PlcInv, TypeOK, CommandKept, HalfWay, Ordered, FateInv,
       KindInv, Digital, PlcThreads, Take
  <2>9. CASE TakeNothing
    BY <2>9, <1>f, <1>h, SMT DEF PlcInv, TypeOK, CommandKept, HalfWay, Ordered, FateInv,
       KindInv, Digital, PlcThreads, TakeNothing
  <2>10. CASE Clear
    BY <2>10, <1>f, <1>h, SMT DEF PlcInv, TypeOK, CommandKept, HalfWay, Ordered, FateInv,
       KindInv, Digital, PlcThreads, Clear
  <2>11. CASE Show
    BY <2>11, <1>f, <1>h, SMT DEF PlcInv, TypeOK, CommandKept, HalfWay, Ordered, FateInv,
       KindInv, Digital, PlcThreads, Show
  <2>12. CASE Flag
    BY <2>12, <1>f, <1>h, SMT DEF PlcInv, TypeOK, CommandKept, HalfWay, Ordered, FateInv,
       KindInv, Digital, PlcThreads, Flag
  <2>13. CASE Close
    BY <2>13, <1>f, <1>h, SMT DEF PlcInv, TypeOK, CommandKept, HalfWay, Ordered, FateInv,
       KindInv, Digital, PlcThreads, Close
  <2>14. CASE Write
    BY <2>14, <1>f, <1>h, SMT DEF PlcInv, TypeOK, CommandKept, HalfWay, Ordered, FateInv,
       KindInv, Digital, PlcThreads, Write
  <2>15. CASE DefineUnsol
    BY <2>15, <1>f, <1>h, SMT DEF PlcInv, TypeOK, CommandKept, HalfWay, Ordered, FateInv,
       KindInv, Digital, PlcThreads, DefineUnsol
  <2>16. CASE DefineVal
    BY <2>16, <1>f, <1>h, SMT DEF PlcInv, TypeOK, CommandKept, HalfWay, Ordered, FateInv,
       KindInv, Digital, PlcThreads, DefineVal
  <2>17. CASE DefinePrev
    BY <2>17, <1>f, <1>h, SMT DEF PlcInv, TypeOK, CommandKept, HalfWay, Ordered, FateInv,
       KindInv, Digital, PlcThreads, DefinePrev
  <2>18. CASE DefineFlag
    BY <2>18, <1>f, <1>h, SMT DEF PlcInv, TypeOK, CommandKept, HalfWay, Ordered, FateInv,
       KindInv, Digital, PlcThreads, DefineFlag
  <2> QED
    BY <2>1, <2>2, <2>3, <2>4, <2>5, <2>6, <2>7, <2>8, <2>9, <2>10, <2>11, <2>12, <2>13,
       <2>14, <2>15, <2>16, <2>17, <2>18, Zenon DEF PlcStep
<1> QED
  BY <1>2, <1>3, <1>4, <1>5, <1>6, <1>7, <1>8 DEF PlcInv

LEMMA DnpKeepsInv == PlcInv /\ DnpStep => PlcInv'
<1> SUFFICES ASSUME PlcInv, DnpStep PROVE PlcInv'
  OBVIOUS
<1> USE PointAssumption DEF At, Go, DnpAt, Done, Lose, After, Count
<1>a. 0 \in Values /\ 1 \in Values /\ 0 \in 0 .. Retries /\ 0 \in Unsols /\ 1 \in Unsols
  BY DEF Unsols
<1>1. dnp' \in DnpThreads
  <2>1. CASE \E c \in Clients : Lock(c)
    <3>1. PICK c \in Clients : Lock(c)
      BY <2>1
    <3>2. PICK s \in {"due", "recv"} : dnp' = [dnp EXCEPT !.who = c, !.at = s]
      BY <3>1, Zenon DEF Lock
    <3> QED
      BY <3>2, Zenon DEF PlcInv, TypeOK, DnpThreads
  <2>2. CASE Copy
    BY <2>2, <1>a, Zenon DEF PlcInv, TypeOK, DnpThreads, Unsols, Nothing, Copy
  <2>3. CASE Look
    BY <2>3, <1>a, Zenon DEF PlcInv, TypeOK, DnpThreads, Unsols, Nothing, Look
  <2>4. CASE Mark
    BY <2>4, <1>a, Zenon DEF PlcInv, TypeOK, DnpThreads, Unsols, Nothing, Mark
  <2>5. CASE MarkBehind
    BY <2>5, <1>a, Zenon DEF PlcInv, TypeOK, DnpThreads, Unsols, Nothing, MarkBehind
  <2>6. CASE RecvNothing
    BY <2>6, <1>a, Zenon DEF PlcInv, TypeOK, DnpThreads, Unsols, Nothing, RecvNothing
  <2>7. CASE RecvEnd
    BY <2>7, <1>a, Zenon DEF PlcInv, TypeOK, DnpThreads, Unsols, Nothing, RecvEnd
  <2>8. CASE RecvReset
    BY <2>8, <1>a, Zenon DEF PlcInv, TypeOK, DnpThreads, Unsols, Nothing, RecvReset
  <2>9. CASE RecvRead
    BY <2>9, <1>a, Zenon DEF PlcInv, TypeOK, DnpThreads, Unsols, Nothing, RecvRead
  <2>10. CASE \E v \in Values : RecvOperate(v)
    <3>1. PICK v \in Values : dnp' = [dnp EXCEPT !.at = "flag", !.copied = v]
      BY <2>10, Zenon DEF RecvOperate
    <3> QED
      BY <3>1, Zenon DEF PlcInv, TypeOK, DnpThreads
  <2>11. CASE Operate
    BY <2>11, <1>a, Zenon DEF PlcInv, TypeOK, DnpThreads, Unsols, Nothing, Operate
  <2> QED
    BY <2>1, <2>2, <2>3, <2>4, <2>5, <2>6, <2>7, <2>8, <2>9, <2>10, <2>11, Zenon DEF DnpStep
<1>2. TypeOK'
  <2>1. CASE \E c \in Clients : Lock(c)
    BY <2>1, <1>1, SMT DEF PlcInv, TypeOK, SockInv, Connected, Kinds, Unsols, Digital,
       Nothing, Lock
  <2>2. CASE Copy
    BY <2>2, <1>1, SMT DEF PlcInv, TypeOK, SockInv, Connected, Kinds, Unsols, Digital,
       Nothing, Copy
  <2>3. CASE Look
    BY <2>3, <1>1, SMT DEF PlcInv, TypeOK, SockInv, Connected, Kinds, Unsols, Digital,
       Nothing, Look
  <2>4. CASE Mark
    <3>1. dnp.who \in Clients /\ sock[dnp.who] \in Descriptors /\ dnp.copied \in Values
      BY <2>4 DEF PlcInv, TypeOK, SockInv, Connected, DnpThreads, Mark
    <3>2. unsol' \in Unsols
      <4>1. sock[dnp.who] \in Nat
        BY <3>1
      <4>2. Stamp(sock[dnp.who]) \in 0 .. 255
        BY <4>1 DEF Stamp
      <4> QED
        BY <1>a, <2>4, <4>2, Zenon DEF Mark, Unsols
    <3>3. view' \in [Clients -> Values \cup {Unknown}]
      BY <2>4, <3>1 DEF PlcInv, TypeOK, Mark
    <3>4. missed' \in SUBSET Clients
      BY <2>4, <3>1, Zenon DEF PlcInv, TypeOK, Connected, Mark
    <3> QED
      BY <1>1, <2>4, <3>2, <3>3, <3>4, Zenon DEF PlcInv, TypeOK, Mark
  <2>5. CASE MarkBehind
    <3>1. dnp.who \in Clients /\ sock[dnp.who] \in Nat
      BY <2>5 DEF PlcInv, TypeOK, SockInv, Connected, DnpThreads, MarkBehind
    <3>2. unsol' \in Unsols
      <4>1. Stamp(sock[dnp.who]) \in 0 .. 255
        BY <3>1 DEF Stamp
      <4> QED
        BY <1>a, <2>5, <4>1, Zenon DEF MarkBehind, Unsols
    <3>3. missed' \in SUBSET Clients
      BY <2>5, <3>1, Zenon DEF PlcInv, TypeOK, Connected, MarkBehind
    <3> QED
      BY <1>1, <2>5, <3>2, <3>3, Zenon DEF PlcInv, TypeOK, MarkBehind
  <2>6. CASE RecvNothing
    BY <2>6, <1>1, SMT DEF PlcInv, TypeOK, SockInv, Connected, Kinds, Unsols, Digital,
       Nothing, RecvNothing
  <2>7. CASE RecvEnd
    BY <2>7, <1>1, SMT DEF PlcInv, TypeOK, SockInv, Connected, Kinds, Unsols, Digital,
       Nothing, RecvEnd
  <2>8. CASE RecvReset
    BY <2>8, <1>1, SMT DEF PlcInv, TypeOK, SockInv, Connected, Kinds, Unsols, Digital,
       Nothing, RecvReset
  <2>9. CASE RecvRead
    BY <2>9, <1>1, SMT DEF PlcInv, TypeOK, SockInv, Connected, Kinds, Unsols, Digital,
       Nothing, RecvRead
  <2>10. CASE \E v \in Values : RecvOperate(v)
    BY <2>10, <1>1, SMT DEF PlcInv, TypeOK, SockInv, Connected, Kinds, Unsols, Digital,
       Nothing, RecvOperate
  <2>11. CASE Operate
    <3>1. dnp.copied \in Values
      BY DEF PlcInv, TypeOK, DnpThreads
    <3> QED
      BY <1>1, <2>11, <3>1 DEF PlcInv, TypeOK, Operate
  <2> QED
    BY <2>1, <2>2, <2>3, <2>4, <2>5, <2>6, <2>7, <2>8, <2>9, <2>10, <2>11, Zenon DEF DnpStep
<1>3. KindInv'
  <2>1. CASE \E c \in Clients : Lock(c)
    BY <2>1, SMT DEF PlcInv, TypeOK, KindInv, Digital, DnpThreads, Lock
  <2>2. CASE Copy
    BY <2>2, SMT DEF PlcInv, TypeOK, KindInv, Digital, DnpThreads, Copy
  <2>3. CASE Look
    BY <2>3, SMT DEF PlcInv, TypeOK, KindInv, Digital, DnpThreads, Look
  <2>4. CASE Mark
    BY <2>4, SMT DEF PlcInv, TypeOK, KindInv, Digital, DnpThreads, Mark
  <2>5. CASE MarkBehind
    BY <2>5, SMT DEF PlcInv, TypeOK, KindInv, Digital, DnpThreads, MarkBehind
  <2>6. CASE RecvNothing
    BY <2>6, SMT DEF PlcInv, TypeOK, KindInv, Digital, DnpThreads, RecvNothing
  <2>7. CASE RecvEnd
    BY <2>7, SMT DEF PlcInv, TypeOK, KindInv, Digital, DnpThreads, RecvEnd
  <2>8. CASE RecvReset
    BY <2>8, SMT DEF PlcInv, TypeOK, KindInv, Digital, DnpThreads, RecvReset
  <2>9. CASE RecvRead
    BY <2>9, SMT DEF PlcInv, TypeOK, KindInv, Digital, DnpThreads, RecvRead
  <2>10. CASE \E v \in Values : RecvOperate(v)
    BY <2>10, SMT DEF PlcInv, TypeOK, KindInv, Digital, DnpThreads, RecvOperate
  <2>11. CASE Operate
    BY <2>11, SMT DEF PlcInv, TypeOK, KindInv, Digital, DnpThreads, Operate
  <2> QED
    BY <2>1, <2>2, <2>3, <2>4, <2>5, <2>6, <2>7, <2>8, <2>9, <2>10, <2>11, Zenon DEF DnpStep
<1>4. PrevInv'
  <2>1. CASE \E c \in Clients : Lock(c)
    BY <2>1, SMT DEF PlcInv, TypeOK, PrevInv, Digital, KindInv, DnpThreads, Lock
  <2>2. CASE Copy
    BY <2>2, SMT DEF PlcInv, TypeOK, PrevInv, Digital, KindInv, DnpThreads, Copy
  <2>3. CASE Look
    BY <2>3, SMT DEF PlcInv, TypeOK, PrevInv, Digital, KindInv, DnpThreads, Look
  <2>4. CASE Mark
    BY <2>4, SMT DEF PlcInv, TypeOK, PrevInv, Digital, KindInv, DnpThreads, Mark
  <2>5. CASE MarkBehind
    BY <2>5, SMT DEF PlcInv, TypeOK, PrevInv, Digital, KindInv, DnpThreads, MarkBehind
  <2>6. CASE RecvNothing
    BY <2>6, SMT DEF PlcInv, TypeOK, PrevInv, Digital, KindInv, DnpThreads, RecvNothing
  <2>7. CASE RecvEnd
    BY <2>7, SMT DEF PlcInv, TypeOK, PrevInv, Digital, KindInv, DnpThreads, RecvEnd
  <2>8. CASE RecvReset
    BY <2>8, SMT DEF PlcInv, TypeOK, PrevInv, Digital, KindInv, DnpThreads, RecvReset
  <2>9. CASE RecvRead
    BY <2>9, SMT DEF PlcInv, TypeOK, PrevInv, Digital, KindInv, DnpThreads, RecvRead
  <2>10. CASE \E v \in Values : RecvOperate(v)
    BY <2>10, SMT DEF PlcInv, TypeOK, PrevInv, Digital, KindInv, DnpThreads, RecvOperate
  <2>11. CASE Operate
    BY <2>11, SMT DEF PlcInv, TypeOK, PrevInv, Digital, KindInv, DnpThreads, Operate
  <2> QED
    BY <2>1, <2>2, <2>3, <2>4, <2>5, <2>6, <2>7, <2>8, <2>9, <2>10, <2>11, Zenon DEF DnpStep
<1>5. SockInv'
  <2>1. CASE \E c \in Clients : Lock(c)
    BY <2>1, SMT DEF PlcInv, TypeOK, SockInv, Connected, Nothing, DnpThreads, Lock
  <2>2. CASE Copy
    BY <2>2, SMT DEF PlcInv, TypeOK, SockInv, Connected, Nothing, DnpThreads, Copy
  <2>3. CASE Look
    BY <2>3, SMT DEF PlcInv, TypeOK, SockInv, Connected, Nothing, DnpThreads, Look
  <2>4. CASE Mark
    BY <2>4, SMT DEF PlcInv, TypeOK, SockInv, Connected, Nothing, DnpThreads, Mark
  <2>5. CASE MarkBehind
    BY <2>5, SMT DEF PlcInv, TypeOK, SockInv, Connected, Nothing, DnpThreads, MarkBehind
  <2>6. CASE RecvNothing
    BY <2>6, SMT DEF PlcInv, TypeOK, SockInv, Connected, Nothing, DnpThreads, RecvNothing
  <2>7. CASE RecvEnd
    BY <2>7, SMT DEF PlcInv, TypeOK, SockInv, Connected, Nothing, DnpThreads, RecvEnd
  <2>8. CASE RecvReset
    BY <2>8, SMT DEF PlcInv, TypeOK, SockInv, Connected, Nothing, DnpThreads, RecvReset
  <2>9. CASE RecvRead
    BY <2>9, SMT DEF PlcInv, TypeOK, SockInv, Connected, Nothing, DnpThreads, RecvRead
  <2>10. CASE \E v \in Values : RecvOperate(v)
    BY <2>10, SMT DEF PlcInv, TypeOK, SockInv, Connected, Nothing, DnpThreads, RecvOperate
  <2>11. CASE Operate
    BY <2>11, SMT DEF PlcInv, TypeOK, SockInv, Connected, Nothing, DnpThreads, Operate
  <2> QED
    BY <2>1, <2>2, <2>3, <2>4, <2>5, <2>6, <2>7, <2>8, <2>9, <2>10, <2>11, Zenon DEF DnpStep
<1>6. NewsInv'
  <2>1. CASE \E c \in Clients : Lock(c)
    BY <2>1, SMT DEF PlcInv, TypeOK, NewsInv, Known, Connected, Due, Apart, AboutToFlag,
       PrevInv, SockInv, KindInv, Digital, DnpThreads, Lock
  <2>2. CASE Copy
    BY <2>2, SMT DEF PlcInv, TypeOK, NewsInv, Known, Connected, Due, Apart, AboutToFlag,
       PrevInv, SockInv, KindInv, Digital, DnpThreads, Copy
  <2>3. CASE Look
    BY <2>3, SMT DEF PlcInv, TypeOK, NewsInv, Known, Connected, Due, Apart, AboutToFlag,
       PrevInv, SockInv, KindInv, Digital, DnpThreads, Look
  <2>4. CASE Mark
    BY <2>4, SMT DEF PlcInv, TypeOK, NewsInv, Known, Connected, Due, Apart, AboutToFlag,
       PrevInv, SockInv, KindInv, Digital, DnpThreads, Mark
  <2>5. CASE MarkBehind
    BY <2>5, SMT DEF PlcInv, TypeOK, NewsInv, Known, Connected, Due, Apart, AboutToFlag,
       PrevInv, SockInv, KindInv, Digital, DnpThreads, MarkBehind
  <2>6. CASE RecvNothing
    BY <2>6, SMT DEF PlcInv, TypeOK, NewsInv, Known, Connected, Due, Apart, AboutToFlag,
       PrevInv, SockInv, KindInv, Digital, DnpThreads, RecvNothing
  <2>7. CASE RecvEnd
    BY <2>7, SMT DEF PlcInv, TypeOK, NewsInv, Known, Connected, Due, Apart, AboutToFlag,
       PrevInv, SockInv, KindInv, Digital, DnpThreads, RecvEnd
  <2>8. CASE RecvReset
    BY <2>8, SMT DEF PlcInv, TypeOK, NewsInv, Known, Connected, Due, Apart, AboutToFlag,
       PrevInv, SockInv, KindInv, Digital, DnpThreads, RecvReset
  <2>9. CASE RecvRead
    BY <2>9, SMT DEF PlcInv, TypeOK, NewsInv, Known, Connected, Due, Apart, AboutToFlag,
       PrevInv, SockInv, KindInv, Digital, DnpThreads, RecvRead
  <2>10. CASE \E v \in Values : RecvOperate(v)
    BY <2>10, SMT DEF PlcInv, TypeOK, NewsInv, Known, Connected, Due, Apart, AboutToFlag,
       PrevInv, SockInv, KindInv, Digital, DnpThreads, RecvOperate
  <2>11. CASE Operate
    BY <2>11, SMT DEF PlcInv, TypeOK, NewsInv, Known, Connected, Due, Apart, AboutToFlag,
       PrevInv, SockInv, KindInv, Digital, DnpThreads, Operate
  <2> QED
    BY <2>1, <2>2, <2>3, <2>4, <2>5, <2>6, <2>7, <2>8, <2>9, <2>10, <2>11, Zenon DEF DnpStep
<1>7. FateInv'
  <2>1. CASE \E c \in Clients : Lock(c)
    BY <2>1, SMT DEF PlcInv, TypeOK, FateInv, DnpThreads, Lock
  <2>2. CASE Copy
    BY <2>2, SMT DEF PlcInv, TypeOK, FateInv, DnpThreads, Copy
  <2>3. CASE Look
    BY <2>3, SMT DEF PlcInv, TypeOK, FateInv, DnpThreads, Look
  <2>4. CASE Mark
    BY <2>4, SMT DEF PlcInv, TypeOK, FateInv, DnpThreads, Mark
  <2>5. CASE MarkBehind
    BY <2>5, SMT DEF PlcInv, TypeOK, FateInv, DnpThreads, MarkBehind
  <2>6. CASE RecvNothing
    BY <2>6, SMT DEF PlcInv, TypeOK, FateInv, DnpThreads, RecvNothing
  <2>7. CASE RecvEnd
    BY <2>7, SMT DEF PlcInv, TypeOK, FateInv, DnpThreads, RecvEnd
  <2>8. CASE RecvReset
    BY <2>8, SMT DEF PlcInv, TypeOK, FateInv, DnpThreads, RecvReset
  <2>9. CASE RecvRead
    BY <2>9, SMT DEF PlcInv, TypeOK, FateInv, DnpThreads, RecvRead
  <2>10. CASE \E v \in Values : RecvOperate(v)
    BY <2>10, SMT DEF PlcInv, TypeOK, FateInv, DnpThreads, RecvOperate
  <2>11. CASE Operate
    BY <2>11, SMT DEF PlcInv, TypeOK, FateInv, DnpThreads, Operate
  <2> QED
    BY <2>1, <2>2, <2>3, <2>4, <2>5, <2>6, <2>7, <2>8, <2>9, <2>10, <2>11, Zenon DEF DnpStep
<1>8. CommandKept'
  <2>1. CASE \E c \in Clients : Lock(c)
    <3>1. dnp.at = "idle"
      BY <2>1 DEF PlcInv, SockInv, Connected, Lock
    <3> QED
      BY <2>1, <3>1 DEF PlcInv, CommandKept, HalfWay, Ordered, Lock
  <2>2. CASE Copy
    BY <2>2, SMT DEF PlcInv, TypeOK, CommandKept, HalfWay, Ordered, FateInv, KindInv,
       Digital, DnpThreads, Copy
  <2>3. CASE Look
    BY <2>3, SMT DEF PlcInv, TypeOK, CommandKept, HalfWay, Ordered, FateInv, KindInv,
       Digital, DnpThreads, Look
  <2>4. CASE Mark
    BY <2>4, SMT DEF PlcInv, TypeOK, CommandKept, HalfWay, Ordered, FateInv, KindInv,
       Digital, DnpThreads, Mark
  <2>5. CASE MarkBehind
    BY <2>5, SMT DEF PlcInv, TypeOK, CommandKept, HalfWay, Ordered, FateInv, KindInv,
       Digital, DnpThreads, MarkBehind
  <2>6. CASE RecvNothing
    BY <2>6, SMT DEF PlcInv, TypeOK, CommandKept, HalfWay, Ordered, FateInv, KindInv,
       Digital, DnpThreads, RecvNothing
  <2>7. CASE RecvEnd
    BY <2>7, SMT DEF PlcInv, TypeOK, CommandKept, HalfWay, Ordered, FateInv, KindInv,
       Digital, DnpThreads, RecvEnd
  <2>8. CASE RecvReset
    BY <2>8, SMT DEF PlcInv, TypeOK, CommandKept, HalfWay, Ordered, FateInv, KindInv,
       Digital, DnpThreads, RecvReset
  <2>9. CASE RecvRead
    BY <2>9, SMT DEF PlcInv, TypeOK, CommandKept, HalfWay, Ordered, FateInv, KindInv,
       Digital, DnpThreads, RecvRead
  <2>10. CASE \E v \in Values : RecvOperate(v)
    BY <2>10, SMT DEF PlcInv, TypeOK, CommandKept, HalfWay, Ordered, FateInv, KindInv,
       Digital, DnpThreads, RecvOperate
  <2>11. CASE Operate
    BY <2>11, SMT DEF PlcInv, TypeOK, CommandKept, HalfWay, Ordered, FateInv, KindInv,
       Digital, DnpThreads, Operate
  <2> QED
    BY <2>1, <2>2, <2>3, <2>4, <2>5, <2>6, <2>7, <2>8, <2>9, <2>10, <2>11, Zenon DEF DnpStep
<1> QED
  BY <1>2, <1>3, <1>4, <1>5, <1>6, <1>7, <1>8 DEF PlcInv

\* What is left to store is stored field by field.
LEMMA FieldsTyped ==
    ASSUME NEW f \in Fields, f # << >>
    PROVE Head(f) \in {"wrFlag", "wrVal", "prevVal"} /\ Tail(f) \in Fields
<1>1. CASE f = <<"wrFlag", "wrVal", "prevVal">>
  <2>1. Head(f) = "wrFlag" /\ Tail(f) = <<"wrVal", "prevVal">>
    BY <1>1
  <2> QED
    BY <2>1, Zenon DEF Fields
<1>2. CASE f = <<"wrVal", "prevVal">>
  <2>1. Head(f) = "wrVal" /\ Tail(f) = <<"prevVal">>
    BY <1>2
  <2> QED
    BY <2>1, Zenon DEF Fields
<1>3. CASE f = <<"prevVal", "wrFlag">>
  <2>1. Head(f) = "prevVal" /\ Tail(f) = <<"wrFlag">>
    BY <1>3
  <2> QED
    BY <2>1, Zenon DEF Fields
<1>4. CASE f = <<"prevVal">>
  <2>1. Head(f) = "prevVal" /\ Tail(f) = << >>
    BY <1>4
  <2> QED
    BY <2>1, Zenon DEF Fields
<1>5. CASE f = <<"wrFlag">>
  <2>1. Head(f) = "wrFlag" /\ Tail(f) = << >>
    BY <1>5
  <2> QED
    BY <2>1, Zenon DEF Fields
<1> QED
  BY <1>1, <1>2, <1>3, <1>4, <1>5, Zenon DEF Fields

LEMMA OthersKeepInv ==
    ASSUME PlcInv, \/ SetStore \/ (\E c \in Clients : Connect(c))
                   \/ (\E v \in Values : SetStart(v) \/ Change(v))
    PROVE PlcInv'
<1> USE PointAssumption DEF Lose, Count
<1> DEFINE f == Head(cmd.fields)
<1>s. SetStore => /\ f \in {"wrFlag", "wrVal", "prevVal"}
                  /\ Tail(cmd.fields) \in Fields /\ Len(cmd.fields) \in Nat
                  /\ cmd.arg \in Values /\ 0 \in Values /\ 1 \in Values
                  /\ kind \in {"DO", "AO"}
  <2>1. cmd.fields \in Fields /\ cmd.arg \in Values
    BY DEF PlcInv, TypeOK, Commands
  <2>2. Len(cmd.fields) \in Nat
    BY <2>1 DEF Fields
  <2> QED
    BY <2>1, <2>2, FieldsTyped DEF SetStore, PlcInv, TypeOK, KindInv, Kinds
<1>t. SetStore =>
        /\ wrFlag' = IF f = "wrFlag" THEN 1 ELSE wrFlag
        /\ wrVal' = IF f = "wrVal" THEN 1 ELSE wrVal
        /\ prevVal' = IF f # "prevVal" THEN prevVal ELSE IF kind = "DO" THEN 0 ELSE cmd.arg
        /\ cleared' = (cleared \/ (f = "prevVal" /\ kind = "DO"))
        /\ cmd' = [fields |-> Tail(cmd.fields), arg |-> IF Len(cmd.fields) = 1 THEN 0 ELSE cmd.arg]
        /\ UNCHANGED <<kind, val, unsol, held, plc, station, missed, events>>
        /\ Lose
  BY Zenon DEF SetStore
<1> HIDE DEF f
<1>1. TypeOK'
  <2>1. CASE SetStore
    <3>1. cmd' \in Commands
      <4>1. PICK v \in Values : cmd' = [fields |-> Tail(cmd.fields), arg |-> v]
        BY <1>s, <1>t, <2>1, Zenon
      <4>2. Tail(cmd.fields) \in Fields
        BY <1>s, <2>1
      <4> QED
        BY <4>1, <4>2 DEF Commands
    <3>2. cleared' \in BOOLEAN
      BY <1>t, <2>1, Zenon
    <3> QED
      BY <1>s, <1>t, <2>1, <3>1, <3>2 DEF PlcInv, TypeOK
  <2>2. CASE \E c \in Clients : Connect(c)
    BY <2>2, SMTT(20) DEF PlcInv, TypeOK, SockInv, Connected, Kinds, Unsols, Digital,
       Nothing, Connect
  <2>3. CASE \E v \in Values : SetStart(v)
    <3>1. PICK v \in Values : SetStart(v)
      BY <2>3
    <3>2. cmd' \in Commands
      BY <3>1 DEF SetStart, Commands, Fields
    <3>3. events' \in 0 .. MaxEvents
      BY <3>1 DEF SetStart, PlcInv, TypeOK
    <3> QED
      BY <3>1, <3>2, <3>3, Zenon DEF SetStart, PlcInv, TypeOK
  <2>4. CASE \E v \in Values : Change(v)
    BY <2>4, SMTT(20) DEF PlcInv, TypeOK, SockInv, Connected, Kinds, Unsols, Digital,
       Nothing, Change
  <2> QED
    BY <2>1, <2>2, <2>3, <2>4, Zenon
<1>2. KindInv'
  <2>1. CASE SetStore
    BY <2>1, SMTT(20) DEF PlcInv, TypeOK, KindInv, Digital, SetStore
  <2>2. CASE \E c \in Clients : Connect(c)
    BY <2>2, SMTT(20) DEF PlcInv, TypeOK, KindInv, Digital, Connect
  <2>3. CASE \E v \in Values : SetStart(v)
    BY <2>3, SMTT(20) DEF PlcInv, TypeOK, KindInv, Digital, SetStart
  <2>4. CASE \E v \in Values : Change(v)
    BY <2>4, SMTT(20) DEF PlcInv, TypeOK, KindInv, Digital, Change
  <2> QED
    BY <2>1, <2>2, <2>3, <2>4, Zenon
<1>3. PrevInv'
  <2>1. CASE SetStore
    BY <1>s, <1>t, <2>1 DEF PlcInv, PrevInv, Digital
  <2>2. CASE \E c \in Clients : Connect(c)
    BY <2>2, SMTT(20) DEF PlcInv, TypeOK, PrevInv, Digital, KindInv, Connect
  <2>3. CASE \E v \in Values : SetStart(v)
    BY <2>3, SMTT(20) DEF PlcInv, TypeOK, PrevInv, Digital, KindInv, SetStart
  <2>4. CASE \E v \in Values : Change(v)
    BY <2>4, SMTT(20) DEF PlcInv, TypeOK, PrevInv, Digital, KindInv, Change
  <2> QED
    BY <2>1, <2>2, <2>3, <2>4, Zenon
<1>4. SockInv'
  <2>1. CASE SetStore
    BY <2>1, SMTT(20) DEF PlcInv, TypeOK, SockInv, Connected, Nothing, SetStore
  <2>2. CASE \E c \in Clients : Connect(c)
    BY <2>2, SMTT(20) DEF PlcInv, TypeOK, SockInv, Connected, Nothing, Connect
  <2>3. CASE \E v \in Values : SetStart(v)
    BY <2>3, SMTT(20) DEF PlcInv, TypeOK, SockInv, Connected, Nothing, SetStart
  <2>4. CASE \E v \in Values : Change(v)
    BY <2>4, SMTT(20) DEF PlcInv, TypeOK, SockInv, Connected, Nothing, Change
  <2> QED
    BY <2>1, <2>2, <2>3, <2>4, Zenon
<1>5. NewsInv'
  <2>1. CASE SetStore
    BY <1>s, <1>t, <2>1 DEF PlcInv, NewsInv, Known, Connected, Due, KindInv, Digital
  <2>2. CASE \E c \in Clients : Connect(c)
    BY <2>2, SMTT(20) DEF PlcInv, TypeOK, NewsInv, Known, Connected, Due, Apart,
       AboutToFlag, PrevInv, SockInv, KindInv, Digital, Connect
  <2>3. CASE \E v \in Values : SetStart(v)
    BY <2>3, SMTT(20) DEF PlcInv, TypeOK, NewsInv, Known, Connected, Due, Apart,
       AboutToFlag, PrevInv, SockInv, KindInv, Digital, SetStart
  <2>4. CASE \E v \in Values : Change(v)
    BY <2>4, SMTT(20) DEF PlcInv, TypeOK, NewsInv, Known, Connected, Due, Apart,
       AboutToFlag, PrevInv, SockInv, KindInv, Digital, Change
  <2> QED
    BY <2>1, <2>2, <2>3, <2>4, Zenon
<1>6. FateInv'
  <2>1. CASE SetStore
    BY <2>1, SMTT(20) DEF PlcInv, TypeOK, FateInv, SetStore
  <2>2. CASE \E c \in Clients : Connect(c)
    BY <2>2, SMTT(20) DEF PlcInv, TypeOK, FateInv, Connect
  <2>3. CASE \E v \in Values : SetStart(v)
    BY <2>3, SMTT(20) DEF PlcInv, TypeOK, FateInv, SetStart
  <2>4. CASE \E v \in Values : Change(v)
    BY <2>4, SMTT(20) DEF PlcInv, TypeOK, FateInv, Change
  <2> QED
    BY <2>1, <2>2, <2>3, <2>4, Zenon
<1>7. CommandKept'
  <2>1. CASE SetStore
    BY <2>1, SMTT(20) DEF PlcInv, TypeOK, CommandKept, HalfWay, Ordered, FateInv,
       KindInv, Digital, SetStore
  <2>2. CASE \E c \in Clients : Connect(c)
    BY <2>2, SMTT(20) DEF PlcInv, TypeOK, CommandKept, HalfWay, Ordered, FateInv,
       KindInv, Digital, Connect
  <2>3. CASE \E v \in Values : SetStart(v)
    BY <2>3, SMTT(20) DEF PlcInv, TypeOK, CommandKept, HalfWay, Ordered, FateInv,
       KindInv, Digital, SetStart
  <2>4. CASE \E v \in Values : Change(v)
    BY <2>4, SMTT(20) DEF PlcInv, TypeOK, CommandKept, HalfWay, Ordered, FateInv,
       KindInv, Digital, Change
  <2> QED
    BY <2>1, <2>2, <2>3, <2>4, Zenon
<1> QED
  BY <1>1, <1>2, <1>3, <1>4, <1>5, <1>6, <1>7 DEF PlcInv

\* A step that changes nothing the invariant speaks of.
LEMMA StutterKeepsInv == PlcInv /\ UNCHANGED vars => PlcInv'
<1> SUFFICES ASSUME PlcInv, UNCHANGED vars PROVE PlcInv'
  OBVIOUS
<1>1. TypeOK' /\ KindInv' /\ PrevInv'
  BY DEF PlcInv, TypeOK, KindInv, PrevInv
<1>2. SockInv' /\ NewsInv'
  BY DEF PlcInv, SockInv, NewsInv, Known, Connected, Due
<1>3. FateInv' /\ CommandKept'
  BY DEF PlcInv, FateInv, CommandKept, HalfWay, Ordered
<1> QED
  BY <1>1, <1>2, <1>3 DEF PlcInv

(* The inductive invariant of a point: what each thread may be doing with  *)
(* it, who has which connection, and both properties below.                *)
THEOREM PointInvariant == Spec => []PlcInv
<1>1. PlcInv /\ [Next]_vars => PlcInv'
  BY PlcKeepsInv, DnpKeepsInv, OthersKeepInv, StutterKeepsInv DEF Next
<1> QED
  BY InitInv, <1>1, PTL DEF Spec

(* The record of the point, the PLC thread, the connections and the        *)
(* commands have their types (plc_observer.c, dnp_observer.c).             *)
THEOREM TypeCorrect == Spec => []TypeOK
<1>1. PlcInv => TypeOK
  BY DEF PlcInv
<1> QED
  BY PointInvariant, <1>1, PTL

(* No station is kept from a value but by the faults that are named: the   *)
(* station has it, is still to be sent it, or the PLC thread is about to   *)
(* see to that (ReadDIOBlock, mk_unsol and its siblings).                  *)
THEOREM NewsReach == Spec => []NewsKept
<1>1. PlcInv => NewsKept
  BY DEF PlcInv, NewsInv, Known, NewsKept
<1> QED
  BY PointInvariant, <1>1, PTL

(* A station's command keeps its flag and its value until the PLC thread   *)
(* takes that value (wr_point, PLC_write).                                 *)
THEOREM CommandsKept == Spec => []CommandKept
<1>1. PlcInv => CommandKept
  BY DEF PlcInv
<1> QED
  BY PointInvariant, <1>1, PTL

-----------------------------------------------------------------------------
HIDE DEF vars, record, station, told, ordered

\* The PLC thread will ask for a socket while something else is on 0.
Asking == IF thread \in {"socket", "sleep"} /\ table[0] # "free" THEN 1 ELSE 0

\* A server that has opened its socket knows it, and has it to itself but on 0.
ServerInv ==
    \A s \in Sockets!Servers :
       /\ stage[s] \in {"bind", "listen"} => server[s] # None
       /\ stage[s] = "bind" /\ server[s] # 0 =>
             /\ table[server[s]] = "bare"
             /\ \A r \in Sockets!Servers \ {s} : stage[r] = "bind" => server[r] # server[s]

\* A thread that was not started has no descriptor, and the next descriptor
\* that is lost is counted before it is.
SocketInv == /\ Sockets!TypeOK
             /\ \A t \in Threads : t \notin used => fd[t] = None
             /\ ServerInv
             /\ OwnDescriptors
             /\ Cardinality(Sockets!Leaked) + Asking <= zero

\* socket and accept return the lowest descriptor that is free.
LEMMA LowestFree ==
    ASSUME Sockets!FreeOnes # {}
    PROVE  /\ Sockets!Lowest \in Sockets!FreeOnes
           /\ table[0] = "free" <=> Sockets!Lowest = 0
<1> DEFINE F == Sockets!FreeOnes
           Below(j) == {l \in F : l < j}
           R == StrictSubsetOrdering(F)
           T == {Below(j) : j \in F}
<1>1. /\ F \in SUBSET (0 .. Limit - 1)
      /\ table[0] = "free" <=> 0 \in F
  BY SocketAssumption DEF Sockets!FreeOnes, Sockets!Numbers
<1>2. IsFiniteSet(F)
  <2>1. IsFiniteSet(0 .. Limit - 1)
    BY SocketAssumption, FS_Interval
  <2> QED
    BY <1>1, <2>1, FS_Subset
<1>3. IsWellFoundedOn(R, SUBSET F)
  BY <1>2, FS_StrictSubsetOrderingWellFounded, FS_FiniteSubsetsOfFinite
<1>4. T \subseteq SUBSET F /\ T # {}
  OBVIOUS
<1>5. PICK A \in T : \A B \in T : ~(<<B, A>> \in R)
  <2> HIDE DEF T, R
  <2> QED
    BY <1>3, <1>4, WFMin
<1>6. PICK m \in F : A = Below(m)
  OBVIOUS
<1>7. ASSUME NEW l \in F, l < m PROVE FALSE
  <2> HIDE DEF F
  <2>1. F \subseteq Int
    BY <1>1, SocketAssumption
  <2>2. Below(l) \subseteq Below(m) /\ l \in Below(m) /\ l \notin Below(l)
    <3>1. \A x \in F : x < l => x < m
      BY <1>7, <2>1
    <3>2. ~(l < l)
      BY <2>1
    <3> QED
      BY <1>7, <3>1, <3>2
  <2>3. Below(l) \in T /\ Below(l) \subseteq F /\ Below(m) \subseteq F
    OBVIOUS
  <2>4. Below(l) # Below(m)
    BY <2>2
  <2>5. <<Below(l), Below(m)>> \in R
    <3> HIDE DEF Below
    <3> QED
      BY <2>2, <2>3, <2>4 DEF StrictSubsetOrdering
  <2> QED
    BY <1>5, <1>6, <2>3, <2>5
<1>8. \A y \in F : m =< y
  BY <1>1, <1>7
<1>9. Sockets!Min(F) \in F /\ \A y \in F : Sockets!Min(F) =< y
  BY <1>8 DEF Sockets!Min
<1>10. Sockets!Lowest = Sockets!Min(F)
  BY DEF Sockets!Lowest
<1> HIDE DEF F
<1>11. Sockets!Min(F) \in Nat /\ (0 \in F <=> Sockets!Min(F) = 0)
  <2>1. PICK k : k = Sockets!Min(F)
    OBVIOUS
  <2>2. k \in F /\ \A y \in F : k =< y
    BY <1>9, <2>1, Zenon
  <2>3. \A y \in F : y \in Nat
    BY <1>1, SocketAssumption
  <2>4. k \in Nat /\ (0 \in F <=> k = 0)
    BY <2>2, <2>3
  <2> QED
    BY <2>1, <2>4, Zenon
<1> QED
  BY <1>1, <1>9, <1>10, <1>11 DEF F

\* Lost descriptors can be counted.
LEMMA LeakedFinite == IsFiniteSet(Sockets!Leaked) /\ Cardinality(Sockets!Leaked) \in Nat
<1>1. IsFiniteSet(0 .. Limit - 1)
  BY SocketAssumption, FS_Interval
<1>2. Sockets!Leaked \in SUBSET (0 .. Limit - 1)
  BY DEF Sockets!Leaked, Sockets!Numbers
<1> QED
  BY <1>1, <1>2, FS_Subset, FS_CardinalityType

LEMMA InitSockets == Sockets!Init => SocketInv
<1> SUFFICES ASSUME Sockets!Init PROVE SocketInv
  OBVIOUS
<1>1. Sockets!Leaked = {}
  BY SocketAssumption DEF Sockets!Init, Sockets!Leaked, Sockets!Numbers
<1>2. Cardinality(Sockets!Leaked) = 0
  BY <1>1, FS_EmptySet
<1>3. Asking = 1 /\ zero = 1
  BY SocketAssumption DEF Sockets!Init, Asking, Sockets!Numbers
<1>4. Sockets!TypeOK
  BY SocketAssumption DEF Sockets!Init, Sockets!TypeOK, Sockets!Numbers, Sockets!Objects
<1> QED
  BY <1>2, <1>3, <1>4 DEF Sockets!Init, SocketInv, ServerInv, OwnDescriptors,
     Sockets!OwnDescriptors

\* What the invariant says of the types.
LEMMA SocketTypes ==
    ASSUME SocketInv
    PROVE  /\ table \in [0 .. Limit - 1 -> Sockets!Objects] /\ 0 \in 0 .. Limit - 1
           /\ zero \in Nat /\ calls \in 0 .. MaxCalls /\ used \subseteq Threads
           /\ reads \subseteq 0 .. Limit - 1
           /\ fd \in [Threads -> (0 .. Limit - 1) \cup {None}]
           /\ server \in [Sockets!Servers -> (0 .. Limit - 1) \cup {None}]
           /\ stage \in [Sockets!Servers -> {"init", "bind", "listen", "gone"}]
           /\ thread \in {"socket", "connect", "run", "failed", "close", "sleep"}
           /\ None \notin 0 .. Limit - 1
           /\ "dnp" \in Sockets!Servers /\ "command" \in Sockets!Servers
BY SocketAssumption, PointAssumption
DEF SocketInv, Sockets!TypeOK, Sockets!Numbers, Sockets!Servers

\* Whose descriptors is what.
LEMMA Owned ==
    ASSUME SocketInv
    PROVE  /\ \A t \in Threads : fd[t] \notin {None, 0} =>
                /\ table[fd[t]] = t
                /\ \A u \in Threads \ {t} : fd[u] # fd[t]
           /\ \A s \in Sockets!Servers :
                stage[s] = "listen" /\ server[s] # 0 => table[server[s]] = s
           /\ \A d \in reads \ {0} : table[d] = "peer"
BY DEF SocketInv, OwnDescriptors, Sockets!OwnDescriptors

\* No two of the names of what is open are the same.
LEMMA NamesApart ==
    /\ Threads \cap {"free", "console", "raw", "plc", "bare", "peer", "dnp", "command"} = {}
    /\ Sockets!Servers = {"dnp", "command"}
BY SocketAssumption DEF Sockets!Servers

\* The count of what is lost, where nothing more is.
LEMMA NothingLost ==
    ASSUME SocketInv, UNCHANGED thread,
           Sockets!Leaked' = Sockets!Leaked,
           \/ zero' = zero /\ (table'[0] # "free" => table[0] # "free")
           \/ zero' = zero + 1
    PROVE  Cardinality(Sockets!Leaked') + Asking' <= zero'
<1>1. Asking \in Nat /\ Asking' \in Nat /\ Asking' <= Asking + 1
  BY DEF Asking
<1>2. Asking' <= Asking \/ zero' = zero + 1
  BY DEF Asking
<1>3. Cardinality(Sockets!Leaked) + Asking <= zero /\ zero \in Nat
  BY SocketTypes DEF SocketInv
<1> HIDE DEF Asking
<1> QED
  BY <1>1, <1>2, <1>3, LeakedFinite

\* The PLC thread: only socket can lose a descriptor, the one it returns when
\* something else is on 0.
LEMMA PlcKeepsSockets ==
    ASSUME SocketInv,
           Sockets!PlcThread \/ Sockets!Socket \/ Sockets!Connect \/ Sockets!RunFails
    PROVE  SocketInv'
<1> USE SocketAssumption, PointAssumption
<1> DEFINE L == Sockets!Leaked
<1>t. /\ table \in [0 .. Limit - 1 -> Sockets!Objects] /\ 0 \in 0 .. Limit - 1
      /\ zero \in Nat
  BY SocketTypes
<1>f. UNCHANGED <<server, stage, reads, calls, fd, zero, used>>
  BY DEF Sockets!servers, Sockets!threads, Sockets!PlcThread, Sockets!Socket,
     Sockets!Connect, Sockets!RunFails, Sockets!ConnectFails, Sockets!CloseFailed,
     Sockets!Close, Sockets!Wake
<1>n. Threads \cap {"free", "console", "raw", "plc", "bare", "peer", "dnp", "command"} = {}
  BY NamesApart
<1>1. CASE Sockets!Socket
  <2> DEFINE d == Sockets!Lowest
  <2>1. /\ d \in 0 .. Limit - 1 /\ table[d] = "free"
        /\ table[0] = "free" <=> d = 0
    BY <1>1, LowestFree DEF Sockets!Socket, Sockets!FreeOnes, Sockets!Numbers
  <2>2. thread = "socket" /\ thread' = "connect" /\ table' = [table EXCEPT ![d] = "raw"]
    BY <1>1 DEF Sockets!Socket
  <2> HIDE DEF d
  <2>3. Sockets!TypeOK'
    BY <1>t, <1>f, <2>1, <2>2
    DEF SocketInv, Sockets!TypeOK, Sockets!Numbers, Sockets!Objects
  <2>4. OwnDescriptors' /\ ServerInv'
    <3>1. \A x \in 0 .. Limit - 1 : table'[x] = table[x] \/ table[x] = "free"
      BY <1>t, <2>1, <2>2
    <3> QED
      BY <1>f, <1>n, <3>1, SocketTypes, Owned, NamesApart
      DEF SocketInv, ServerInv, OwnDescriptors, Sockets!OwnDescriptors
  <2>5. L' = IF d = 0 THEN L ELSE L \cup {d}
    BY <1>t, <2>1, <2>2 DEF Sockets!Leaked, Sockets!Numbers
  <2>6. d \notin L
    BY <2>1 DEF Sockets!Leaked
  <2>7. Cardinality(L') + Asking' <= zero'
    <3> HIDE DEF L
    <3>1. Cardinality(L') = IF d = 0 THEN Cardinality(L) ELSE Cardinality(L) + 1
      BY <2>5, <2>6, LeakedFinite, FS_AddElement DEF L
    <3>2. Asking' = 0 /\ Asking = IF d = 0 THEN 0 ELSE 1
      BY <2>1, <2>2 DEF Asking
    <3> QED
      BY <1>f, <1>t, <3>1, <3>2, LeakedFinite DEF SocketInv, L
  <2> QED
    BY <1>f, <2>3, <2>4, <2>7 DEF SocketInv
<1>2. CASE ~Sockets!Socket
  <2>1. \/ UNCHANGED table
        \/ table' = [table EXCEPT ![0] = "free"]
        \/ table' = [table EXCEPT ![0] = "plc"]
    BY <1>2 DEF Sockets!PlcThread, Sockets!Connect, Sockets!RunFails,
       Sockets!ConnectFails, Sockets!CloseFailed, Sockets!Close, Sockets!Wake
  <2>2. thread' \in {"connect", "run", "failed", "close", "sleep", "socket"}
    BY <1>2 DEF Sockets!PlcThread, Sockets!Connect, Sockets!RunFails,
       Sockets!ConnectFails, Sockets!CloseFailed, Sockets!Close, Sockets!Wake
  <2>3. Sockets!TypeOK'
    BY <1>t, <1>f, <2>1, <2>2
    DEF SocketInv, Sockets!TypeOK, Sockets!Numbers, Sockets!Objects
  <2>4. OwnDescriptors' /\ ServerInv'
    <3>1. \A x \in 1 .. Limit - 1 : table'[x] = table[x]
      BY <1>t, <2>1
    <3> QED
      BY <1>f, <3>1, SocketTypes, Owned, NamesApart
      DEF SocketInv, ServerInv, OwnDescriptors, Sockets!OwnDescriptors
  <2>5. L' = L
    BY <1>t, <2>1 DEF Sockets!Leaked, Sockets!Numbers
  <2>6. Asking' <= Asking
    BY <1>2, <1>t DEF Sockets!PlcThread, Sockets!Connect, Sockets!RunFails,
       Sockets!ConnectFails, Sockets!CloseFailed, Sockets!Close, Sockets!Wake, Asking
  <2>7. Cardinality(L') + Asking' <= zero'
    <3>1. Asking \in Nat /\ Asking' \in Nat
      BY DEF Asking
    <3> HIDE DEF L
    <3> QED
      BY <1>f, <1>t, <2>5, <2>6, <3>1, LeakedFinite DEF SocketInv, L
  <2> QED
    BY <1>f, <2>3, <2>4, <2>7 DEF SocketInv
<1> QED
  BY <1>1, <1>2

\* Something other than the PLC takes the lowest descriptor.
LEMMA Taken ==
    ASSUME SocketInv, NEW o \in Sockets!Objects, Sockets!Take(o), o # "raw"
    PROVE  /\ Sockets!Lowest \in 0 .. Limit - 1 /\ table[Sockets!Lowest] = "free"
           /\ table' = [table EXCEPT ![Sockets!Lowest] = o]
           /\ table' \in [0 .. Limit - 1 -> Sockets!Objects] /\ zero' \in Nat
           /\ Sockets!Leaked' = Sockets!Leaked
           /\ \/ zero' = zero /\ (table'[0] # "free" => table[0] # "free")
              \/ zero' = zero + 1
<1>1. /\ Sockets!Lowest \in 0 .. Limit - 1 /\ table[Sockets!Lowest] = "free"
      /\ table[0] = "free" <=> Sockets!Lowest = 0
  BY LowestFree DEF Sockets!Take, Sockets!FreeOnes, Sockets!Numbers
<1>2. PICK d : d = Sockets!Lowest
  OBVIOUS
<1>3. /\ table' = [table EXCEPT ![d] = o]
      /\ zero' = IF d = 0 THEN zero + 1 ELSE zero
  BY <1>2 DEF Sockets!Take
<1>4. /\ d \in 0 .. Limit - 1 /\ table[d] = "free" /\ (table[0] = "free" <=> d = 0)
  BY <1>1, <1>2
<1>5. table' \in [0 .. Limit - 1 -> Sockets!Objects] /\ zero' \in Nat
  BY <1>3, <1>4, SocketTypes
<1>6. Sockets!Leaked' = Sockets!Leaked
  BY <1>3, <1>4, SocketTypes DEF Sockets!Leaked, Sockets!Numbers
<1>7. \/ zero' = zero /\ (table'[0] # "free" => table[0] # "free")
      \/ zero' = zero + 1
  BY <1>3, <1>4, SocketTypes
<1> QED
  BY <1>2, <1>3, <1>4, <1>5, <1>6, <1>7

\* Nobody who has a descriptor of its own has one that is free.
LEMMA FreeUnowned ==
    ASSUME SocketInv, NEW d \in 0 .. Limit - 1, table[d] = "free", d # 0
    PROVE  /\ \A t \in Threads : fd[t] # d
           /\ \A s \in Sockets!Servers : stage[s] \in {"bind", "listen"} => server[s] # d
           /\ d \notin reads
<1>1. /\ \A t \in Threads : fd[t] # d
      /\ d \notin reads
  BY Owned, NamesApart, SocketTypes, PointAssumption
<1>2. ASSUME NEW s \in Sockets!Servers, stage[s] \in {"bind", "listen"}, server[s] = d
      PROVE  FALSE
  <2>1. CASE stage[s] = "bind"
    BY <1>2, <2>1 DEF SocketInv, ServerInv
  <2>2. CASE stage[s] = "listen"
    BY <1>2, <2>2, Owned, NamesApart
  <2> QED
    BY <1>2, <2>1, <2>2
<1> QED
  BY <1>1, <1>2

\* A descriptor is closed that is not lost.
LEMMA Freed ==
    ASSUME SocketInv, NEW d \in 0 .. Limit - 1, d = 0 \/ table[d] # "raw",
           table' = [table EXCEPT ![d] = "free"], zero' = zero
    PROVE  /\ table' \in [0 .. Limit - 1 -> Sockets!Objects]
           /\ Sockets!Leaked' = Sockets!Leaked
           /\ table'[0] # "free" => table[0] # "free"
<1>1. "free" \in Sockets!Objects
  BY DEF Sockets!Objects
<1> QED
  BY <1>1, SocketTypes DEF Sockets!Leaked, Sockets!Numbers

LEMMA OpenKeeps ==
    ASSUME SocketInv, NEW s \in Sockets!Servers, Sockets!Open(s)
    PROVE  SocketInv'
<1>1. PICK d : d = Sockets!Lowest
  OBVIOUS
<1>2. Sockets!Take("bare") /\ "bare" \in Sockets!Objects
  BY DEF Sockets!Open, Sockets!Objects
<1>3. /\ d \in 0 .. Limit - 1 /\ table[d] = "free"
      /\ table' = [table EXCEPT ![d] = "bare"]
      /\ table' \in [0 .. Limit - 1 -> Sockets!Objects] /\ zero' \in Nat
  BY <1>1, <1>2, Taken
<1>4. /\ server' = [server EXCEPT ![s] = d] /\ stage' = [stage EXCEPT ![s] = "bind"]
      /\ UNCHANGED <<thread, reads, fd, used>>
  BY <1>1 DEF Sockets!Open, Sockets!threads
<1>5. calls' \in 0 .. MaxCalls
  BY SocketAssumption, SocketTypes DEF Sockets!Open, Sockets!Count
<1>6. Sockets!TypeOK'
  BY <1>3, <1>4, <1>5, SocketTypes DEF Sockets!TypeOK, Sockets!Numbers
<1>7. d # 0 => /\ \A t \in Threads : fd[t] # d
               /\ \A r \in Sockets!Servers : stage[r] \in {"bind", "listen"} => server[r] # d
               /\ d \notin reads
  BY <1>3, FreeUnowned
<1>8. ServerInv'
  BY <1>3, <1>4, <1>7, SocketTypes DEF SocketInv, ServerInv
<1>9. OwnDescriptors'
  BY <1>3, <1>4, <1>7, SocketTypes, Owned DEF OwnDescriptors, Sockets!OwnDescriptors
<1>10. Cardinality(Sockets!Leaked') + Asking' <= zero'
  BY <1>2, <1>4, Taken, NothingLost
<1> QED
  BY <1>4, <1>6, <1>8, <1>9, <1>10 DEF SocketInv

LEMMA ListenKeeps ==
    ASSUME SocketInv, NEW s \in Sockets!Servers, Sockets!Listen(s)
    PROVE  SocketInv'
<1>1. PICK d : d = server[s]
  OBVIOUS
<1>2. /\ stage[s] = "bind" /\ table[d] \in {"bare", "raw"}
      /\ table' = [table EXCEPT ![d] = s] /\ stage' = [stage EXCEPT ![s] = "listen"]
      /\ UNCHANGED <<thread, server, reads, calls, fd, used, zero>>
  BY <1>1 DEF Sockets!Listen, Sockets!threads
<1>3. d \in 0 .. Limit - 1 /\ s \in Sockets!Objects
  BY <1>1, <1>2, SocketTypes DEF SocketInv, ServerInv, Sockets!Objects
<1>4. d # 0 => /\ table[d] = "bare"
               /\ \A r \in Sockets!Servers \ {s} : stage[r] = "bind" => server[r] # d
  BY <1>1, <1>2 DEF SocketInv, ServerInv
<1>5. Sockets!TypeOK'
  BY <1>2, <1>3, SocketTypes DEF Sockets!TypeOK, Sockets!Numbers
<1>6. ServerInv'
  BY <1>1, <1>2, <1>3, <1>4, SocketTypes DEF SocketInv, ServerInv
<1>7. OwnDescriptors'
  BY <1>1, <1>2, <1>3, <1>4, SocketTypes, Owned, NamesApart, PointAssumption
  DEF OwnDescriptors, Sockets!OwnDescriptors
<1>8. Sockets!Leaked' = Sockets!Leaked
  BY <1>2, <1>3, <1>4, SocketTypes, NamesApart DEF Sockets!Leaked, Sockets!Numbers
<1>9. table[0] = "free" => table'[0] = "free"
  BY <1>2, <1>3, SocketTypes
<1>10. Cardinality(Sockets!Leaked') + Asking' <= zero'
  BY <1>2, <1>8, <1>9, NothingLost
<1> QED
  BY <1>2, <1>5, <1>6, <1>7, <1>10 DEF SocketInv

LEMMA ListenFailsKeeps ==
    ASSUME SocketInv, NEW s \in Sockets!Servers, Sockets!ListenFails(s)
    PROVE  SocketInv'
<1>1. PICK d : d = server[s]
  OBVIOUS
<1>2. /\ stage[s] = "bind" /\ table' = [table EXCEPT ![d] = "free"]
      /\ server' = [server EXCEPT ![s] = None]
      /\ UNCHANGED <<thread, reads, calls, fd, used, zero>>
  BY <1>1 DEF Sockets!ListenFails, Sockets!threads
<1>3. PICK e \in {"init", "gone"} : stage' = [stage EXCEPT ![s] = e]
  BY DEF Sockets!ListenFails, Sockets!Ends
<1>4. d \in 0 .. Limit - 1
  BY <1>1, <1>2, SocketTypes DEF SocketInv, ServerInv
<1>5. d # 0 => /\ table[d] = "bare"
               /\ \A r \in Sockets!Servers \ {s} : stage[r] = "bind" => server[r] # d
  BY <1>1, <1>2 DEF SocketInv, ServerInv
<1>6. /\ table' \in [0 .. Limit - 1 -> Sockets!Objects]
      /\ Cardinality(Sockets!Leaked') + Asking' <= zero'
  BY <1>2, <1>4, <1>5, Freed, NothingLost
<1>7. Sockets!TypeOK'
  BY <1>2, <1>3, <1>6, SocketTypes DEF Sockets!TypeOK, Sockets!Numbers
<1>8. ServerInv'
  BY <1>1, <1>2, <1>3, <1>4, <1>5, SocketTypes DEF SocketInv, ServerInv
<1>9. OwnDescriptors'
  BY <1>1, <1>2, <1>3, <1>4, <1>5, SocketTypes, Owned, NamesApart, PointAssumption
  DEF OwnDescriptors, Sockets!OwnDescriptors
<1> QED
  BY <1>2, <1>6, <1>7, <1>8, <1>9 DEF SocketInv

LEMMA OpenFailsKeeps ==
    ASSUME SocketInv, NEW s \in Sockets!Servers, Sockets!OpenFails(s)
    PROVE  SocketInv'
<1>1. PICK e \in {"init", "gone"} : stage' = [stage EXCEPT ![s] = e]
  BY DEF Sockets!OpenFails, Sockets!Ends
<1>2. UNCHANGED <<table, thread, server, reads, calls, fd, used, zero>>
  BY DEF Sockets!OpenFails, Sockets!threads
<1>3. Sockets!TypeOK'
  BY <1>1, <1>2, SocketTypes DEF Sockets!TypeOK, Sockets!Numbers
<1>4. ServerInv' /\ OwnDescriptors'
  BY <1>1, <1>2, SocketTypes DEF SocketInv, ServerInv, OwnDescriptors, Sockets!OwnDescriptors
<1>5. Sockets!Leaked' = Sockets!Leaked
  BY <1>2 DEF Sockets!Leaked
<1> QED
  BY <1>2, <1>3, <1>4, <1>5, NothingLost DEF SocketInv

LEMMA AcceptKeeps ==
    ASSUME SocketInv, NEW t \in Threads, Sockets!Accept(t)
    PROVE  SocketInv'
<1>1. PICK d : d = Sockets!Lowest
  OBVIOUS
<1>2. Sockets!Take(t) /\ t \in Sockets!Objects /\ t # "raw"
  BY NamesApart DEF Sockets!Accept, Sockets!Objects
<1>3. /\ d \in 0 .. Limit - 1 /\ table[d] = "free"
      /\ table' = [table EXCEPT ![d] = t]
      /\ table' \in [0 .. Limit - 1 -> Sockets!Objects] /\ zero' \in Nat
  BY <1>1, <1>2, Taken
<1>4. /\ fd' = [fd EXCEPT ![t] = d] /\ used' = used \cup {t}
      /\ UNCHANGED <<thread, server, stage, reads, calls>>
  BY <1>1 DEF Sockets!Accept, Sockets!servers
<1>5. Sockets!TypeOK'
  BY <1>3, <1>4, SocketTypes DEF Sockets!TypeOK, Sockets!Numbers
<1>6. d # 0 => /\ \A u \in Threads : fd[u] # d
               /\ \A r \in Sockets!Servers : stage[r] \in {"bind", "listen"} => server[r] # d
               /\ d \notin reads
  BY <1>3, FreeUnowned
<1>7. ServerInv'
  BY <1>3, <1>4, <1>6, SocketTypes DEF SocketInv, ServerInv
<1>8. OwnDescriptors'
  BY <1>3, <1>4, <1>6, SocketTypes, Owned DEF OwnDescriptors, Sockets!OwnDescriptors
<1>9. Cardinality(Sockets!Leaked') + Asking' <= zero'
  BY <1>2, <1>4, Taken, NothingLost
<1>10. \A u \in Threads : u \notin used' => fd'[u] = None
  BY <1>4, SocketTypes DEF SocketInv
<1> QED
  BY <1>5, <1>7, <1>8, <1>9, <1>10 DEF SocketInv

\* A station that goes closes what it works on: its own connection, or on 0
\* whatever is there.
LEMMA EndKeeps ==
    ASSUME SocketInv, NEW t \in Threads, Sockets!ThreadEnds(t)
    PROVE  SocketInv'
<1>1. PICK d : d = fd[t]
  OBVIOUS
<1>2. /\ d # None /\ table[d] \in Threads \cup {"plc", "peer"}
      /\ table' = [table EXCEPT ![d] = "free"] /\ fd' = [fd EXCEPT ![t] = None]
      /\ UNCHANGED <<thread, server, stage, reads, calls, used, zero>>
  BY <1>1 DEF Sockets!ThreadEnds, Sockets!Connections, Sockets!servers
<1>3. d \in 0 .. Limit - 1
  BY <1>1, <1>2, SocketTypes
<1>4. d # 0 => table[d] = t /\ \A u \in Threads \ {t} : fd[u] # d
  BY <1>1, <1>2, Owned
<1>5. /\ table' \in [0 .. Limit - 1 -> Sockets!Objects]
      /\ Cardinality(Sockets!Leaked') + Asking' <= zero'
  BY <1>2, <1>3, Freed, NothingLost, NamesApart
<1>6. Sockets!TypeOK'
  BY <1>2, <1>5, SocketTypes DEF Sockets!TypeOK, Sockets!Numbers
<1>7. ServerInv'
  BY <1>2, <1>3, <1>4, SocketTypes, NamesApart DEF SocketInv, ServerInv
<1>8. OwnDescriptors'
  BY <1>1, <1>2, <1>3, <1>4, SocketTypes, Owned, NamesApart
  DEF OwnDescriptors, Sockets!OwnDescriptors
<1>9. \A u \in Threads : u \notin used' => fd'[u] = None
  BY <1>2, SocketTypes DEF SocketInv
<1> QED
  BY <1>5, <1>6, <1>7, <1>8, <1>9 DEF SocketInv

\* The command server's connections.
LEMMA CommandKeeps ==
    ASSUME SocketInv, Sockets!CommandServer
    PROVE  SocketInv'
<1>1. CASE Sockets!AcceptCommand
  <2>1. PICK d : d = Sockets!Lowest
    OBVIOUS
  <2>2. Sockets!Take("peer") /\ "peer" \in Sockets!Objects
    BY <1>1 DEF Sockets!AcceptCommand, Sockets!Objects
  <2>3. /\ d \in 0 .. Limit - 1 /\ table[d] = "free"
        /\ table' = [table EXCEPT ![d] = "peer"]
        /\ table' \in [0 .. Limit - 1 -> Sockets!Objects] /\ zero' \in Nat
    BY <2>1, <2>2, Taken
  <2>4. /\ reads' = reads \cup {d} /\ calls' \in 0 .. MaxCalls
        /\ UNCHANGED <<thread, server, stage, fd, used>>
    BY <1>1, <2>1, SocketAssumption, SocketTypes
    DEF Sockets!AcceptCommand, Sockets!Count, Sockets!threads
  <2>5. Sockets!TypeOK'
    BY <2>3, <2>4, SocketTypes DEF Sockets!TypeOK, Sockets!Numbers
  <2>6. d # 0 => /\ \A u \in Threads : fd[u] # d
                 /\ \A r \in Sockets!Servers : stage[r] \in {"bind", "listen"} => server[r] # d
    BY <2>3, FreeUnowned
  <2>7. ServerInv'
    BY <2>3, <2>4, <2>6, SocketTypes DEF SocketInv, ServerInv
  <2>8. OwnDescriptors'
    BY <2>3, <2>4, <2>6, SocketTypes, Owned DEF OwnDescriptors, Sockets!OwnDescriptors
  <2>9. Cardinality(Sockets!Leaked') + Asking' <= zero'
    BY <2>2, <2>4, Taken, NothingLost
  <2> QED
    BY <2>4, <2>5, <2>7, <2>8, <2>9 DEF SocketInv
<1>2. CASE Sockets!SelectFails
  <2>1. /\ stage' = [stage EXCEPT !["command"] = "init"]
        /\ server' = [server EXCEPT !["command"] = None] /\ reads' = {}
        /\ UNCHANGED <<table, thread, calls, fd, used, zero>>
    BY <1>2 DEF Sockets!SelectFails, Sockets!threads
  <2>2. Sockets!TypeOK'
    BY <2>1, SocketTypes DEF Sockets!TypeOK, Sockets!Numbers
  <2>3. ServerInv' /\ OwnDescriptors'
    BY <2>1, SocketTypes DEF SocketInv, ServerInv, OwnDescriptors, Sockets!OwnDescriptors
  <2>4. Sockets!Leaked' = Sockets!Leaked
    BY <2>1 DEF Sockets!Leaked
  <2> QED
    BY <2>1, <2>2, <2>3, <2>4, NothingLost DEF SocketInv
<1>3. CASE \E d \in Sockets!Numbers : Sockets!HandleCommand(d)
  <2>1. PICK d \in 0 .. Limit - 1 : Sockets!HandleCommand(d)
    BY <1>3 DEF Sockets!Numbers
  <2>2. /\ d \in reads /\ reads' = reads \ {d} /\ table' = [table EXCEPT ![d] = "free"]
        /\ UNCHANGED <<thread, server, stage, calls, fd, used, zero>>
    BY <2>1 DEF Sockets!HandleCommand, Sockets!threads
  <2>3. d # 0 => table[d] = "peer"
    BY <2>2, Owned
  <2>4. /\ table' \in [0 .. Limit - 1 -> Sockets!Objects]
        /\ Cardinality(Sockets!Leaked') + Asking' <= zero'
    BY <2>2, <2>3, Freed, NothingLost
  <2>5. Sockets!TypeOK'
    BY <2>2, <2>4, SocketTypes DEF Sockets!TypeOK, Sockets!Numbers
  <2>6. ServerInv'
    BY <2>2, <2>3, SocketTypes DEF SocketInv, ServerInv
  <2>7. OwnDescriptors'
    BY <2>2, <2>3, SocketTypes, Owned, NamesApart DEF OwnDescriptors, Sockets!OwnDescriptors
  <2> QED
    BY <2>2, <2>4, <2>5, <2>6, <2>7 DEF SocketInv
<1> QED
  BY <1>1, <1>2, <1>3 DEF Sockets!CommandServer

LEMMA IdleKeepsSockets == SocketInv /\ UNCHANGED socketVars => SocketInv'
<1> SUFFICES ASSUME SocketInv, UNCHANGED socketVars PROVE SocketInv'
  OBVIOUS
<1>1. Sockets!Leaked' = Sockets!Leaked
  BY DEF socketVars, Sockets!Leaked
<1> QED
  BY <1>1 DEF socketVars, SocketInv, Sockets!TypeOK, Asking, ServerInv, OwnDescriptors,
     Sockets!OwnDescriptors

(* The invariant of the descriptors: who has which, and that the PLC       *)
(* thread never asks for a socket it would lose without that being counted *)
(* before (plc_observer_main, dnp_observer_main, accept_request,           *)
(* dnp_thread, command_handler_main).                                      *)
THEOREM SocketInvariant == MCSpec => []SocketInv
<1>1. MCInit => SocketInv
  BY InitSockets DEF MCInit
<1>2. SocketInv /\ [MCNext]_<<vars, sockets, socketVars>> => SocketInv'
  <2> SUFFICES ASSUME SocketInv, [MCNext]_<<vars, sockets, socketVars>> PROVE SocketInv'
    OBVIOUS
  <2>1. CASE Sockets!Next
    BY <2>1, PlcKeepsSockets, OpenKeeps, ListenKeeps, ListenFailsKeeps, OpenFailsKeeps,
       AcceptKeeps, EndKeeps, CommandKeeps DEF Sockets!Next
  <2>2. CASE UNCHANGED socketVars
    BY <2>2, IdleKeepsSockets
  <2> QED
    BY <2>1, <2>2 DEF MCNext, PointNext, SocketsNext
<1> QED
  BY <1>1, <1>2, PTL DEF MCSpec

(* A station on a descriptor other than 0 has it to itself and its         *)
(* connection open there, however the PLC came and went, and so have the   *)
(* server sockets and the command server's connections: the mistake with   *)
(* the result of socket reaches descriptor 0 only.                         *)
THEOREM DescriptorsKept == MCSpec => []OwnDescriptors
<1>1. SocketInv => OwnDescriptors
  BY DEF SocketInv
<1> QED
  BY SocketInvariant, <1>1, PTL

(* The PLC thread loses no more descriptors than other things took 0.      *)
THEOREM LeaksKnown == MCSpec => []LeaksCounted
<1>1. SocketInv => LeaksCounted
  <2> SUFFICES ASSUME SocketInv PROVE LeaksCounted
    OBVIOUS
  <2>1. Asking \in Nat /\ zero \in Nat
    BY DEF Asking, SocketInv, Sockets!TypeOK
  <2>2. Cardinality(Sockets!Leaked) + Asking <= zero
    BY DEF SocketInv
  <2>3. Cardinality(Sockets!Leaked) <= zero
    BY <2>1, <2>2, LeakedFinite
  <2> QED
    BY <2>3 DEF LeaksCounted, Sockets!LeaksCounted, Sockets!Cardinality, Cardinality
<1> QED
  BY SocketInvariant, <1>1, PTL
=============================================================================
