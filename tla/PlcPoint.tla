------------------------------ MODULE PlcPoint ------------------------------
(***************************************************************************)
(* One point of the power station program (IFACE/PowerStation/plc_app)     *)
(* between the PLC, which PLC_OBSERVER/plc_observer.c reads and writes in  *)
(* turns, the stations, each with a thread of DNP_OBSERVER/dnp_observer.c, *)
(* and the command server of COMMAND/cmd_server.c.                         *)
(*                                                                         *)
(* They share the record of the point without a lock; dnpObserver_mutex    *)
(* only keeps the threads of the stations apart.  Two protocols run over   *)
(* its fields.  Unsol tells who has been sent the value: 0 is everybody,   *)
(* 1 nobody, anything else the descriptor of the one station that has.     *)
(* WrFlag asks the PLC thread to write, WrVal of an output or PrevVal of a *)
(* setpoint.  The histories name the steps at which one of them fails.     *)
(***************************************************************************)
EXTENDS Integers, Sequences

CONSTANTS Clients,      \* stations
          Descriptors,  \* what accept may return
          Values,       \* of the point; 0 is what a new table holds
          Retries,      \* failed connects before the table is made anew (3)
          None,         \* no station, no descriptor, no command
          Unknown,      \* a station that has not asked yet
          MaxEvents     \* bound: changes, commands and connections

ASSUME PointAssumption ==
    /\ Descriptors \subseteq Nat \ {1}
    /\ {0, 1} \subseteq Values /\ Values \subseteq Nat
    /\ Retries \in Nat /\ MaxEvents \in Nat
    /\ None \notin Clients \cup Nat /\ Unknown \notin Nat

VARIABLES kind,      \* which table the point is in
          val, prevVal, unsol, wrFlag, wrVal,   \* the record
          held,      \* the value in the PLC
          plc,       \* the PLC thread
          sock,      \* the connection of each station
          view,      \* the value each station was sent last
          link,      \* link_status
          dnp,       \* the station thread that holds dnpObserver_mutex
          cmd,       \* what the command server is about to store
          missed,    \* history: stations a known fault keeps the value from
          cleared,   \* history: the command server has just set PrevVal to 0
          order,     \* history: the last command of a station
          fate,      \* history: what became of it
          events

record == <<val, prevVal, unsol, wrFlag, wrVal>>
station == <<sock, view, link, dnp>>
told == <<missed, cleared>>
ordered == <<order, fate>>
vars == <<kind, record, held, plc, station, cmd, told, ordered, events>>

Kinds == {"DI", "DO", "AO"}
Digital == {"DI", "DO"}
Turns == {"DI", "DO", "AI", "AO"}
After == [DI |-> "DO", DO |-> "AI", AI |-> "AO", AO |-> "DI"]

Connected == {c \in Clients : sock[c] # None}
\* The stations that were sent something else than v.
Apart(v) == {c \in Clients : view[c] \notin {Unknown, v}}
\* What a station that asked once is not sent again.
Due(c) == unsol \notin {0, sock[c]}
\* The value to be written.
Ordered == IF kind = "AO" THEN prevVal ELSE wrVal
AboutToFlag == plc.at = "flag" \/ (plc.at = "compare" /\ val # prevVal)
HalfWay == dnp.at = "flag" \/ cmd.fields # << >>

\* A command still waiting is lost.
Lose == /\ order' = IF fate = "waiting" THEN None ELSE order
        /\ fate' = IF fate = "waiting" THEN "none" ELSE fate

Count == events < MaxEvents /\ events' = events + 1
Nothing == [who |-> None, at |-> "idle", copied |-> 0, looked |-> 0]

Init == /\ kind \in Kinds
        /\ val = 0 /\ prevVal = 0 /\ unsol = 0 /\ wrFlag = 0 /\ wrVal = 0
        /\ held \in Values
        /\ plc = [at |-> "connect", turn |-> "DI", ok |-> TRUE, taken |-> 0, fails |-> 0]
        /\ sock = [c \in Clients |-> None]
        /\ view = [c \in Clients |-> Unknown]
        /\ link = 0
        /\ dnp = Nothing
        /\ cmd = [fields |-> << >>, arg |-> 0]
        /\ missed = {} /\ cleared = FALSE
        /\ order = None /\ fate = "none"
        /\ events = 0

-----------------------------------------------------------------------------
\* plc_observer_main.
At(s) == plc.at = s
Go(s) == plc' = [plc EXCEPT !.at = s]

(* PLC_CREATE_SOCKET: every connect that fails once too often makes the    *)
(* tables anew.                                                            *)
ConnectPlc == /\ At("connect")
              /\ plc' = [plc EXCEPT !.at = "read", !.turn = "DI", !.fails = 0]
              /\ UNCHANGED <<record, told, ordered>>

ConnectFails == /\ At("connect")
                /\ plc' = IF plc.fails < Retries
                          THEN [plc EXCEPT !.fails = @ + 1]
                          ELSE [plc EXCEPT !.at = "zero_unsol", !.fails = 0]
                /\ UNCHANGED <<record, told, ordered>>

\* PLC_point_define: 0 in every field but WrVal, one after the other (PLC_DIO_define,
\* PLC_AIO_define).  Who was sent another value than 0 is not told.
DefineUnsol == /\ At("zero_unsol")
               /\ unsol' = 0
               /\ Go("zero_val")
               /\ UNCHANGED <<val, prevVal, wrFlag, wrVal, told, ordered>>

DefineVal == /\ At("zero_val")
             /\ val' = 0
             /\ missed' = missed \cup Apart(0)
             /\ Go("zero_prev")
             /\ UNCHANGED <<prevVal, unsol, wrFlag, wrVal, cleared, ordered>>

DefinePrev == /\ At("zero_prev")
              /\ prevVal' = 0
              /\ IF kind = "AO" THEN Lose ELSE UNCHANGED ordered
              /\ Go("zero_flag")
              /\ UNCHANGED <<val, unsol, wrFlag, wrVal, told>>

DefineFlag == /\ At("zero_flag")
              /\ wrFlag' = 0
              /\ Lose
              /\ Go("connect")
              /\ UNCHANGED <<val, prevVal, unsol, wrVal, told>>

\* A block of other points, or one whose reply is late, short or missing.
ReadOthers == /\ At("read")
              /\ \E ok \in BOOLEAN :
                    /\ ok => kind # plc.turn
                    /\ plc' = [plc EXCEPT !.at = "write", !.ok = ok]
              /\ UNCHANGED <<record, told, ordered>>

\* ReadDIOBlock: val is stored first, and compared afterwards.
ReadDigital == /\ At("read")
               /\ kind = plc.turn /\ kind \in Digital
               /\ val' = held
               /\ Go("compare")
               /\ UNCHANGED <<prevVal, unsol, wrFlag, wrVal, told, ordered>>

\* Mutant: a value a station was already told is not news to the others.
CompareOnce == /\ At("compare")
               /\ unsol' = IF val # prevVal /\ unsol = 0 THEN 1 ELSE unsol
               /\ missed' = IF val = prevVal /\ cleared THEN missed \cup Apart(val) ELSE missed
               /\ Go("keep")
               /\ UNCHANGED <<val, prevVal, wrFlag, wrVal, cleared, ordered>>

Compare == /\ At("compare")
           /\ unsol' = IF val # prevVal THEN 1 ELSE unsol
           /\ missed' = IF val = prevVal /\ cleared THEN missed \cup Apart(val) ELSE missed
           /\ Go("keep")
           /\ UNCHANGED <<val, prevVal, wrFlag, wrVal, cleared, ordered>>

\* The block may still fail for another one after it.
Keep == /\ At("keep")
        /\ prevVal' = val
        /\ cleared' = FALSE
        /\ \E ok \in BOOLEAN : plc' = [plc EXCEPT !.at = "write", !.ok = ok]
        /\ UNCHANGED <<val, unsol, wrFlag, wrVal, missed, ordered>>

\* Mutant: PrevVal follows the value, as it does for the digital points.
ReadAnalogKeeps == /\ At("read")
                   /\ kind = plc.turn /\ kind = "AO"
                   /\ val' = held /\ prevVal' = held
                   /\ missed' = IF held # val THEN missed \cup Apart(held) ELSE missed
                   /\ plc' = [plc EXCEPT !.at = "write"]
                   /\ UNCHANGED <<unsol, wrFlag, wrVal, cleared, ordered>>

\* ReadAIOBlock: a setpoint changed at the PLC is not told, only read.
ReadAnalog == /\ At("read")
              /\ kind = plc.turn /\ kind = "AO"
              /\ val' = held
              /\ missed' = IF held # val THEN missed \cup Apart(held) ELSE missed
              /\ \E ok \in BOOLEAN : plc' = [plc EXCEPT !.at = "write", !.ok = ok]
              /\ UNCHANGED <<prevVal, unsol, wrFlag, wrVal, cleared, ordered>>

\* The end of a turn.
Done == plc' = IF plc.ok
               THEN [plc EXCEPT !.at = "read", !.turn = After[plc.turn], !.taken = 0]
               ELSE [plc EXCEPT !.at = "close", !.turn = "DI", !.ok = TRUE, !.taken = 0]

\* PLC_write, also after a block that failed.
Take == /\ At("write")
        /\ kind # "DI"
        /\ wrFlag = 1
        /\ plc' = [plc EXCEPT !.at = "request", !.taken = Ordered]
        /\ fate' = IF fate = "waiting" /\ ~HalfWay THEN "taken" ELSE fate
        /\ UNCHANGED <<record, told, order>>

TakeNothing == /\ At("write")
               /\ kind = "DI" \/ wrFlag = 0
               /\ Done
               /\ UNCHANGED <<record, told, ordered>>

\* WrFlag is reset however the write went, for a command that came meanwhile too.
Clear == /\ At("clear")
         /\ wrFlag' = 0
         /\ order' = None /\ fate' = "none"
         /\ IF kind = "AO" THEN plc' = [plc EXCEPT !.at = "show", !.taken = 0] ELSE Done
         /\ UNCHANGED <<val, prevVal, unsol, wrVal, told>>

\* The value of a setpoint is what PrevVal is now, written or not.
Show == /\ At("show")
        /\ val' = prevVal
        /\ Go("flag")
        /\ UNCHANGED <<prevVal, unsol, wrFlag, wrVal, told, ordered>>

Flag == /\ At("flag")
        /\ unsol' = 1
        /\ Done
        /\ UNCHANGED <<val, prevVal, wrFlag, wrVal, told, ordered>>

\* PLC_CLOSE_SOCKET.
Close == /\ At("close")
         /\ Go("connect")
         /\ UNCHANGED <<record, told, ordered>>

(* WriteAOPoint, whose result nobody looks at, and WriteDOPoint, a pulse   *)
(* the point answers with a Change or not.                                 *)
Write == /\ At("request")
         /\ held' \in IF kind = "AO" THEN {held, plc.taken} ELSE {held}
         /\ Go("clear")
         /\ UNCHANGED <<record, told, ordered>>

PlcStep == /\ \/ /\ \/ ConnectPlc \/ ConnectFails
                    \/ DefineUnsol \/ DefineVal \/ DefinePrev \/ DefineFlag
                    \/ ReadOthers \/ ReadDigital
                    \/ Compare \/ Keep \/ ReadAnalog \/ Take \/ TakeNothing
                    \/ Clear \/ Show \/ Flag \/ Close
                 /\ UNCHANGED held
              \/ Write
           /\ UNCHANGED <<kind, station, cmd, events>>
-----------------------------------------------------------------------------
\* accept_request: a thread for every connection; the station knows nothing.
Connect(c) == /\ Count
              /\ sock[c] = None
              /\ \E d \in Descriptors \ {sock[k] : k \in Clients} : sock' = [sock EXCEPT ![c] = d]
              /\ UNCHANGED <<kind, record, held, plc, view, link, dnp, cmd, told, ordered>>

\* dnp_thread: the mutex, then check_unsol.  An output whose EnUnsol is 0
\* is only told along with one whose is not.
Lock(c) == /\ sock[c] # None
           /\ dnp.who = None
           /\ \E s \in {"due", "recv"} :
                 /\ s = "due" => link = 1 /\ Due(c)
                 /\ s = "recv" => link = 0 \/ ~Due(c) \/ kind = "DO"
                 /\ dnp' = [dnp EXCEPT !.who = c, !.at = s]
           /\ UNCHANGED <<kind, record, held, plc, sock, view, link, cmd, told, ordered, events>>

DnpAt(s) == dnp.at = s

\* mk_unsol, mk_unsol_do, mk_unsol_ao: the value into the message, ...
Copy == /\ DnpAt("due")
        /\ dnp' = [dnp EXCEPT !.at = "copied", !.copied = val]
        /\ UNCHANGED <<kind, record, held, plc, sock, view, link, cmd, told, ordered, events>>

\* ... Unsol tested, ...
Look == /\ DnpAt("copied")
        /\ dnp' = [dnp EXCEPT !.at = "mark", !.looked = unsol]
        /\ UNCHANGED <<kind, record, held, plc, sock, view, link, cmd, told, ordered, events>>

\* Unsol is one byte.
Stamp(d) == d % 256

(* ... and stored.  The faults: a value newer than the copied one counts   *)
(* as told, unless the PLC thread is only about to set Unsol for it; the   *)
(* second station told is taken for the last one, on descriptor 0 the      *)
(* first; a 1 that was stored after the test is overwritten; the low byte  *)
(* of a descriptor over 255 stands for another station.                    *)
Mark == LET c == dnp.who
            mark == IF dnp.looked = 1 THEN Stamp(sock[c]) ELSE 0
            stale == IF dnp.copied # val /\ ~AboutToFlag THEN {c} ELSE {}
            others == {x \in Connected \ {c} :
                          IF mark = 0 THEN sock[x] # dnp.looked \/ unsol # dnp.looked
                                      ELSE sock[x] = mark}
        IN /\ DnpAt("mark")
           /\ unsol' = mark
           /\ view' = [view EXCEPT ![c] = dnp.copied]
           /\ missed' = (missed \ {c}) \cup stale \cup others
           /\ dnp' = [Nothing EXCEPT !.who = c, !.at = "recv"]
           /\ UNCHANGED <<kind, val, prevVal, wrFlag, wrVal, held, plc, sock,
                          link, cmd, cleared, ordered, events>>

\* mk_unsol_ao leaves 1 in the message for the number of its points: another
\* setpoint came first, and the station does not look further.
MarkBehind == /\ DnpAt("mark")
              /\ kind = "AO"
              /\ unsol' = IF dnp.looked = 1 THEN Stamp(sock[dnp.who]) ELSE 0
              /\ missed' = missed \cup (IF unsol' = 0 THEN Connected
                                        ELSE {dnp.who} \cup {x \in Connected : sock[x] = unsol'})
              /\ dnp' = [Nothing EXCEPT !.who = dnp.who, !.at = "recv"]
              /\ UNCHANGED <<kind, val, prevVal, wrFlag, wrVal, held, plc, sock,
                             view, link, cmd, cleared, ordered, events>>

\* recv: nothing, or the end of the connection, which takes link_status with it.
RecvNothing == /\ DnpAt("recv")
               /\ dnp' = Nothing
               /\ UNCHANGED <<kind, record, held, plc, sock, view, link, cmd, told, ordered, events>>

RecvEnd == /\ DnpAt("recv")
           /\ sock' = [sock EXCEPT ![dnp.who] = None]
           /\ view' = [view EXCEPT ![dnp.who] = Unknown]
           /\ link' = 0
           /\ missed' = missed \ {dnp.who}
           /\ dnp' = Nothing
           /\ UNCHANGED <<kind, record, held, plc, cmd, cleared, ordered, events>>

\* RESET_LINK, and DNP_READ (rd_point).
RecvReset == /\ DnpAt("recv")
             /\ link' = 1
             /\ dnp' = Nothing
             /\ UNCHANGED <<kind, record, held, plc, sock, view, cmd, told, ordered, events>>

RecvRead == /\ DnpAt("recv")
            /\ view' = [view EXCEPT ![dnp.who] = val]
            /\ missed' = missed \ {dnp.who}
            /\ dnp' = Nothing
            /\ UNCHANGED <<kind, record, held, plc, sock, link, cmd, cleared, ordered, events>>

\* DNP_DOPERATE (wr_point): the value, or with a control code that is neither
\* 0x81 nor 0x41 what is in WrVal already, ...
RecvOperate(v) == /\ DnpAt("recv")
                  /\ Count
                  /\ \/ kind = "DO" /\ v \in {0, 1} /\ wrVal' = v /\ UNCHANGED prevVal
                     \/ kind = "AO" /\ prevVal' = v /\ UNCHANGED wrVal
                  /\ dnp' = [dnp EXCEPT !.at = "flag", !.copied = v]
                  /\ UNCHANGED <<kind, val, unsol, wrFlag, held, plc, sock, view, link, cmd,
                                 told, ordered>>

\* ... and the flag.  By then a new table or the command server may have
\* stored another value.
Operate == /\ DnpAt("flag")
           /\ wrFlag' = 1
           /\ IF Ordered = dnp.copied THEN order' = dnp.copied /\ fate' = "waiting"
                                       ELSE order' = None /\ fate' = "none"
           /\ dnp' = Nothing
           /\ UNCHANGED <<kind, val, prevVal, unsol, wrVal, held, plc, sock, view, link, cmd,
                          told, events>>

DnpStep == \/ \E c \in Clients : Lock(c)
           \/ Copy \/ Look \/ Mark \/ MarkBehind
           \/ RecvNothing \/ RecvEnd \/ RecvReset \/ RecvRead
           \/ (\E v \in Values : RecvOperate(v)) \/ Operate

-----------------------------------------------------------------------------
(* DnpSet_Proc, the command server.  An output is set to 1 whatever the    *)
(* command says, WrFlag is set before the value, and PrevVal is cleared;   *)
(* a setpoint gets its value first.                                        *)
SetStart(v) == /\ cmd.fields = << >>
               /\ Count
               /\ \/ /\ kind = "DO"
                     /\ cmd' = [fields |-> <<"wrFlag", "wrVal", "prevVal">>, arg |-> 0]
                  \/ /\ kind = "AO"
                     /\ cmd' = [fields |-> <<"prevVal", "wrFlag">>, arg |-> v]
               /\ UNCHANGED <<kind, record, held, plc, station, told, ordered>>

SetStore == /\ cmd.fields # << >>
            /\ LET f == Head(cmd.fields)
               IN /\ wrFlag' = IF f = "wrFlag" THEN 1 ELSE wrFlag
                  /\ wrVal' = IF f = "wrVal" THEN 1 ELSE wrVal
                  /\ prevVal' = IF f # "prevVal" THEN prevVal
                                ELSE IF kind = "DO" THEN 0 ELSE cmd.arg
                  /\ cleared' = (cleared \/ (f = "prevVal" /\ kind = "DO"))
            /\ Lose
            /\ cmd' = [fields |-> Tail(cmd.fields), arg |-> IF Len(cmd.fields) = 1 THEN 0 ELSE cmd.arg]
            /\ UNCHANGED <<kind, val, unsol, held, plc, station, missed, events>>

-----------------------------------------------------------------------------
\* What the point does by itself, or in answer to a pulse.
Change(v) == /\ Count
             /\ held # v
             /\ held' = v
             /\ UNCHANGED <<kind, record, plc, station, cmd, told, ordered>>

Next == \/ PlcStep \/ DnpStep \/ SetStore
        \/ \E c \in Clients : Connect(c)
        \/ \E v \in Values : SetStart(v) \/ Change(v)

Spec == Init /\ [][Next]_vars

-----------------------------------------------------------------------------
States == {"connect", "read", "compare", "keep", "write", "request", "clear",
           "show", "flag", "close", "zero_unsol", "zero_val", "zero_prev", "zero_flag"}
\* What the command server has left to store.
Fields == {<< >>, <<"wrFlag", "wrVal", "prevVal">>, <<"wrVal", "prevVal">>, <<"prevVal">>,
           <<"prevVal", "wrFlag">>, <<"wrFlag">>}
Unsols == 0 .. 255
PlcThreads == [at : States, turn : Turns, ok : BOOLEAN, taken : Values, fails : 0 .. Retries]
DnpThreads == [who : Clients \cup {None},
               at : {"idle", "due", "copied", "mark", "recv", "flag"},
               copied : Values, looked : Unsols]
Commands == [fields : Fields, arg : Values]

\* The type of every variable.
TypeOK == /\ kind \in Kinds
          /\ val \in Values /\ prevVal \in Values /\ wrVal \in Values /\ held \in Values
          /\ unsol \in Unsols /\ wrFlag \in {0, 1}
          /\ plc \in PlcThreads
          /\ sock \in [Clients -> Descriptors \cup {None}]
          /\ view \in [Clients -> Values \cup {Unknown}]
          /\ link \in {0, 1}
          /\ dnp \in DnpThreads
          /\ cmd \in Commands
          /\ missed \in SUBSET Clients /\ cleared \in BOOLEAN
          /\ order \in Values \cup {None} /\ fate \in {"none", "waiting", "taken"}
          /\ events \in 0 .. MaxEvents

(* What a station was sent last is the value, or Unsol says that it is     *)
(* still to be sent it, or the PLC thread is between storing one of the    *)
(* two and the other, or a fault named above has kept it from the station. *)
NewsKept == \A c \in Connected : \/ view[c] \in {Unknown, val}
                                \/ Due(c)
                                \/ c \in missed
                                \/ plc.at \in {"compare", "flag", "zero_val"}

(* A command of a station waits with its flag and its value until the PLC  *)
(* thread takes that value, unless a command that came while another was   *)
(* written lost its flag with it, or another writer or a new table came in *)
(* between (wr_point, PLC_write, DnpSet_Proc, PLC_point_define).           *)
CommandKept == /\ fate = "waiting" /\ ~HalfWay => wrFlag = 1 /\ Ordered = order
               /\ fate = "taken" => plc.taken = order
=============================================================================
