---------------------------- MODULE Calibration ----------------------------
(***************************************************************************)
(* Calibrating the analogue points (APP/Src/point_mgr.c, cmd_calibration   *)
(* of cmd_handler.c).  The command thread and the point thread meet over   *)
(* three plain variables, g_nCalReady, g_nCalGrp and g_nCalStatus, which   *)
(* each of them polls: the command thread sets the status and waits until  *)
(* it is CAL_NONE again, the point thread makes the pass the status asks   *)
(* for and resets it.  A JPT is calibrated in two passes with a wait in    *)
(* between, which only a second JPT command ends.                          *)
(*                                                                         *)
(* Of the table g_pCal the two raw values of the JPTs are kept, and of a   *)
(* value only when it was measured.  What cal reads with "D" and computes  *)
(* with pnt_cal_setvalue is left out: neither touches the handshake.       *)
(***************************************************************************)
EXTENDS Naturals

CONSTANTS Groups,         \* groups of eight points a command can name
          InputGroups,    \* those the ADC driver answers for
          FollowsScreen   \* the operator repeats jpt when the screen says so

ASSUME CalibrationAssumption == /\ 0 \in Groups
                                /\ InputGroups \subseteq Groups
                                /\ FollowsScreen \in BOOLEAN

VARIABLES ready,    \* g_nCalReady
          status,   \* g_nCalStatus
          grp,      \* g_nCalGrp
          stayVO,   \* g_nStayVO: the outputs are held at full scale
          conv,     \* g_pCal[..].cal_jpt.f_conv: low and high of each group
          file,     \* PointCalibration.dat
          cmd,      \* where the command thread is
          order,    \* the calibration command it executes
          pnt       \* where the point thread is

shared == <<ready, status, grp>>
data == <<conv, file>>
command == <<cmd, order>>
vars == <<ready, status, grp, stayVO, conv, file, cmd, order, pnt>>

Types == {"ZERO", "VI", "CI", "JPT", "VO"}
NoOrder == [type |-> "NONE"]
Orders == [type : Types, grp : Groups]

\* Where a raw value comes from: the file the node was delivered with, cal
\* init, or a pass.
Stamps == {"saved", "cleared", "measured"}
Table == [Groups -> [low : Stamps, high : Stamps]]
Cleared == [g \in Groups |-> [low |-> "cleared", high |-> "cleared"]]
\* A file that is shorter than a table.
Cut == [g \in Groups |-> [low |-> "cut", high |-> "cut"]]

\* Passes in which the point thread reads status and group.
Measuring == {"pass", "high"}

Init == /\ ready = FALSE
        /\ status = "NONE"
        /\ grp = 0
        /\ stayVO = FALSE
        /\ conv = [g \in Groups |-> [low |-> "saved", high |-> "saved"]]
        /\ file = conv
        /\ cmd = "idle"
        /\ order = NoOrder
        /\ pnt = "top"

-----------------------------------------------------------------------------
(* The command thread.  One thread serves every client, so the next        *)
(* command is read when the last one has returned.                         *)

\* On the screen: "Repeat jpt command for JPT1000 Max value".
Obeys(type, g) == FollowsScreen /\ pnt = "jpt_wait" => type = "JPT" /\ g = grp

\* cal load: the flag that lets the other commands through is never reset.
Load == /\ cmd = "idle"
        /\ pnt # "stopped"
        /\ Obeys("load", grp)
        /\ ready' = TRUE
        /\ status' = "NONE"
        /\ conv' = file
        /\ UNCHANGED <<grp, stayVO, file, command, pnt>>

CalInit == /\ cmd = "idle"
           /\ ready
           /\ Obeys("init", grp)
           /\ conv' = Cleared
           /\ UNCHANGED <<shared, stayVO, file, command, pnt>>

\* pnt_cal_save: the file is emptied, then written.
Save == /\ cmd = "idle"
        /\ ready
        /\ Obeys("save", grp)
        /\ file' = Cut
        /\ cmd' = "saving"
        /\ UNCHANGED <<shared, stayVO, conv, order, pnt>>

SaveDone == /\ cmd = "saving"
            /\ file' = conv
            /\ cmd' = "idle"
            /\ UNCHANGED <<shared, stayVO, conv, order, pnt>>

\* cal zero and cal grp type, up to the sleep(1).
Order(type, g) == /\ cmd = "idle"
                  /\ ready
                  /\ Obeys(type, g)
                  /\ cmd' = "sleep"
                  /\ order' = [type |-> type, grp |-> g]
                  /\ UNCHANGED <<shared, stayVO, data, pnt>>

\* The group, which cal zero leaves as it is, and then the status.
SetStatus == /\ cmd = "sleep"
             /\ status' = order.type
             /\ grp' = IF order.type = "ZERO" THEN grp ELSE order.grp
             /\ cmd' = "wait"
             /\ UNCHANGED <<ready, stayVO, data, order, pnt>>

\* Mutant: the command returns without waiting.
ReturnAtOnce == /\ cmd = "wait"
                /\ cmd' = "idle"
                /\ order' = NoOrder
                /\ UNCHANGED <<shared, stayVO, data, pnt>>

\* "Wait until the status of the calibration is initialised."
Return == /\ cmd = "wait"
          /\ status = "NONE"
          /\ cmd' = "idle"
          /\ order' = NoOrder
          /\ UNCHANGED <<shared, stayVO, data, pnt>>

-----------------------------------------------------------------------------
\* The point thread: scanning until calibration is ready, never afterwards.
Scan == /\ pnt = "top"
        /\ ~ready
        /\ pnt' = "scan"
        /\ UNCHANGED <<shared, stayVO, data, command>>

ScanDone == /\ pnt = "scan"
            /\ pnt' = "top"
            /\ UNCHANGED <<shared, stayVO, data, command>>

\* pnt_calibration with a status set: only the VO pass keeps the outputs up.
BeginPass == /\ pnt = "top"
             /\ ready
             /\ status # "NONE"
             /\ stayVO' = (status = "VO")
             /\ pnt' = "pass"
             /\ UNCHANGED <<shared, data, command>>

\* pnt_calibration without a status: the outputs once more.
Hold == /\ pnt = "top"
        /\ ready
        /\ status = "NONE"
        /\ stayVO
        /\ pnt' = "hold"
        /\ UNCHANGED <<shared, stayVO, data, command>>

HoldDone == /\ pnt = "hold"
            /\ pnt' = "top"
            /\ UNCHANGED <<shared, stayVO, data, command>>

\* A pass stores what the driver answers, which it does for inputs only.
Measure(end) == IF grp \in InputGroups
                THEN [conv EXCEPT ![grp][end] = "measured"] ELSE conv

\* Mutant: the status is not reset.
PassLeavesStatus == /\ pnt = "pass"
                    /\ status # "JPT"
                    /\ pnt' = IF stayVO THEN "hold" ELSE "top"
                    /\ UNCHANGED <<shared, stayVO, data, command>>

PassDone == /\ pnt = "pass"
            /\ status # "JPT"
            /\ status' = "NONE"
            /\ pnt' = IF stayVO THEN "hold" ELSE "top"
            /\ UNCHANGED <<ready, grp, stayVO, data, command>>

\* The low values are in; the status is reset, and the wait begins.
LowDone == /\ pnt = "pass"
           /\ status = "JPT"
           /\ conv' = Measure("low")
           /\ status' = "NONE"
           /\ pnt' = "jpt_wait"
           /\ UNCHANGED <<ready, grp, stayVO, file, command>>

\* Nothing but a JPT command ends it.
BeginHigh == /\ pnt = "jpt_wait"
             /\ status = "JPT"
             /\ pnt' = "high"
             /\ UNCHANGED <<shared, stayVO, data, command>>

\* Mutant: the second pass stores its values where the first one did.
HighStoresLow == /\ pnt = "high"
                 /\ conv' = Measure("low")
                 /\ status' = "NONE"
                 /\ pnt' = "top"
                 /\ UNCHANGED <<ready, grp, stayVO, file, command>>

HighDone == /\ pnt = "high"
            /\ conv' = Measure("high")
            /\ status' = "NONE"
            /\ pnt' = "top"
            /\ UNCHANGED <<ready, grp, stayVO, file, command>>

(* The process ends, wherever it is, and is started: calibration_init      *)
(* reads the file, and makes one if there is none.                         *)
StartWith(t, p) == /\ conv' = t
                   /\ pnt' = p
                   /\ ready' = FALSE
                   /\ status' = "NONE"
                   /\ grp' = 0
                   /\ stayVO' = FALSE
                   /\ cmd' = "idle"
                   /\ order' = NoOrder

\* Mutant: what could be read of a file is used.
RestartUnread == StartWith(file, "top") /\ UNCHANGED file

Restart == /\ file # Cut
           /\ StartWith(file, "top")
           /\ UNCHANGED file

\* main ends when a file is too short, however often it is started.
RestartRefused == /\ file = Cut
                  /\ StartWith(Cleared, "stopped")
                  /\ UNCHANGED file

Removed == /\ pnt = "stopped"
           /\ StartWith(Cleared, "top")
           /\ file' = Cleared

-----------------------------------------------------------------------------
CommandStep == SetStatus \/ Return \/ SaveDone

PointStep == \/ Scan \/ ScanDone
             \/ BeginPass \/ PassDone \/ Hold \/ HoldDone
             \/ LowDone \/ BeginHigh \/ HighDone

Next == \/ Load \/ CalInit \/ Save
        \/ \E type \in Types, g \in Groups : Order(type, g)
        \/ CommandStep
        \/ PointStep
        \/ Restart \/ RestartRefused \/ Removed

(* Both threads poll with a nanosleep in their loops, so each of them is   *)
(* scheduled again and again; nobody is obliged to type a command.         *)
Spec == Init /\ [][Next]_vars /\ WF_vars(CommandStep) /\ WF_vars(PointStep)

-----------------------------------------------------------------------------
\* The flags, the tables and the two threads have their types.
TypeOK == /\ ready \in BOOLEAN
          /\ status \in Types \cup {"NONE"}
          /\ grp \in Groups
          /\ stayVO \in BOOLEAN
          /\ conv \in Table
          /\ file \in Table \cup {Cut}
          /\ cmd \in {"idle", "sleep", "wait", "saving"}
          /\ order \in Orders \cup {NoOrder}
          /\ pnt \in {"top", "scan", "pass", "jpt_wait", "high", "hold",
                      "stopped"}

(* The flags alone keep the two threads out of each other's way: a pass    *)
(* runs only while the command thread waits for it, and the command thread *)
(* waits with its own order, not somebody else's, in the status.           *)
Handshake == /\ cmd # "wait" => status = "NONE"
             /\ cmd # "idle" => ready
             /\ cmd \in {"sleep", "wait"} => order \in Orders
             /\ cmd \in {"idle", "saving"} => order = NoOrder
             /\ status # "NONE" => status = order.type
             /\ pnt \in Measuring => status # "NONE"
             /\ pnt = "high" => status = "JPT"
             /\ file = Cut <=> cmd = "saving" \/ pnt = "stopped"
             /\ pnt = "stopped" => ~ready

HandshakeInv == TypeOK /\ Handshake

(* While a pass over a group is under way (pnt_calibration reads g_nCalGrp *)
(* for every point and g_nCalStatus for every answer) neither changes, and *)
(* nobody reloads or clears the table below it.                            *)
PassUndisturbed ==
    [][(pnt \in Measuring /\ pnt' = pnt) => UNCHANGED <<status, grp, conv>>]_vars

\* What both threads know of the order, and of a JPT between its two passes.
OrderInv == /\ cmd = "wait" /\ status = "JPT" => grp = order.grp
            /\ FollowsScreen /\ pnt \in {"jpt_wait", "high"} /\ cmd # "idle"
                  => order.type = "JPT" /\ order.grp = grp

(* An operator who follows the screen leaves no JPT half calibrated: once  *)
(* the second pass is over, the low and the high value of every group come *)
(* from the same calibration, in the table and in what cal save wrote.     *)
JptPairs == \A g \in Groups :
               /\ pnt \notin {"jpt_wait", "high"} => conv[g].low = conv[g].high
               /\ file[g].low = file[g].high

\* The group between its passes has its low value in; no other is out of step.
HalfInv == pnt \in {"jpt_wait", "high"} =>
              \A g \in Groups : IF g = grp /\ g \in InputGroups
                               THEN conv[g].low = "measured"
                               ELSE conv[g].low = conv[g].high

\* The inductive invariant behind JptPairs.
PairInv == HandshakeInv /\ OrderInv /\ (FollowsScreen => JptPairs /\ HalfInv)

(* "Wait until the status is initialised; the status is initialised when   *)
(* pnt_calibration() has finished the calibration" (point_mgr.c): a        *)
(* calibration command always returns, and so the one thread that serves   *)
(* every client of the command socket.                                     *)
CommandReturns == cmd # "idle" ~> cmd = "idle"
=============================================================================
