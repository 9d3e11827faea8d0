------------------------------ MODULE MCPower -------------------------------
(***************************************************************************)
(* The power station program: either one of its points, or the descriptors *)
(* of its threads, side by side in one run.                                *)
(***************************************************************************)
EXTENDS PlcPoint

CONSTANTS Threads, Limit, MaxCalls

\* More descriptors than the console has, and no thread with the name of
\* something else that may be open.
ASSUME SocketAssumption ==
    /\ Limit \in Nat /\ Limit > 3 /\ MaxCalls \in Nat
    /\ Threads \cap {"free", "console", "raw", "plc", "bare", "peer",
                     "dnp", "command"} = {}

VARIABLES sockets,   \* the run is about the descriptors
          table, thread, server, stage, reads, fd, zero, used, calls

socketVars == <<table, thread, server, stage, reads, fd, zero, used, calls>>
Sockets == INSTANCE PlcSockets WITH plc <- thread

\* Bound: the descriptor of each station, but with an input it may be 0 too.
Home == CHOOSE f \in [Clients -> Descriptors \ {0}] :
           \A c, d \in Clients : c # d => f[c] # f[d]
Bounded(c) == sock[c] \in {None, Home[c]} \cup (IF kind = "DI" THEN {0} ELSE {})

MCInit == /\ Init /\ Sockets!Init
          /\ sockets \in BOOLEAN
          /\ sockets => kind = "DI" /\ held = 0

PointNext == /\ ~sockets
             /\ Next
             /\ \A c \in Clients : Bounded(c)'
             /\ UNCHANGED <<sockets, socketVars>>
SocketsNext == sockets /\ Sockets!Next /\ UNCHANGED <<sockets, vars>>
MCNext == PointNext \/ SocketsNext

MCSpec == /\ MCInit /\ [][MCNext]_<<vars, sockets, socketVars>>
          /\ sockets => Sockets!Fairness

(* The mistake with the PLC's socket reaches descriptor 0 only             *)
(* (plc_observer_main, dnp_thread and command_handler_main;                *)
(* OwnDescriptors of PlcSockets).                                          *)
OwnDescriptors == Sockets!OwnDescriptors

(* A descriptor is lost only where something else held 0 (LeaksCounted).   *)
LeaksCounted == Sockets!LeaksCounted

(* The PLC is reached again and again while the process has a descriptor   *)
(* left (plc_observer_main, PlcReached).                                   *)
PlcReached == sockets => Sockets!PlcReached
=============================================================================
