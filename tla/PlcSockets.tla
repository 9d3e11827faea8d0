----------------------------- MODULE PlcSockets -----------------------------
(***************************************************************************)
(* The descriptors of the power station program (plc_observer_main,        *)
(* dnp_observer_main, accept_request and dnp_thread, command_handler_main  *)
(* of plc_app).                                                            *)
(*                                                                         *)
(*     if (sock_fd = socket(AF_INET, SOCK_STREAM, 0) < 0)                  *)
(*                                                                         *)
(* stores the result of the comparison: the PLC thread works on descriptor *)
(* 0 whatever socket() returned.  That is the descriptor it closed before, *)
(* unless something else has got it in between: a server socket, a station *)
(* or a connection of the command server, which lasts for one command.     *)
(***************************************************************************)
EXTENDS Integers, FiniteSets, FiniteSetsExt

CONSTANTS Threads,   \* connections of stations, each with its thread
          Limit,     \* descriptors of the process, more than 3
          None,      \* no descriptor
          MaxCalls   \* bound: sockets the command server opens or accepts

VARIABLES table,   \* what is open
          plc,     \* the PLC thread
          server,  \* the server_socket of each server
          stage,   \* how far each server has got
          reads,   \* the connections in the command server's fd set
          fd,      \* the descriptor each thread works on
          zero,    \* history: how often 0 was taken by something else
          used,    \* history: threads that were started
          calls

vars == <<table, plc, server, stage, reads, fd, zero, used, calls>>
servers == <<server, stage, reads, calls>>
threads == <<fd, used>>

\* dnp_observer_main and command_handler_main; their names stand for the
\* sockets that listen on their ports, "bare" for one that does not yet.
Servers == {"dnp", "command"}
Numbers == 0 .. Limit - 1
Objects == {"free", "console", "raw", "plc", "bare", "peer"} \cup Servers \cup Threads

FreeOnes == {d \in Numbers : table[d] = "free"}
Lowest == Min(FreeOnes)
Leaked == {d \in Numbers \ {0} : table[d] = "raw"}

\* socket and accept return the lowest descriptor that is free.
Take(o) == /\ FreeOnes # {}
           /\ table' = [table EXCEPT ![Lowest] = o]
           /\ zero' = IF Lowest = 0 THEN zero + 1 ELSE zero

Init == /\ table = [d \in Numbers |-> IF d < 3 THEN "console" ELSE "free"]
        /\ plc = "socket"
        /\ server = [s \in Servers |-> None]
        /\ stage = [s \in Servers |-> "init"]
        /\ reads = {}
        /\ fd = [t \in Threads |-> None]
        /\ zero = 1
        /\ used = {}
        /\ calls = 0

-----------------------------------------------------------------------------
\* PLC_CREATE_SOCKET; without a free descriptor it is tried again at once.
Socket == /\ plc = "socket"
          /\ FreeOnes # {}
          /\ table' = [table EXCEPT ![Lowest] = "raw"]
          /\ plc' = "connect"
          /\ UNCHANGED <<servers, threads, zero>>

\* connect works on a socket that is not connected or listening, if the PLC
\* answers, also on one a server has just opened.
Connect == /\ plc = "connect"
           /\ table[0] \in {"raw", "bare"}
           /\ table' = [table EXCEPT ![0] = "plc"]
           /\ plc' = "run"
           /\ UNCHANGED <<servers, threads, zero>>

ConnectFails == /\ plc = "connect"
                /\ plc' = "failed"
                /\ UNCHANGED <<table, servers, threads, zero>>

\* Mutant: the next connect is tried on the descriptor just closed.
FailedTriesAgain == /\ plc = "failed"
                    /\ table' = [table EXCEPT ![0] = "free"]
                    /\ plc' = "connect"
                    /\ UNCHANGED <<servers, threads, zero>>

\* sleep(1) and close, of whatever 0 is by now.
CloseFailed == /\ plc = "failed"
               /\ table' = [table EXCEPT ![0] = "free"]
               /\ plc' = "socket"
               /\ UNCHANGED <<servers, threads, zero>>

\* A block whose reply is late, wrong or read by somebody else.
RunFails == /\ plc = "run"
            /\ plc' = "close"
            /\ UNCHANGED <<table, servers, threads, zero>>

\* Mutant: PLC_CLOSE_SOCKET only sleeps.
CloseSleeps == plc = "close" /\ plc' = "sleep" /\ UNCHANGED <<table, servers, threads, zero>>

\* PLC_CLOSE_SOCKET: close, and sleep(1) before the next socket.
Close == /\ plc = "close"
         /\ table' = [table EXCEPT ![0] = "free"]
         /\ plc' = "sleep"
         /\ UNCHANGED <<servers, threads, zero>>

Wake == /\ plc = "sleep"
        /\ plc' = "socket"
        /\ UNCHANGED <<table, servers, threads, zero>>

PlcThread == ConnectFails \/ CloseFailed \/ Close \/ Wake

-----------------------------------------------------------------------------
Count == calls < MaxCalls /\ calls' = calls + 1

(* The server sockets of dnp_observer_main, once, and of the command       *)
(* server's INIT_PROCESS, again and again: socket, bind, listen.           *)
Open(s) == /\ stage[s] = "init"
           /\ Take("bare")
           /\ server' = [server EXCEPT ![s] = Lowest]
           /\ stage' = [stage EXCEPT ![s] = "bind"]
           /\ IF s = "command" THEN Count ELSE UNCHANGED calls
           /\ UNCHANGED <<plc, reads, threads>>

\* bind and listen work on what 0 is by now, the PLC's socket too, but not
\* while another socket has the port.
Listen(s) == /\ stage[s] = "bind"
             /\ table[server[s]] \in {"bare", "raw"}
             /\ \A d \in Numbers : table[d] # s
             /\ table' = [table EXCEPT ![server[s]] = s]
             /\ stage' = [stage EXCEPT ![s] = "listen"]
             /\ UNCHANGED <<plc, server, reads, calls, threads, zero>>

\* One of them fails: the socket is closed, and only the command server tries again.
Ends(s) == stage' = [stage EXCEPT ![s] = IF s = "command" THEN "init" ELSE "gone"]

ListenFails(s) == /\ stage[s] = "bind"
                  /\ table' = [table EXCEPT ![server[s]] = "free"]
                  /\ server' = [server EXCEPT ![s] = None]
                  /\ Ends(s)
                  /\ UNCHANGED <<plc, reads, calls, threads, zero>>

OpenFails(s) == /\ stage[s] = "init"
                /\ FreeOnes = {}
                /\ Ends(s)
                /\ UNCHANGED <<table, plc, server, reads, calls, threads, zero>>

\* accept_request and the start of a thread, on what server_socket is by now.
Accept(t) == /\ stage["dnp"] = "listen"
             /\ table[server["dnp"]] \in Servers
             /\ t \notin used
             /\ Take(t)
             /\ fd' = [fd EXCEPT ![t] = Lowest]
             /\ used' = used \cup {t}
             /\ UNCHANGED <<plc, servers>>

\* The other end of a connection, whoever has it, may close.
Connections == Threads \cup {"plc", "peer"}

\* Mutant: the thread goes on with a descriptor it closed.
EndsLate(t) == /\ fd[t] # None
               /\ table[fd[t]] \in Connections
               /\ table' = [table EXCEPT ![fd[t]] = "free"]
               /\ UNCHANGED <<plc, servers, threads, zero>>

\* dnp_thread: recv returns 0 where the other end closed, whoever that is.
ThreadEnds(t) == /\ fd[t] # None
                 /\ table[fd[t]] \in Connections
                 /\ table' = [table EXCEPT ![fd[t]] = "free"]
                 /\ fd' = [fd EXCEPT ![t] = None]
                 /\ UNCHANGED <<plc, servers, used, zero>>

-----------------------------------------------------------------------------
\* CONNECTION_REQUESTED of the command server.
AcceptCommand == /\ stage["command"] = "listen"
                 /\ table[server["command"]] \in Servers
                 /\ Take("peer")
                 /\ reads' = reads \cup {Lowest}
                 /\ Count
                 /\ UNCHANGED <<plc, server, stage, threads>>

\* HANDLE_COMMAND: whatever came, the descriptor is closed at the end.
HandleCommand(d) == /\ stage["command"] = "listen"
                    /\ d \in reads
                    /\ table' = [table EXCEPT ![d] = "free"]
                    /\ reads' = reads \ {d}
                    /\ UNCHANGED <<plc, server, stage, calls, threads, zero>>

\* select fails where one of its descriptors is closed: the server begins
\* anew and leaves all of them as they are.
SelectFails == /\ stage["command"] = "listen"
               /\ \E d \in reads \cup {server["command"]} : table[d] = "free"
               /\ stage' = [stage EXCEPT !["command"] = "init"]
               /\ server' = [server EXCEPT !["command"] = None]
               /\ reads' = {}
               /\ UNCHANGED <<table, plc, calls, threads, zero>>

CommandServer == \/ AcceptCommand \/ SelectFails
                 \/ \E d \in Numbers : HandleCommand(d)

Next == \/ PlcThread \/ Socket \/ Connect \/ RunFails
        \/ \E s \in Servers : Open(s) \/ Listen(s) \/ ListenFails(s) \/ OpenFails(s)
        \/ \E t \in Threads : Accept(t) \/ ThreadEnds(t)
        \/ CommandServer

(* The PLC thread goes on, a block fails without the PLC, and the PLC      *)
(* answers a connect that is tried again and again.                        *)
Fairness == /\ WF_vars(PlcThread) /\ WF_vars(Socket)
            /\ WF_vars(RunFails /\ table[0] # "plc") /\ SF_vars(Connect)

Spec == Init /\ [][Next]_vars /\ Fairness

-----------------------------------------------------------------------------
TypeOK == /\ table \in [Numbers -> Objects]
          /\ plc \in {"socket", "connect", "run", "failed", "close", "sleep"}
          /\ server \in [Servers -> Numbers \cup {None}]
          /\ stage \in [Servers -> {"init", "bind", "listen", "gone"}]
          /\ reads \subseteq Numbers
          /\ fd \in [Threads -> Numbers \cup {None}]
          /\ zero \in Nat /\ used \subseteq Threads /\ calls \in 0 .. MaxCalls

(* The mistake reaches no descriptor but 0: a thread of a station on any   *)
(* other one has it to itself, and its connection is still open there; so  *)
(* are the sockets that listen and the connections of the command server.  *)
OwnDescriptors ==
    /\ \A t \in Threads :
          fd[t] \notin {None, 0} => /\ table[fd[t]] = t
                                    /\ \A u \in Threads \ {t} : fd[u] # fd[t]
    /\ \A s \in Servers :
          stage[s] = "listen" /\ server[s] # 0 => table[server[s]] = s
    /\ \A d \in reads \ {0} : table[d] = "peer"

(* The PLC thread loses a descriptor only where something else held 0 when *)
(* it asked for a socket: the console at the start, or what a server       *)
(* opened or accepted while 0 was closed.                                  *)
LeaksCounted == Cardinality(Leaked) <= zero

(* However stations came and went on descriptor 0, the PLC is reached      *)
(* again, unless the process has no descriptor left for it.                *)
PlcReached == []<>(table[0] = "plc") \/ <>[](FreeOnes = {})
=============================================================================
