---------------------------- MODULE BoundedFifo ----------------------------
(***************************************************************************)
(* What a point_queue promises its callers: a first-in first-out queue of  *)
(* at most Capacity messages shared by several threads, in which a push    *)
(* and a pop each happen at one instant.  A push is refused only when the  *)
(* queue is full, a pop only when it is empty.  Nothing is said of how the *)
(* messages are stored.                                                    *)
(***************************************************************************)
EXTENDS Naturals, Sequences

CONSTANTS Threads,    \* the threads that push and pop
          Messages,   \* the point_info messages
          NoMessage,  \* what a thread holds before its first pop
          Capacity    \* how many messages fit

VARIABLES fifo,     \* the messages waiting, oldest first
          outcome,  \* [Threads -> result code of the thread's last call]
          taken     \* [Threads -> message the thread popped last]

fifoVars == <<fifo, outcome, taken>>

Codes == {"NONE", "SUCCESS", "QUEUE_FULL", "QUEUE_EMPTY"}

Init == /\ fifo = <<>>
        /\ outcome = [t \in Threads |-> "NONE"]
        /\ taken = [t \in Threads |-> NoMessage]

Push(t, m) == /\ Len(fifo) < Capacity
              /\ fifo' = Append(fifo, m)
              /\ outcome' = [outcome EXCEPT ![t] = "SUCCESS"]
              /\ UNCHANGED taken

RefusePush(t) == /\ Len(fifo) = Capacity
                 /\ outcome' = [outcome EXCEPT ![t] = "QUEUE_FULL"]
                 /\ UNCHANGED <<fifo, taken>>

Pop(t) == /\ fifo # <<>>
          /\ fifo' = Tail(fifo)
          /\ taken' = [taken EXCEPT ![t] = Head(fifo)]
          /\ outcome' = [outcome EXCEPT ![t] = "SUCCESS"]

RefusePop(t) == /\ fifo = <<>>
                /\ outcome' = [outcome EXCEPT ![t] = "QUEUE_EMPTY"]
                /\ UNCHANGED <<fifo, taken>>

\* A thread starts a call: the code of its previous one is forgotten.
Begin(t) == /\ outcome' = [outcome EXCEPT ![t] = "NONE"]
            /\ UNCHANGED <<fifo, taken>>

Next == \E t \in Threads :
           \/ \E m \in Messages : Push(t, m)
           \/ RefusePush(t)
           \/ Pop(t)
           \/ RefusePop(t)
           \/ Begin(t)

Spec == Init /\ [][Next]_fifoVars
=============================================================================
