----------------------------- MODULE PointQueue -----------------------------
(***************************************************************************)
(* The ring buffer every component of the gateway talks through            *)
(* (APP/Src/queue_handler.c), together with the mutex its callers wrap     *)
(* around putq and getq (elba_push_queue, elba_pop_queue, net32_push_queue,*)
(* net32_pop_queue).  putq advances rear before it knows whether there is  *)
(* room and takes the step back when there is none; getq advances front    *)
(* before it copies the slot.  Both intermediate states are visible in     *)
(* memory, so each step is an action of its own: the mutex is all that     *)
(* hides them.                                                             *)
(***************************************************************************)
EXTENDS Integers, Sequences

CONSTANTS Threads,       \* threads that call *_push_queue and *_pop_queue
          Messages,      \* point_info values that are pushed
          NoMessage,     \* a slot cleared by initq, a variable never assigned
          NoThread,      \* the owner of a free mutex
          MaxQueueSize   \* MAX_QUEUE_SIZE (4096 in define.h)

ASSUME QueueAssumption ==
    /\ MaxQueueSize \in Nat \ {0, 1}
    /\ NoThread \notin Threads
    /\ NoMessage \notin Messages

VARIABLES front,      \* point_queue.front: index of the slot read last
          rear,       \* point_queue.rear: index of the slot written last
          data,       \* point_queue.data
          mutex,      \* owner of the queue's mutex
          pc,         \* where each thread is in push or pop
          arg,        \* the message a pushing thread carries
          prevRear,   \* putq's local prev_rear
          result,     \* code returned by the thread's last call
          taken       \* *p2 of getq: the message popped last

vars == <<front, rear, data, mutex, pc, arg, prevRear, result, taken>>

Slots == 0 .. MaxQueueSize - 1

\* Where a thread can be: outside, or between two statements of putq or getq.
PutLabels == {"put_advance", "put_check"}
GetLabels == {"get_check", "get_copy"}
Labels == {"idle", "unlock"} \cup PutLabels \cup GetLabels

Codes == {"NONE", "SUCCESS", "QUEUE_FULL", "QUEUE_EMPTY"}

\* (index + 1) % MAX_QUEUE_SIZE
Advance(i) == (i + 1) % MaxQueueSize

-----------------------------------------------------------------------------
\* initq: both indices 0, all slots cleared.
Init == /\ front = 0
        /\ rear = 0
        /\ data = [i \in Slots |-> NoMessage]
        /\ mutex = NoThread
        /\ pc = [t \in Threads |-> "idle"]
        /\ arg = [t \in Threads |-> NoMessage]
        /\ prevRear = [t \in Threads |-> 0]
        /\ result = [t \in Threads |-> "NONE"]
        /\ taken = [t \in Threads |-> NoMessage]

\* Mutant: the mutex is not taken into account.
LockUnguarded(t, l) == /\ pc[t] = "idle"
                       /\ mutex' = t
                       /\ pc' = [pc EXCEPT ![t] = l]
                       /\ result' = [result EXCEPT ![t] = "NONE"]

\* pthread_mutex_lock, with the thread continuing at label l.
Lock(t, l) == /\ pc[t] = "idle"
              /\ mutex = NoThread
              /\ mutex' = t
              /\ pc' = [pc EXCEPT ![t] = l]
              /\ result' = [result EXCEPT ![t] = "NONE"]

\* *_push_queue(p): take the mutex and call putq.
PushQueue(t, m) == /\ Lock(t, "put_advance")
                   /\ arg' = [arg EXCEPT ![t] = m]
                   /\ UNCHANGED <<front, rear, data, prevRear, taken>>

\* prev_rear = rear; rear = (rear + 1) % MAX_QUEUE_SIZE
PutqAdvance(t) == /\ pc[t] = "put_advance"
                  /\ prevRear' = [prevRear EXCEPT ![t] = rear]
                  /\ rear' = Advance(rear)
                  /\ pc' = [pc EXCEPT ![t] = "put_check"]
                  /\ UNCHANGED <<front, data, mutex, arg, result, taken>>

\* Mutant: a full queue is reported without taking the step of rear back.
PutqFullKeepsStep(t) ==
    /\ pc[t] = "put_check"
    /\ front = rear
    /\ result' = [result EXCEPT ![t] = "QUEUE_FULL"]
    /\ pc' = [pc EXCEPT ![t] = "unlock"]
    /\ UNCHANGED <<front, rear, data, mutex, arg, prevRear, taken>>

\* front == rear: no room, so take the step back and return QUEUE_FULL.
PutqFull(t) == /\ pc[t] = "put_check"
               /\ front = rear
               /\ rear' = prevRear[t]
               /\ result' = [result EXCEPT ![t] = "QUEUE_FULL"]
               /\ pc' = [pc EXCEPT ![t] = "unlock"]
               /\ UNCHANGED <<front, data, mutex, arg, prevRear, taken>>

\* Room: copy the message into the slot rear now points to.
PutqCopy(t) == /\ pc[t] = "put_check"
               /\ front # rear
               /\ data' = [data EXCEPT ![rear] = arg[t]]
               /\ result' = [result EXCEPT ![t] = "SUCCESS"]
               /\ pc' = [pc EXCEPT ![t] = "unlock"]
               /\ UNCHANGED <<front, rear, mutex, arg, prevRear, taken>>

\* *_pop_queue(p): take the mutex and call getq.
PopQueue(t) == /\ Lock(t, "get_check")
               /\ UNCHANGED <<front, rear, data, arg, prevRear, taken>>

GetqEmpty(t) == /\ pc[t] = "get_check"
                /\ front = rear
                /\ result' = [result EXCEPT ![t] = "QUEUE_EMPTY"]
                /\ pc' = [pc EXCEPT ![t] = "unlock"]
                /\ UNCHANGED <<front, rear, data, mutex, arg, prevRear, taken>>

\* front = (front + 1) % MAX_QUEUE_SIZE
GetqAdvance(t) == /\ pc[t] = "get_check"
                  /\ front # rear
                  /\ front' = Advance(front)
                  /\ pc' = [pc EXCEPT ![t] = "get_copy"]
                  /\ UNCHANGED <<rear, data, mutex, arg, prevRear, result, taken>>

GetqCopy(t) == /\ pc[t] = "get_copy"
               /\ taken' = [taken EXCEPT ![t] = data[front]]
               /\ result' = [result EXCEPT ![t] = "SUCCESS"]
               /\ pc' = [pc EXCEPT ![t] = "unlock"]
               /\ UNCHANGED <<front, rear, data, mutex, arg, prevRear>>

\* pthread_mutex_unlock and return: the call's locals are gone.
Unlock(t) == /\ pc[t] = "unlock"
             /\ mutex' = NoThread
             /\ pc' = [pc EXCEPT ![t] = "idle"]
             /\ arg' = [arg EXCEPT ![t] = NoMessage]
             /\ prevRear' = [prevRear EXCEPT ![t] = 0]
             /\ UNCHANGED <<front, rear, data, result, taken>>

Next == \E t \in Threads :
           \/ \E m \in Messages : PushQueue(t, m)
           \/ PutqAdvance(t) \/ PutqFull(t) \/ PutqCopy(t)
           \/ PopQueue(t)
           \/ GetqEmpty(t) \/ GetqAdvance(t) \/ GetqCopy(t)
           \/ Unlock(t)

Spec == Init /\ [][Next]_vars

-----------------------------------------------------------------------------
(* The messages in the queue, seen past a call in progress: the step of    *)
(* rear that putq has not confirmed yet does not count, the message getq   *)
(* has stepped onto but not copied yet still does.                         *)

Inside(t) == pc[t] # "idle"

Putting == \E t \in Threads : pc[t] = "put_check"
Getting == \E t \in Threads : pc[t] = "get_copy"

StepBack(i) == IF i = 0 THEN MaxQueueSize - 1 ELSE i - 1

FirstSlot == IF Getting THEN StepBack(front) ELSE front
LastSlot  == IF Putting THEN StepBack(rear) ELSE rear

\* The number of messages: the way from FirstSlot round to LastSlot.
Count == IF FirstSlot <= LastSlot THEN LastSlot - FirstSlot
                                  ELSE LastSlot - FirstSlot + MaxQueueSize

\* The slot of the i-th message.
SlotOf(i) == IF FirstSlot + i < MaxQueueSize THEN FirstSlot + i
                                             ELSE FirstSlot + i - MaxQueueSize

Contents == [i \in 1 .. Count |-> data[SlotOf(i)]]

TypeOK == /\ front \in Slots
          /\ rear \in Slots
          /\ data \in [Slots -> Messages \cup {NoMessage}]
          /\ mutex \in Threads \cup {NoThread}
          /\ pc \in [Threads -> Labels]
          /\ arg \in [Threads -> Messages \cup {NoMessage}]
          /\ prevRear \in [Threads -> Slots]
          /\ result \in [Threads -> Codes]
          /\ taken \in [Threads -> Messages \cup {NoMessage}]

(* The slots between the indices hold messages that were really pushed: no *)
(* pop ever returns a slot initq cleared, even while a push has advanced   *)
(* rear over a slot it has not written (putq and getq, queue_handler.c).   *)
OnlyPushedMessages == \A i \in 1 .. Count : Contents[i] \in Messages

\* A thread is inside a call exactly while it owns the mutex.
LockDiscipline == \A t \in Threads : Inside(t) <=> mutex = t

\* What a thread knows between two statements of a call.
InFlight ==
    \A t \in Threads :
       /\ pc[t] \in PutLabels => arg[t] \in Messages
       /\ pc[t] = "put_check" => rear = Advance(prevRear[t])
       /\ pc[t] = "get_copy" => StepBack(front) # rear

(* The inductive invariant of the queue: with the mutex held by at most    *)
(* one caller, an index is out of step only by that caller's own advance.  *)
QueueInv == TypeOK /\ LockDiscipline /\ InFlight /\ OnlyPushedMessages

(* The ring queue with its mutex is a bounded FIFO of MAX_QUEUE_SIZE - 1   *)
(* messages with atomic operations: order is kept, QUEUE_FULL is returned  *)
(* only when that many messages wait and QUEUE_EMPTY only when none does.  *)
Fifo == INSTANCE BoundedFifo WITH fifo <- Contents,
                                  outcome <- result,
                                  Capacity <- MaxQueueSize - 1
FifoSpec == Fifo!Spec
=============================================================================
