-------------------------- MODULE PointQueueProofs --------------------------
(***************************************************************************)
(* Proofs about the queue for any number of threads, any messages and any  *)
(* MAX_QUEUE_SIZE of at least two; and, in the second half, about the      *)
(* connection to the station for any payloads and any number of frames.    *)
(***************************************************************************)
EXTENDS MCPointQueue, SequenceTheorems, TLAPS

\* The only arithmetic modulo the size of the ring: one step forward.
LEMMA AdvanceLemma ==
    ASSUME NEW i \in Slots
    PROVE  /\ Advance(i) = IF i = MaxQueueSize - 1 THEN 0 ELSE i + 1
           /\ Advance(i) \in Slots
           /\ StepBack(i) \in Slots
           /\ StepBack(Advance(i)) = i
           /\ Advance(StepBack(i)) = i
<1>1. ASSUME NEW j \in Slots
      PROVE  Advance(j) = IF j = MaxQueueSize - 1 THEN 0 ELSE j + 1
  <2>1. CASE j = MaxQueueSize - 1
    BY <2>1, QueueAssumption DEF Advance, Slots
  <2>2. CASE j # MaxQueueSize - 1
    <3>1. j + 1 \in 0 .. MaxQueueSize - 1
      BY <2>2, QueueAssumption DEF Slots
    <3>2. (j + 1) % MaxQueueSize = j + 1
      BY <3>1, QueueAssumption
    <3>. QED BY <2>2, <3>2 DEF Advance
  <2>. QED BY <2>1, <2>2
<1>2. StepBack(i) \in Slots
  BY QueueAssumption DEF StepBack, Slots
<1>. QED BY <1>1, <1>2, QueueAssumption DEF StepBack, Slots

-----------------------------------------------------------------------------
\* Types.

LEMMA TypeStep == TypeOK /\ [Next]_vars => TypeOK'
<1> SUFFICES ASSUME TypeOK, [Next]_vars PROVE TypeOK'
  OBVIOUS
<1>. USE DEF TypeOK, Labels, PutLabels, GetLabels, Codes
<1>1. ASSUME NEW t \in Threads, NEW m \in Messages, PushQueue(t, m)
      PROVE  TypeOK'
  BY <1>1 DEF PushQueue, Lock
<1>2. ASSUME NEW t \in Threads, PutqAdvance(t) PROVE TypeOK'
  BY <1>2, AdvanceLemma DEF PutqAdvance
<1>3. ASSUME NEW t \in Threads, PutqFull(t) PROVE TypeOK'
  BY <1>3 DEF PutqFull
<1>4. ASSUME NEW t \in Threads, PutqCopy(t) PROVE TypeOK'
  BY <1>4 DEF PutqCopy
<1>5. ASSUME NEW t \in Threads, PopQueue(t) PROVE TypeOK'
  BY <1>5 DEF PopQueue, Lock
<1>6. ASSUME NEW t \in Threads, GetqEmpty(t) PROVE TypeOK'
  BY <1>6 DEF GetqEmpty
<1>7. ASSUME NEW t \in Threads, GetqAdvance(t) PROVE TypeOK'
  BY <1>7, AdvanceLemma DEF GetqAdvance
<1>8. ASSUME NEW t \in Threads, GetqCopy(t) PROVE TypeOK'
  BY <1>8 DEF GetqCopy
<1>9. ASSUME NEW t \in Threads, Unlock(t) PROVE TypeOK'
  BY <1>9, QueueAssumption DEF Unlock, Slots
<1>10. CASE UNCHANGED vars
  BY <1>10 DEF vars
<1>. QED
  BY <1>1, <1>2, <1>3, <1>4, <1>5, <1>6, <1>7, <1>8, <1>9, <1>10 DEF Next

LEMMA TypeInit == Init => TypeOK
  BY QueueAssumption DEF Init, TypeOK, Slots, Labels, Codes

(* Every variable of the queue keeps its type: in particular front and     *)
(* rear never leave the ring, whatever the interleaving of the callers.    *)
THEOREM TypeCorrect == Spec => []TypeOK
  BY TypeInit, TypeStep, PTL DEF Spec

-----------------------------------------------------------------------------
\* Mutual exclusion, and what the thread inside a call knows.

LEMMA ControlStep ==
    ASSUME TypeOK, LockDiscipline, InFlight, [Next]_vars
    PROVE  LockDiscipline' /\ InFlight'
<1>. USE DEF TypeOK, LockDiscipline, InFlight, Inside, Labels, PutLabels
<1>1. ASSUME NEW t \in Threads, NEW m \in Messages, PushQueue(t, m)
      PROVE  LockDiscipline' /\ InFlight'
  BY <1>1, QueueAssumption DEF PushQueue, Lock
<1>2. ASSUME NEW t \in Threads, PutqAdvance(t)
      PROVE  LockDiscipline' /\ InFlight'
  BY <1>2 DEF PutqAdvance
<1>3. ASSUME NEW t \in Threads, PutqFull(t)
      PROVE  LockDiscipline' /\ InFlight'
  BY <1>3 DEF PutqFull
<1>4. ASSUME NEW t \in Threads, PutqCopy(t)
      PROVE  LockDiscipline' /\ InFlight'
  BY <1>4 DEF PutqCopy
<1>5. ASSUME NEW t \in Threads, PopQueue(t)
      PROVE  LockDiscipline' /\ InFlight'
  BY <1>5, QueueAssumption DEF PopQueue, Lock
<1>6. ASSUME NEW t \in Threads, GetqEmpty(t)
      PROVE  LockDiscipline' /\ InFlight'
  BY <1>6 DEF GetqEmpty
<1>7. ASSUME NEW t \in Threads, GetqAdvance(t)
      PROVE  LockDiscipline' /\ InFlight'
  BY <1>7, AdvanceLemma DEF GetqAdvance
<1>8. ASSUME NEW t \in Threads, GetqCopy(t)
      PROVE  LockDiscipline' /\ InFlight'
  BY <1>8 DEF GetqCopy
<1>9. ASSUME NEW t \in Threads, Unlock(t)
      PROVE  LockDiscipline' /\ InFlight'
  BY <1>9, QueueAssumption DEF Unlock
<1>10. CASE UNCHANGED vars
  BY <1>10 DEF vars
<1>. QED
  BY <1>1, <1>2, <1>3, <1>4, <1>5, <1>6, <1>7, <1>8, <1>9, <1>10 DEF Next

\* The thread inside a call alone decides whether an index is out of step.
LEMMA OneInside ==
    ASSUME LockDiscipline, NEW t \in Threads, Inside(t)
    PROVE  /\ Putting <=> pc[t] = "put_check"
           /\ Getting <=> pc[t] = "get_copy"
  BY DEF LockDiscipline, Inside, Putting, Getting

LEMMA NoneInside ==
    ASSUME LockDiscipline, mutex = NoThread
    PROVE  ~Putting /\ ~Getting
  BY QueueAssumption DEF LockDiscipline, Inside, Putting, Getting

\* The messages stay in the ring and there are never too many.
ViewFacts ==
    /\ FirstSlot \in Slots
    /\ LastSlot \in Slots
    /\ Count \in 0 .. MaxQueueSize - 1
    /\ \A i \in 1 .. Count : SlotOf(i) \in Slots
    /\ Contents \in Seq(Messages \cup {NoMessage})
    /\ Len(Contents) = Count
    /\ \A i \in 1 .. Count : Contents[i] = data[SlotOf(i)]

LEMMA View == TypeOK => ViewFacts
<1> SUFFICES ASSUME TypeOK PROVE ViewFacts
  OBVIOUS
<1>1. FirstSlot \in Slots /\ LastSlot \in Slots
  BY AdvanceLemma DEF FirstSlot, LastSlot, TypeOK
<1>2. Count \in 0 .. MaxQueueSize - 1
  BY <1>1, QueueAssumption DEF Count, Slots
<1>3. \A i \in 1 .. Count : SlotOf(i) \in Slots
  BY <1>1, <1>2, QueueAssumption DEF SlotOf, Slots
<1>4. \A i \in 1 .. Count : data[SlotOf(i)] \in Messages \cup {NoMessage}
  BY <1>3 DEF TypeOK
<1>5. Contents \in Seq(Messages \cup {NoMessage}) /\ Len(Contents) = Count
  BY <1>2, <1>4 DEF Contents
<1>. QED BY <1>1, <1>2, <1>3, <1>5 DEF ViewFacts, Contents

\* The same facts after a step.
LEMMA ViewNext == TypeOK' => ViewFacts'
  BY View, PTL

-----------------------------------------------------------------------------
\* What each step does to the messages in the queue.

\* A step that moves neither end and writes no slot between them.
LEMMA SameContents ==
    ASSUME FirstSlot' = FirstSlot, LastSlot' = LastSlot, data' = data
    PROVE  Contents' = Contents
  BY DEF Contents, Count, SlotOf

LEMMA QuietSteps ==
    ASSUME QueueInv, LockDiscipline', NEW t \in Threads,
           \/ \E m \in Messages : PushQueue(t, m)
           \/ PutqAdvance(t) \/ PutqFull(t) \/ PopQueue(t)
           \/ GetqEmpty(t) \/ GetqAdvance(t) \/ Unlock(t)
    PROVE  Contents' = Contents
<1>. USE DEF QueueInv, TypeOK
<1>1. CASE \E m \in Messages : PushQueue(t, m)
  <2>1. ~Putting /\ ~Getting
    BY <1>1, NoneInside DEF PushQueue, Lock
  <2>2. Inside(t)' /\ pc'[t] = "put_advance"
    BY <1>1 DEF PushQueue, Lock, Inside
  <2>3. ~Putting' /\ ~Getting'
    BY <2>2 DEF Putting, Getting, LockDiscipline, Inside
  <2>. QED
    BY <1>1, <2>1, <2>3, SameContents DEF PushQueue, FirstSlot, LastSlot
<1>2. CASE PutqAdvance(t)
  <2>1. Inside(t) /\ Inside(t)' /\ pc[t] = "put_advance" /\ pc'[t] = "put_check"
    BY <1>2 DEF PutqAdvance, Inside
  <2>2. ~Putting /\ ~Getting
    BY <2>1, OneInside
  <2>3. Putting' /\ ~Getting'
    BY <2>1 DEF Putting, Getting, LockDiscipline, Inside
  <2>4. StepBack(rear') = rear
    BY <1>2, AdvanceLemma DEF PutqAdvance
  <2>. QED
    BY <1>2, <2>2, <2>3, <2>4, SameContents
    DEF PutqAdvance, FirstSlot, LastSlot, StepBack
<1>3. CASE PutqFull(t)
  <2>1. Inside(t) /\ Inside(t)' /\ pc[t] = "put_check" /\ pc'[t] = "unlock"
    BY <1>3 DEF PutqFull, Inside
  <2>2. Putting /\ ~Getting
    BY <2>1, OneInside
  <2>3. ~Putting' /\ ~Getting'
    BY <2>1 DEF Putting, Getting, LockDiscipline, Inside
  <2>4. StepBack(rear) = rear'
    BY <1>3, <2>1, AdvanceLemma DEF PutqFull, InFlight
  <2>. QED
    BY <1>3, <2>2, <2>3, <2>4, SameContents DEF PutqFull, FirstSlot, LastSlot
<1>4. CASE PopQueue(t)
  <2>1. ~Putting /\ ~Getting
    BY <1>4, NoneInside DEF PopQueue, Lock
  <2>2. Inside(t)' /\ pc'[t] = "get_check"
    BY <1>4 DEF PopQueue, Lock, Inside
  <2>3. ~Putting' /\ ~Getting'
    BY <2>2 DEF Putting, Getting, LockDiscipline, Inside
  <2>. QED
    BY <1>4, <2>1, <2>3, SameContents DEF PopQueue, FirstSlot, LastSlot
<1>5. CASE GetqEmpty(t)
  <2>1. Inside(t) /\ Inside(t)' /\ pc[t] = "get_check" /\ pc'[t] = "unlock"
    BY <1>5 DEF GetqEmpty, Inside
  <2>2. ~Putting /\ ~Getting
    BY <2>1, OneInside
  <2>3. ~Putting' /\ ~Getting'
    BY <2>1 DEF Putting, Getting, LockDiscipline, Inside
  <2>. QED
    BY <1>5, <2>2, <2>3, SameContents DEF GetqEmpty, FirstSlot, LastSlot
<1>6. CASE GetqAdvance(t)
  <2>1. Inside(t) /\ Inside(t)' /\ pc[t] = "get_check" /\ pc'[t] = "get_copy"
    BY <1>6 DEF GetqAdvance, Inside
  <2>2. ~Putting /\ ~Getting
    BY <2>1, OneInside
  <2>3. ~Putting' /\ Getting'
    BY <2>1 DEF Putting, Getting, LockDiscipline, Inside
  <2>4. StepBack(front') = front
    BY <1>6, AdvanceLemma DEF GetqAdvance
  <2>. QED
    BY <1>6, <2>2, <2>3, <2>4, SameContents
    DEF GetqAdvance, FirstSlot, LastSlot, StepBack
<1>7. CASE Unlock(t)
  <2>1. Inside(t) /\ pc[t] = "unlock" /\ mutex' = NoThread
    BY <1>7 DEF Unlock, Inside
  <2>2. ~Putting /\ ~Getting
    BY <2>1, OneInside
  <2>3. ~Putting' /\ ~Getting'
    BY <2>1, QueueAssumption DEF Putting, Getting, LockDiscipline, Inside
  <2>. QED
    BY <1>7, <2>2, <2>3, SameContents DEF Unlock, FirstSlot, LastSlot
<1>. QED BY <1>1, <1>2, <1>3, <1>4, <1>5, <1>6, <1>7

LEMMA PutStep ==
    ASSUME QueueInv, LockDiscipline', TypeOK', NEW t \in Threads, PutqCopy(t)
    PROVE  /\ arg[t] \in Messages
           /\ Count < MaxQueueSize - 1
           /\ Contents' = Append(Contents, arg[t])
<1>. USE DEF QueueInv
<1>1. Inside(t) /\ Inside(t)' /\ pc[t] = "put_check" /\ pc'[t] = "unlock"
  BY DEF PutqCopy, Inside, TypeOK
<1>2. Putting /\ ~Getting
  BY <1>1, OneInside
<1>3. ~Putting' /\ ~Getting'
  BY <1>1 DEF Putting, Getting, LockDiscipline, Inside
<1>4. arg[t] \in Messages
  BY <1>1 DEF InFlight, PutLabels
<1>5. /\ FirstSlot = front /\ LastSlot = StepBack(rear)
      /\ FirstSlot' = front /\ LastSlot' = rear
      /\ front \in Slots /\ rear \in Slots /\ front # rear
  BY <1>2, <1>3 DEF FirstSlot, LastSlot, PutqCopy, TypeOK
<1>6. /\ Count' = Count + 1 /\ Count \in Nat
      /\ Count < MaxQueueSize - 1
      /\ SlotOf(Count)' = rear
  BY <1>5, QueueAssumption DEF Count, SlotOf, StepBack, Slots
<1>7. \A i \in 1 .. Count : SlotOf(i)' = SlotOf(i) /\ SlotOf(i) # rear
                            /\ SlotOf(i) \in Slots
  BY <1>5, <1>6, QueueAssumption DEF Count, SlotOf, StepBack, Slots
<1>8. data' = [data EXCEPT ![rear] = arg[t]] /\ data \in [Slots -> Messages \cup {NoMessage}]
  BY DEF PutqCopy, TypeOK
<1>9. \A i \in 1 .. Count : data'[SlotOf(i)'] = data[SlotOf(i)]
  BY <1>7, <1>8
<1>10. data'[SlotOf(Count)'] = arg[t]
  BY <1>5, <1>6, <1>8
<1>11. /\ Contents' \in Seq(Messages \cup {NoMessage})
       /\ Len(Contents') = Count + 1
       /\ \A i \in 1 .. Count + 1 :
             Contents'[i] = IF i <= Count THEN Contents[i] ELSE arg[t]
  BY <1>6, <1>9, <1>10, View, ViewNext DEF ViewFacts
<1>12. /\ Contents \in Seq(Messages \cup {NoMessage})
       /\ Len(Contents) = Count
  BY View DEF ViewFacts
<1>13. /\ Append(Contents, arg[t]) \in Seq(Messages \cup {NoMessage})
       /\ Len(Append(Contents, arg[t])) = Count + 1
       /\ \A i \in 1 .. Count + 1 :
             Append(Contents, arg[t])[i]
               = IF i <= Count THEN Contents[i] ELSE arg[t]
  BY <1>4, <1>6, <1>12
<1>14. Contents' = Append(Contents, arg[t])
  BY <1>6, <1>11, <1>13, SeqEqual
<1>. QED BY <1>4, <1>6, <1>14

LEMMA GetStep ==
    ASSUME QueueInv, LockDiscipline', TypeOK', NEW t \in Threads, GetqCopy(t)
    PROVE  /\ Contents # <<>>
           /\ taken' = [taken EXCEPT ![t] = Head(Contents)]
           /\ Contents' = Tail(Contents)
<1>. USE DEF QueueInv
<1>1. Inside(t) /\ Inside(t)' /\ pc[t] = "get_copy" /\ pc'[t] = "unlock"
  BY DEF GetqCopy, Inside, TypeOK
<1>2. Getting /\ ~Putting
  BY <1>1, OneInside
<1>3. ~Putting' /\ ~Getting'
  BY <1>1 DEF Putting, Getting, LockDiscipline, Inside
<1>4. /\ FirstSlot = StepBack(front) /\ LastSlot = rear
      /\ FirstSlot' = front /\ LastSlot' = rear
      /\ front \in Slots /\ rear \in Slots /\ StepBack(front) # rear
  BY <1>1, <1>2, <1>3 DEF FirstSlot, LastSlot, GetqCopy, TypeOK, InFlight
<1>5. /\ Count \in Nat /\ Count >= 1 /\ Count' = Count - 1
      /\ SlotOf(1) = front
  BY <1>4, QueueAssumption DEF Count, SlotOf, StepBack, Slots
<1>6. \A i \in 1 .. Count - 1 : SlotOf(i)' = SlotOf(i + 1)
  BY <1>4, <1>5, QueueAssumption DEF Count, SlotOf, StepBack, Slots
<1>7. data' = data /\ taken' = [taken EXCEPT ![t] = data[front]]
  BY DEF GetqCopy
<1>8. /\ Contents \in Seq(Messages \cup {NoMessage})
      /\ Len(Contents) = Count
      /\ \A i \in 1 .. Count : Contents[i] = data[SlotOf(i)]
  BY View DEF ViewFacts
<1>9. /\ Contents' \in Seq(Messages \cup {NoMessage})
      /\ Len(Contents') = Count - 1
      /\ \A i \in 1 .. Count - 1 : Contents'[i] = Contents[i + 1]
  <2>1. /\ Contents' \in Seq(Messages \cup {NoMessage})
        /\ Len(Contents') = Count'
        /\ \A i \in 1 .. Count' : Contents'[i] = data'[SlotOf(i)']
    BY ViewNext DEF ViewFacts
  <2>2. ASSUME NEW i \in 1 .. Count - 1 PROVE Contents'[i] = Contents[i + 1]
    <3>1. i \in 1 .. Count' /\ i + 1 \in 1 .. Count
      BY <1>5
    <3>2. Contents'[i] = data[SlotOf(i + 1)]
      BY <1>6, <1>7, <2>1, <3>1
    <3>. QED BY <1>8, <3>1, <3>2
  <2>. QED BY <1>5, <2>1, <2>2
<1>10. Contents # <<>>
  BY <1>5, <1>8
<1>11. Head(Contents) = data[front]
  BY <1>5, <1>8
<1>12. /\ Tail(Contents) \in Seq(Messages \cup {NoMessage})
       /\ Len(Tail(Contents)) = Count - 1
       /\ \A i \in 1 .. Count - 1 : Tail(Contents)[i] = Contents[i + 1]
  BY <1>8, <1>10, HeadTailProperties
<1>13. Contents' = Tail(Contents)
  BY <1>5, <1>9, <1>12, SeqEqual
<1>. QED BY <1>7, <1>10, <1>11, <1>13

-----------------------------------------------------------------------------
\* The invariant.

\* OnlyPushedMessages survives a step that leaves, extends or shortens Contents.
LEMMA ContentsStep ==
    ASSUME QueueInv, LockDiscipline', TypeOK', [Next]_vars
    PROVE  OnlyPushedMessages'
<1>1. /\ ViewFacts /\ ViewFacts'
      /\ \A i \in 1 .. Count : Contents[i] \in Messages
  BY View, ViewNext DEF QueueInv, OnlyPushedMessages
<1>2. CASE Contents' = Contents
  BY <1>1, <1>2 DEF ViewFacts, OnlyPushedMessages
<1>3. ASSUME NEW t \in Threads, PutqCopy(t) PROVE OnlyPushedMessages'
  <2>1. arg[t] \in Messages /\ Contents' = Append(Contents, arg[t])
    BY <1>3, PutStep
  <2>2. Count' = Count + 1
    BY <1>1, <2>1 DEF ViewFacts
  <2>3. \A i \in 1 .. Count + 1 : Contents'[i] \in Messages
    BY <1>1, <2>1 DEF ViewFacts
  <2>. QED BY <2>2, <2>3 DEF OnlyPushedMessages
<1>4. ASSUME NEW t \in Threads, GetqCopy(t) PROVE OnlyPushedMessages'
  <2>1. Contents # <<>> /\ Contents' = Tail(Contents)
    BY <1>4, GetStep
  <2>2. /\ Count' = Count - 1
        /\ \A i \in 1 .. Count - 1 : Contents'[i] = Contents[i + 1]
    BY <1>1, <2>1, HeadTailProperties DEF ViewFacts
  <2>. QED BY <1>1, <2>2 DEF OnlyPushedMessages, ViewFacts
<1>5. CASE UNCHANGED vars
  <2>1. Contents' = Contents
    BY <1>5
    DEF vars, Contents, Count, SlotOf, FirstSlot, LastSlot, Putting, Getting
  <2>. QED BY <1>2, <2>1
<1>. QED BY <1>2, <1>3, <1>4, <1>5, QuietSteps DEF Next

(* The inductive invariant: the mutex is held by the one thread inside a   *)
(* call, so the indices are consistent but for that thread's advance, and  *)
(* every slot between them holds a message that was pushed.                *)
THEOREM QueueInvariant == Spec => []QueueInv
<1>1. Init => QueueInv
  <2> SUFFICES ASSUME Init PROVE QueueInv
    OBVIOUS
  <2>1. LockDiscipline /\ InFlight
    BY QueueAssumption DEF Init, LockDiscipline, InFlight, Inside, PutLabels
  <2>2. Count = 0
    BY QueueAssumption DEF Init, Count, FirstSlot, LastSlot, Putting, Getting
  <2>. QED
    BY <2>1, <2>2, TypeInit DEF QueueInv, OnlyPushedMessages
<1>2. QueueInv /\ [Next]_vars => QueueInv'
  BY TypeStep, ControlStep, ContentsStep DEF QueueInv
<1>. QED BY <1>1, <1>2, PTL DEF Spec

(* No pop returns a slot that no push has written.                         *)
THEOREM OnlyPushed == Spec => []OnlyPushedMessages
  BY QueueInvariant, PTL DEF QueueInv

-----------------------------------------------------------------------------
\* Refinement.

LEMMA FifoInit == Init => Fifo!Init
<1> SUFFICES ASSUME Init PROVE Fifo!Init
  OBVIOUS
<1>1. Count = 0
  BY QueueAssumption DEF Init, Count, FirstSlot, LastSlot, Putting, Getting
<1>2. Contents = <<>>
  BY <1>1 DEF Contents
<1>. QED BY <1>2 DEF Init, Fifo!Init

LEMMA FifoStep ==
    ASSUME QueueInv, QueueInv', [Next]_vars
    PROVE  [Fifo!Next]_(Fifo!fifoVars)
<1>. USE DEF QueueInv
<1>1. ASSUME NEW t \in Threads, \E m \in Messages : PushQueue(t, m)
      PROVE  Fifo!Begin(t)
  <2>1. Contents' = Contents
    BY <1>1, QuietSteps
  <2>. QED BY <1>1, <2>1 DEF PushQueue, Lock, Fifo!Begin
<1>2. ASSUME NEW t \in Threads, PopQueue(t) PROVE Fifo!Begin(t)
  <2>1. Contents' = Contents
    BY <1>2, QuietSteps
  <2>. QED BY <1>2, <2>1 DEF PopQueue, Lock, Fifo!Begin
<1>3. ASSUME NEW t \in Threads, PutqAdvance(t) \/ GetqAdvance(t) \/ Unlock(t)
      PROVE  UNCHANGED Fifo!fifoVars
  <2>1. Contents' = Contents
    BY <1>3, QuietSteps
  <2>. QED BY <1>3, <2>1 DEF PutqAdvance, GetqAdvance, Unlock, Fifo!fifoVars
<1>4. ASSUME NEW t \in Threads, PutqFull(t) PROVE Fifo!RefusePush(t)
  <2>1. Contents' = Contents
    BY <1>4, QuietSteps
  <2>2. Inside(t) /\ pc[t] = "put_check"
    BY <1>4 DEF PutqFull, Inside
  <2>3. FirstSlot = front /\ LastSlot = StepBack(front) /\ front \in Slots
    BY <1>4, <2>2, OneInside DEF FirstSlot, LastSlot, PutqFull, TypeOK
  <2>4. Count = MaxQueueSize - 1
    BY <2>3, QueueAssumption DEF Count, StepBack, Slots
  <2>5. Len(Contents) = MaxQueueSize - 1
    BY <2>4, View DEF ViewFacts
  <2>. QED BY <1>4, <2>1, <2>5 DEF PutqFull, Fifo!RefusePush
<1>5. ASSUME NEW t \in Threads, PutqCopy(t)
      PROVE  \E m \in Messages : Fifo!Push(t, m)
  <2>1. /\ arg[t] \in Messages /\ Len(Contents) < MaxQueueSize - 1
        /\ Contents' = Append(Contents, arg[t])
    BY <1>5, PutStep, View DEF ViewFacts
  <2>. QED BY <1>5, <2>1 DEF PutqCopy, Fifo!Push
<1>6. ASSUME NEW t \in Threads, GetqEmpty(t) PROVE Fifo!RefusePop(t)
  <2>1. Contents' = Contents
    BY <1>6, QuietSteps
  <2>2. Inside(t) /\ pc[t] = "get_check"
    BY <1>6 DEF GetqEmpty, Inside
  <2>3. FirstSlot = LastSlot /\ front \in Slots /\ FirstSlot = front
    BY <1>6, <2>2, OneInside DEF FirstSlot, LastSlot, GetqEmpty, TypeOK
  <2>4. Count = 0
    BY <2>3, QueueAssumption DEF Count, Slots
  <2>5. Contents = <<>>
    BY <2>4 DEF Contents
  <2>. QED BY <1>6, <2>1, <2>5 DEF GetqEmpty, Fifo!RefusePop
<1>7. ASSUME NEW t \in Threads, GetqCopy(t) PROVE Fifo!Pop(t)
  BY <1>7, GetStep DEF GetqCopy, Fifo!Pop
<1>8. CASE UNCHANGED vars
  BY <1>8 DEF vars, Fifo!fifoVars,
     Contents, Count, SlotOf, FirstSlot, LastSlot, Putting, Getting
<1>. QED
  BY <1>1, <1>2, <1>3, <1>4, <1>5, <1>6, <1>7, <1>8 DEF Next, Fifo!Next

(* The ring buffer, its mutex and the order of the statements in putq and  *)
(* getq implement a bounded FIFO with atomic operations.                   *)
THEOREM Refinement == Spec => FifoSpec
<1>1. QueueInv /\ QueueInv' /\ [Next]_vars => [Fifo!Next]_(Fifo!fifoVars)
  BY FifoStep
<1>. QED
  BY <1>1, FifoInit, QueueInvariant, PTL DEF Spec, FifoSpec, Fifo!Spec

-----------------------------------------------------------------------------
(***************************************************************************)
(* The connection to the station.                                          *)
(***************************************************************************)

\* What the bytes that cut a frame say of it.
LEMMA FrameBytes ==
    ASSUME NEW f \in Link!Frames
    PROVE  /\ Link!Size(f) \in {21, 25}
           /\ Link!LengthOf(Link!ByteAt(f, 5)) = Link!Size(f)
           /\ Link!ByteAt(f, 0) = 123
           /\ Link!ByteAt(f, 8) \in {0, 64}
           /\ f.kind = "time" => Link!ByteAt(f, 5) = 15
  <1>1. f.kind \in {"request", "command", "time"}
    BY DEF Link!Frames, Link!TypeByte
  <1>2. /\ Link!TypeByte["request"] = 9 /\ Link!TypeByte["command"] = 13
        /\ Link!TypeByte["time"] = 15
    BY DEF Link!TypeByte
  <1>3. /\ Link!KindByte["request"] = 0 /\ Link!KindByte["command"] = 64
        /\ Link!KindByte["time"] = 64
    BY DEF Link!KindByte
  <1>4. \A type : Link!LengthOf(type) = IF type \in {13, 15} THEN 25 ELSE 21
    BY DEF Link!LengthOf, Link!Long, Link!TypeByte
  <1>5. Link!Size(f) \in {21, 25}
    BY <1>4 DEF Link!Size
  <1>6. Link!ByteAt(f, 5) = Link!TypeByte[f.kind]
    BY <1>5 DEF Link!ByteAt, Link!TypeAt, Link!KindAt, Link!PayloadAt, Link!Other
  <1>7. Link!ByteAt(f, 8) = Link!KindByte[f.kind]
    BY <1>5 DEF Link!ByteAt, Link!TypeAt, Link!KindAt, Link!PayloadAt, Link!Other
  <1>8. Link!ByteAt(f, 0) = 123
    BY <1>5 DEF Link!ByteAt, Link!TypeAt, Link!KindAt, Link!PayloadAt, Link!Brace, Link!Other
  <1> QED BY <1>1, <1>2, <1>3, <1>5, <1>6, <1>7, <1>8 DEF Link!Size

Pairs == Nat \X Nat
SizeIn(fr, i) == Link!Size(fr[i])

\* Every byte of s is one of the frames fr, and after each come the others of
\* its frame and then the next frame.
Good(fr, s) == \A j \in 1 .. Len(s) : /\ s[j][1] \in 1 .. Len(fr)
                                      /\ s[j][2] \in 0 .. SizeIn(fr, s[j][1]) - 1
Runs(fr, s) ==
    \A j \in 1 .. Len(s), d \in 0 .. 25 :
       j + d <= Len(s) /\ s[j][2] + d <= SizeIn(fr, s[j][1])
          => s[j + d] = IF s[j][2] + d < SizeIn(fr, s[j][1])
                        THEN <<s[j][1], s[j][2] + d>> ELSE <<s[j][1] + 1, 0>>
\* They begin with frame h + 1, and end with the last one.
Ordered(fr, s, h) == /\ Good(fr, s)
                     /\ Runs(fr, s)
                     /\ s # << >> => s[1] = <<h + 1, 0>>
Reaches(fr, s, h) == IF s = << >> THEN h = Len(fr)
                     ELSE s[Len(s)] = <<Len(fr), SizeIn(fr, Len(fr)) - 1>>
\* The frames whose last byte is among those of s.
EndedIn(fr, s) == {i \in 1 .. Len(fr) :
                      \E j \in 1 .. Len(s) : s[j][1] = i /\ s[j][2] = SizeIn(fr, i) - 1}

LEMMA SizeFacts ==
    ASSUME NEW fr \in Seq(Link!Frames), NEW i \in 1 .. Len(fr)
    PROVE  SizeIn(fr, i) \in {21, 25}
  BY FrameBytes DEF SizeIn

\* A function on 1 .. z is a sequence.
LEMMA FunctionSeq ==
    ASSUME NEW X, NEW z \in Nat, NEW q \in [1 .. z -> X]
    PROVE  q \in Seq(X) /\ Len(q) = z
  <1>1. q \in UNION {[1 .. n -> X] : n \in Nat}
    BY Zenon
  <1>2. q \in Seq(X)
    BY <1>1, SeqDef, Zenon
  <1>3. Len(q) \in Nat /\ DOMAIN q = 1 .. Len(q)
    BY <1>2
  <1>4. DOMAIN q = 1 .. z
    OBVIOUS
  <1>5. ASSUME NEW m \in Nat, 1 .. z = 1 .. m PROVE m = z
    <2>1. z > 0 => z \in 1 .. m
      BY <1>5
    <2>2. m > 0 => m \in 1 .. z
      BY <1>5
    <2> QED BY <2>1, <2>2
  <1> QED BY <1>2, <1>3, <1>4, <1>5

\* A sequence cut after n and put together again.
LEMMA Regroup ==
    ASSUME NEW a \in Seq(Pairs), NEW w \in Seq(Pairs), NEW n \in 1 .. Len(w)
    PROVE  /\ SubSeq(w, 1, n) \in Seq(Pairs) /\ SubSeq(w, n + 1, Len(w)) \in Seq(Pairs)
           /\ (a \o SubSeq(w, 1, n)) \o SubSeq(w, n + 1, Len(w)) = a \o w
  <1>0. SubSeq(w, 1, n) \in Seq(Pairs) /\ SubSeq(w, n + 1, Len(w)) \in Seq(Pairs)
    OBVIOUS
  <1>1. PICK l \in Seq(Pairs), r \in Seq(Pairs) :
           l = SubSeq(w, 1, n) /\ r = SubSeq(w, n + 1, Len(w))
    BY <1>0
  <1>2. /\ Len(l) = n /\ \A i \in 1 .. n : l[i] = w[i]
        /\ Len(r) = Len(w) - n /\ \A i \in 1 .. Len(r) : r[i] = w[n + i]
    BY <1>1
  <1>3. l \o r = w
    <2>1. /\ l \o r \in Seq(Pairs) /\ Len(l \o r) = Len(l) + Len(r)
          /\ \A i \in 1 .. Len(l) + Len(r) :
                (l \o r)[i] = IF i <= Len(l) THEN l[i] ELSE r[i - Len(l)]
      BY ConcatProperties
    <2>2. Len(l \o r) = Len(w) /\ \A i \in 1 .. Len(w) : (l \o r)[i] = w[i]
      BY <1>2, <2>1
    <2> QED BY <2>1, <2>2, SeqEqual
  <1>4. (a \o l) \o r = a \o (l \o r)
    OBVIOUS
  <1> QED BY <1>0, <1>1, <1>3, <1>4

\* What is behind the first n of some elements.
LEMMA Behind ==
    ASSUME NEW a \in Seq(Pairs), NEW w \in Seq(Pairs), NEW n \in 1 .. Len(a)
    PROVE  /\ SubSeq(a, n + 1, Len(a)) \in Seq(Pairs)
           /\ Len(SubSeq(a, n + 1, Len(a))) = Len(a) - n
           /\ \A i \in 1 .. Len(a) - n : SubSeq(a, n + 1, Len(a))[i] = a[n + i]
           /\ SubSeq(a, n + 1, Len(a)) \o w \in Seq(Pairs)
           /\ Len(SubSeq(a, n + 1, Len(a)) \o w) = Len(a \o w) - n
           /\ \A i \in 1 .. Len(a \o w) - n :
                 (SubSeq(a, n + 1, Len(a)) \o w)[i] = (a \o w)[n + i]
  <1> DEFINE l == SubSeq(a, n + 1, Len(a))
  <1>1. /\ l \in Seq(Pairs) /\ Len(l) = Len(a) - n /\ \A i \in 1 .. Len(a) - n : l[i] = a[n + i]
    OBVIOUS
  <1> HIDE DEF l
  <1>2. /\ l \o w \in Seq(Pairs) /\ Len(l \o w) = Len(l) + Len(w)
        /\ \A i \in 1 .. Len(l) + Len(w) : (l \o w)[i] =
              IF i <= Len(l) THEN l[i] ELSE w[i - Len(l)]
    BY <1>1, ConcatProperties
  <1>3. /\ Len(a \o w) = Len(a) + Len(w)
        /\ \A i \in 1 .. Len(a) + Len(w) : (a \o w)[i] =
              IF i <= Len(a) THEN a[i] ELSE w[i - Len(a)]
    BY ConcatProperties
  <1>4. ASSUME NEW i \in 1 .. Len(a \o w) - n PROVE (l \o w)[i] = (a \o w)[n + i]
    <2>1. CASE i <= Len(l)
      BY <1>1, <1>2, <1>3, <2>1
    <2>2. CASE i > Len(l)
      BY <1>1, <1>2, <1>3, <2>2
    <2> QED BY <1>1, <1>3, <2>1, <2>2
  <1>5. l \o w \in Seq(Pairs) /\ Len(l \o w) = Len(a \o w) - n
    BY <1>1, <1>2, <1>3
  <1>6. /\ l \in Seq(Pairs) /\ Len(l) = Len(a) - n /\ \A i \in 1 .. Len(a) - n : l[i] = a[n + i]
        /\ l \o w \in Seq(Pairs) /\ Len(l \o w) = Len(a \o w) - n
        /\ \A i \in 1 .. Len(a \o w) - n : (l \o w)[i] = (a \o w)[n + i]
    BY <1>1, <1>4, <1>5
  <1> QED BY <1>6 DEF l

\* The first frame of an ordered stream.
LEMMA FirstFrame ==
    ASSUME NEW fr \in Seq(Link!Frames), NEW s \in Seq(Pairs), NEW h \in Nat,
           Ordered(fr, s, h), s # << >>
    PROVE  /\ h + 1 \in 1 .. Len(fr)
           /\ \A j \in 1 .. Len(s) : j <= SizeIn(fr, h + 1) => s[j] = <<h + 1, j - 1>>
           /\ Len(s) > SizeIn(fr, h + 1) => s[SizeIn(fr, h + 1) + 1] = <<h + 2, 0>>
  <1>1. 1 \in 1 .. Len(s) /\ s[1][1] = h + 1 /\ s[1][2] = 0
    BY DEF Ordered
  <1>2. h + 1 \in 1 .. Len(fr)
    BY <1>1 DEF Ordered, Good
  <1>3. SizeIn(fr, h + 1) \in {21, 25}
    BY <1>2, SizeFacts
  <1>4. ASSUME NEW d \in 0 .. 25, 1 + d <= Len(s), d <= SizeIn(fr, h + 1)
        PROVE  s[1 + d] = IF d < SizeIn(fr, h + 1) THEN <<h + 1, d>> ELSE <<(h + 1) + 1, 0>>
    <2>1. s[1][2] + d <= SizeIn(fr, s[1][1]) /\ s[1][2] + d = d
      BY <1>1, <1>4
    <2>2. s[1 + d] = IF s[1][2] + d < SizeIn(fr, s[1][1])
                     THEN <<s[1][1], s[1][2] + d>> ELSE <<s[1][1] + 1, 0>>
      BY <1>1, <1>4, <2>1 DEF Ordered, Runs
    <2> QED BY <1>1, <2>1, <2>2
  <1>5. ASSUME NEW j \in 1 .. Len(s), j <= SizeIn(fr, h + 1) PROVE s[j] = <<h + 1, j - 1>>
    <2>1. PICK d : d = j - 1
      OBVIOUS
    <2>2. /\ d \in 0 .. 25 /\ 1 + d <= Len(s) /\ 1 + d = j
          /\ d < SizeIn(fr, h + 1) /\ d <= SizeIn(fr, h + 1)
      BY <1>3, <1>5, <2>1
    <2>3. s[1 + d] = <<h + 1, d>>
      BY <1>4, <2>2
    <2> QED BY <2>1, <2>2, <2>3
  <1>6. ASSUME Len(s) > SizeIn(fr, h + 1)
        PROVE  s[SizeIn(fr, h + 1) + 1] = <<h + 2, 0>>
    <2>1. PICK d : d = SizeIn(fr, h + 1)
      OBVIOUS
    <2>2. d \in 0 .. 25 /\ 1 + d <= Len(s) /\ d <= SizeIn(fr, h + 1) /\ ~(d < SizeIn(fr, h + 1))
      BY <1>3, <1>6, <2>1
    <2>3. s[1 + d] = <<(h + 1) + 1, 0>>
      BY <1>4, <2>2
    <2>4. (h + 1) + 1 = h + 2 /\ 1 + d = d + 1
      BY <2>2
    <2> QED BY <2>1, <2>3, <2>4
  <1> QED BY <1>2, <1>5, <1>6

\* Some of it has not arrived.
LEMMA PrefixOrdered ==
    ASSUME NEW fr, NEW s \in Seq(Pairs), NEW r \in Seq(Pairs), NEW h \in Nat,
           Ordered(fr, s, h), Len(r) <= Len(s), \A i \in 1 .. Len(r) : r[i] = s[i]
    PROVE  Ordered(fr, r, h)
  <1>1. Good(fr, r)
    BY DEF Ordered, Good
  <1>2. Runs(fr, r)
    <2> SUFFICES ASSUME NEW j \in 1 .. Len(r), NEW d \in 0 .. 25,
                        j + d <= Len(r), r[j][2] + d <= SizeIn(fr, r[j][1])
                 PROVE  r[j + d] = IF r[j][2] + d < SizeIn(fr, r[j][1])
                                   THEN <<r[j][1], r[j][2] + d>> ELSE <<r[j][1] + 1, 0>>
      BY DEF Runs
    <2>1. j \in 1 .. Len(s) /\ j + d <= Len(s) /\ r[j] = s[j] /\ r[j + d] = s[j + d]
      OBVIOUS
    <2> QED BY <2>1 DEF Ordered, Runs
  <1>3. r # << >> => r[1] = <<h + 1, 0>>
    <2>1. r # << >> => 1 \in 1 .. Len(r) /\ s # << >>
      OBVIOUS
    <2> QED BY <2>1 DEF Ordered
  <1> QED BY <1>1, <1>2, <1>3 DEF Ordered

\* The first frame has been handled.
LEMMA SuffixOrdered ==
    ASSUME NEW fr \in Seq(Link!Frames), NEW s \in Seq(Pairs), NEW h \in Nat, NEW n,
           Ordered(fr, s, h), s # << >>, n = SizeIn(fr, h + 1), n <= Len(s),
           NEW r \in Seq(Pairs), Len(r) = Len(s) - n,
           \A i \in 1 .. Len(s) - n : r[i] = s[n + i]
    PROVE  /\ Ordered(fr, r, h + 1)
           /\ Reaches(fr, s, h) => Reaches(fr, r, h + 1)
  <1>1. h + 1 \in 1 .. Len(fr) /\ n \in {21, 25}
    BY FirstFrame, SizeFacts
  <1>2. Good(fr, r)
    BY <1>1 DEF Ordered, Good
  <1>3. Runs(fr, r)
    <2> SUFFICES ASSUME NEW j \in 1 .. Len(r), NEW d \in 0 .. 25,
                        j + d <= Len(r), r[j][2] + d <= SizeIn(fr, r[j][1])
                 PROVE  r[j + d] = IF r[j][2] + d < SizeIn(fr, r[j][1])
                                   THEN <<r[j][1], r[j][2] + d>> ELSE <<r[j][1] + 1, 0>>
      BY DEF Runs
    <2>1. /\ n + j \in 1 .. Len(s) /\ (n + j) + d <= Len(s)
          /\ r[j] = s[n + j] /\ r[j + d] = s[(n + j) + d]
      <3>0. j \in Nat /\ d \in Nat /\ 1 <= j
        OBVIOUS
      <3>1. j \in Nat /\ d \in Nat /\ n \in Nat /\ Len(s) \in Nat /\ 1 <= j
        BY <1>1, <3>0
      <3>2. PICK k : k = j + d
        OBVIOUS
      <3>3. k \in 1 .. Len(s) - n /\ n + k = (n + j) + d
        BY <3>1, <3>2
      <3>4. r[k] = s[n + k]
        BY <3>3
      <3>5. j \in 1 .. Len(s) - n
        BY <3>1
      <3>6. r[j] = s[n + j]
        BY <3>5
      <3>7. n + j \in 1 .. Len(s)
        BY <3>1, <3>5
      <3>8. (n + j) + d <= Len(s)
        BY <3>1, <3>2, <3>3
      <3> QED BY <3>2, <3>3, <3>4, <3>6, <3>7, <3>8
    <2> QED BY <2>1 DEF Ordered, Runs
  <1>4. r # << >> => r[1] = <<(h + 1) + 1, 0>>
    <2> SUFFICES ASSUME r # << >> PROVE r[1] = <<(h + 1) + 1, 0>>
      OBVIOUS
    <2>1. 1 \in 1 .. Len(r) /\ Len(s) > n /\ r[1] = s[n + 1]
      BY <1>1
    <2>2. s[n + 1] = <<h + 2, 0>>
      BY <2>1, FirstFrame
    <2> QED BY <2>1, <2>2
  <1>5. ASSUME Reaches(fr, s, h) PROVE Reaches(fr, r, h + 1)
    <2>1. s[Len(s)] = <<Len(fr), SizeIn(fr, Len(fr)) - 1>>
      BY <1>5 DEF Reaches
    <2>2. CASE r = << >>
      <3>1. Len(s) = n /\ n \in 1 .. Len(s)
        BY <1>1, <2>2
      <3>2. s[n] = <<h + 1, n - 1>>
        BY <3>1, FirstFrame
      <3> QED BY <2>1, <2>2, <3>1, <3>2 DEF Reaches
    <2>3. CASE r # << >>
      <3>1. r[Len(r)] = s[Len(s)]
        BY <1>1, <2>3
      <3> QED BY <2>1, <2>3, <3>1 DEF Reaches
    <2> QED BY <2>2, <2>3
  <1> QED BY <1>2, <1>3, <1>4, <1>5 DEF Ordered

\* The station sends one more frame.
LEMMA ExtendOrdered ==
    ASSUME NEW fr \in Seq(Link!Frames), NEW s \in Seq(Pairs), NEW h \in Nat,
           Ordered(fr, s, h), Reaches(fr, s, h), NEW f \in Link!Frames,
           NEW g, g = Append(fr, f), NEW new,
           new = [k \in 1 .. Link!Size(f) |-> <<Len(g), k - 1>>]
    PROVE  /\ new \in Seq(Pairs)
           /\ Ordered(g, s \o new, h)
           /\ Reaches(g, s \o new, h)
  <1> DEFINE L == Len(fr)
             z == Link!Size(f)
             t == s \o new
  <1>1. /\ g \in Seq(Link!Frames) /\ Len(g) = L + 1 /\ L \in Nat /\ Len(s) \in Nat
        /\ g[L + 1] = f /\ \A i \in 1 .. L : g[i] = fr[i]
    OBVIOUS
  <1>2. z \in {21, 25}
    BY FrameBytes
  <1>3. new = [k \in 1 .. z |-> <<L + 1, k - 1>>]
    BY <1>1
  <1> HIDE DEF z, L
  <1>4. /\ new \in Seq(Pairs) /\ Len(new) = z
        /\ \A k \in 1 .. z : new[k] = <<L + 1, k - 1>>
    <2>1. \A k \in 1 .. z : <<L + 1, k - 1>> \in Pairs
      BY <1>1, <1>2 DEF Pairs
    <2>2. z \in Nat
      BY <1>2
    <2> HIDE DEF Pairs
    <2>3. new \in [1 .. z -> Pairs]
      BY <1>3, <2>1
    <2>4. new \in Seq(Pairs) /\ Len(new) = z
      BY <2>2, <2>3, FunctionSeq
    <2> QED BY <1>3, <2>4
  <1>5. /\ t \in Seq(Pairs) /\ Len(t) = Len(s) + z
        /\ \A j \in 1 .. Len(s) + z : t[j] = IF j <= Len(s) THEN s[j] ELSE new[j - Len(s)]
    BY <1>4, ConcatProperties
  <1> HIDE DEF t
  <1>6. \A j \in 1 .. Len(s) : t[j] = s[j]
    BY <1>1, <1>2, <1>5
  <1>7. \A k \in 1 .. z : t[Len(s) + k] = <<L + 1, k - 1>>
    <2> SUFFICES ASSUME NEW k \in 1 .. z PROVE t[Len(s) + k] = <<L + 1, k - 1>>
      OBVIOUS
    <2>1. Len(s) + k \in 1 .. Len(s) + z /\ ~(Len(s) + k <= Len(s)) /\ (Len(s) + k) - Len(s) = k
      BY <1>1, <1>2
    <2> QED BY <1>4, <1>5, <2>1
  <1>8. SizeIn(g, L + 1) = z /\ \A i \in 1 .. L : SizeIn(g, i) = SizeIn(fr, i)
    BY <1>1 DEF SizeIn, z
  <1>9. \A j \in 1 .. Len(s) : /\ s[j][1] \in 1 .. L
                               /\ s[j][2] \in 0 .. SizeIn(fr, s[j][1]) - 1
                               /\ SizeIn(fr, s[j][1]) \in {21, 25}
    BY SizeFacts DEF Ordered, Good, L
  <1>10. Good(g, t)
    <2> SUFFICES ASSUME NEW j \in 1 .. Len(t)
                 PROVE  t[j][1] \in 1 .. Len(g) /\ t[j][2] \in 0 .. SizeIn(g, t[j][1]) - 1
      BY DEF Good
    <2>1. CASE j <= Len(s)
      <3>1. j \in 1 .. Len(s)
        BY <1>1, <2>1
      <3> QED BY <1>1, <1>6, <1>8, <1>9, <3>1
    <2>2. CASE j > Len(s)
      <3>1. PICK k : k = j - Len(s)
        OBVIOUS
      <3>2. k \in 1 .. z /\ j = Len(s) + k
        BY <1>1, <1>2, <1>5, <2>2, <3>1
      <3>3. t[j] = <<L + 1, k - 1>>
        BY <1>7, <3>2
      <3>4. t[j][1] = L + 1 /\ t[j][2] = k - 1 /\ SizeIn(g, t[j][1]) = z
        BY <1>8, <3>3
      <3>5. L + 1 \in 1 .. Len(g) /\ k - 1 \in 0 .. z - 1
        BY <1>1, <1>2, <3>2
      <3> QED BY <3>4, <3>5
    <2> QED BY <1>1, <1>2, <1>5, <2>1, <2>2
  <1>11. Runs(g, t)
    <2> SUFFICES ASSUME NEW j \in 1 .. Len(t), NEW d \in 0 .. 25,
                        j + d <= Len(t), t[j][2] + d <= SizeIn(g, t[j][1])
                 PROVE  t[j + d] = IF t[j][2] + d < SizeIn(g, t[j][1])
                                   THEN <<t[j][1], t[j][2] + d>> ELSE <<t[j][1] + 1, 0>>
      BY DEF Runs
    <2>0. j \in Nat /\ d \in Nat /\ Len(s) \in Nat /\ z \in Nat /\ 1 <= j
      BY <1>1, <1>2, <1>5
    <2>1. CASE j <= Len(s)
      <3>1. /\ j \in 1 .. Len(s) /\ t[j] = s[j] /\ SizeIn(g, t[j][1]) = SizeIn(fr, s[j][1])
            /\ s[j][2] \in Nat /\ s[j][1] \in Nat
        BY <1>6, <1>8, <1>9, <2>0, <2>1
      <3>2. CASE j + d <= Len(s)
        <4>1. t[j + d] = s[j + d]
          BY <1>6, <2>0, <3>2
        <4>2. s[j + d] = IF s[j][2] + d < SizeIn(fr, s[j][1])
                         THEN <<s[j][1], s[j][2] + d>> ELSE <<s[j][1] + 1, 0>>
          BY <3>1, <3>2 DEF Ordered, Runs
        <4> QED BY <3>1, <4>1, <4>2
      <3>3. CASE j + d > Len(s)
        <4>0. PICK i, a, S : i = s[j][1] /\ a = s[j][2] /\ S = SizeIn(fr, i)
          OBVIOUS
        <4>1. i \in Nat /\ a \in Nat /\ S \in {21, 25} /\ a < S /\ a + d <= S
          <5>1. i \in 1 .. L /\ a \in 0 .. S - 1 /\ S \in {21, 25}
            BY <1>9, <3>1, <4>0
          <5>2. t[j][2] + d <= S
            BY <3>1, <4>0
          <5>3. a + d <= S
            BY <3>1, <4>0, <5>2
          <5> QED BY <1>1, <5>1, <5>3
        <4>2. PICK e : e = Len(s) - j
          OBVIOUS
        <4>3. e \in 0 .. 25 /\ j + e = Len(s) /\ e < d /\ a + e < S /\ a + e <= S
          <5>1. e \in Int /\ 0 <= e /\ j + e = Len(s) /\ e < d /\ e <= 25
            <6>1. PICK l : l = Len(s)
              OBVIOUS
            <6>2. l \in Nat /\ e = l - j /\ j <= l /\ j + d > l /\ d <= 25
              <7>1. d <= 25
                OBVIOUS
              <7> QED BY <2>0, <2>1, <3>3, <4>2, <6>1, <7>1
            <6>3. e \in Int /\ 0 <= e /\ j + e = l /\ e < d /\ e <= 25
              BY <2>0, <6>2
            <6> QED BY <6>1, <6>3
          <5> QED BY <2>0, <4>1, <5>1
        <4>4. s[Len(s)] = <<i, a + e>>
          <5>1. s[j + e] = IF s[j][2] + e < SizeIn(fr, s[j][1])
                           THEN <<s[j][1], s[j][2] + e>> ELSE <<s[j][1] + 1, 0>>
            <6>1. j + e <= Len(s) /\ s[j][2] + e <= SizeIn(fr, s[j][1])
              <7>1. Len(s) <= Len(s)
                BY <2>0
              <7> QED BY <4>0, <4>3, <7>1
            <6> QED BY <3>1, <4>3, <6>1 DEF Ordered, Runs
          <5> QED BY <4>0, <4>3, <5>1
        <4>5. s[Len(s)] = <<L, SizeIn(fr, L) - 1>>
          <5>1. s # << >>
            BY <2>0, <3>1
          <5> QED BY <5>1 DEF Reaches, L
        <4>6. i = L /\ a + e = S - 1
          BY <4>0, <4>4, <4>5
        <4>7. a + d = S /\ d = e + 1
          BY <2>0, <4>1, <4>3, <4>6
        <4>8. j + d = Len(s) + 1
          BY <2>0, <4>3, <4>7
        <4>9. t[Len(s) + 1] = <<L + 1, 0>>
          <5>1. 1 \in 1 .. z /\ 1 - 1 = 0
            BY <1>2
          <5> QED BY <1>7, <5>1
        <4>10. t[j][1] = i /\ t[j][2] = a /\ SizeIn(g, t[j][1]) = S
          BY <3>1, <4>0
        <4>11. ~(a + d < S)
          BY <4>1, <4>7
        <4>12. t[j + d] = <<i + 1, 0>>
          BY <4>6, <4>8, <4>9
        <4> QED BY <4>10, <4>11, <4>12
      <3> QED BY <2>0, <3>2, <3>3
    <2>2. CASE j > Len(s)
      <3>1. PICK k : k = j - Len(s)
        OBVIOUS
      <3>2. k \in 1 .. z /\ j = Len(s) + k
        BY <1>1, <1>2, <1>5, <2>2, <3>1
      <3>3. t[j] = <<L + 1, k - 1>>
        BY <1>7, <3>2
      <3>4. PICK m : m = k + d
        OBVIOUS
      <3>5. m \in 1 .. z /\ j + d = Len(s) + m /\ m - 1 = (k - 1) + d
        BY <1>5, <2>0, <3>2, <3>4
      <3>6. t[j + d] = <<L + 1, m - 1>>
        BY <1>7, <3>5
      <3>7. (k - 1) + d < z
        BY <1>2, <3>5
      <3> QED BY <1>8, <3>3, <3>5, <3>6, <3>7
    <2> QED BY <2>0, <2>1, <2>2
  <1>12. t # << >> /\ t[1] = <<h + 1, 0>>
    <2>1. Len(t) > 0
      BY <1>1, <1>2, <1>5
    <2>2. CASE s = << >>
      <3>1. h = L /\ Len(s) = 0
        BY <2>2 DEF Reaches, L
      <3>2. t[0 + 1] = <<L + 1, 0>>
        BY <1>2, <1>7, <3>1
      <3> QED BY <2>1, <3>1, <3>2
    <2>3. CASE s # << >>
      <3>1. 1 \in 1 .. Len(s)
        BY <2>3
      <3> QED BY <1>6, <2>1, <2>3, <3>1 DEF Ordered
    <2> QED BY <2>2, <2>3
  <1>13. Reaches(g, t, h)
    <2>1. t[Len(s) + z] = <<L + 1, z - 1>>
      <3>1. z \in 1 .. z
        BY <1>2
      <3> QED BY <1>7, <3>1
    <2> QED BY <1>1, <1>5, <1>8, <1>12, <2>1 DEF Reaches
  <1> QED BY <1>4, <1>10, <1>11, <1>12, <1>13 DEF Ordered, t

\* Which frames end, as the model's history has it.
LEMMA EndedIs ==
    ASSUME NEW s \in Seq(Pairs), Good(frames, s), frames \in Seq(Link!Frames)
    PROVE  Link!Ended(s) = EndedIn(frames, s)
  <1>1. DOMAIN s = 1 .. Len(s) /\ \A j \in 1 .. Len(s) : s[j] \in Pairs
    OBVIOUS
  <1>2. \A j \in 1 .. Len(s) : s[j][1] \in 1 .. Len(frames) /\ s[j] # <<0, 0>>
    BY <1>1 DEF Good, Pairs
  <1> QED BY <1>1, <1>2 DEF Link!Ended, EndedIn, Link!Zero, SizeIn

LEMMA EndedConcat ==
    ASSUME NEW fr, NEW a \in Seq(Pairs), NEW b \in Seq(Pairs)
    PROVE  EndedIn(fr, a \o b) = EndedIn(fr, a) \cup EndedIn(fr, b)
  <1>1. /\ Len(a \o b) = Len(a) + Len(b)
        /\ \A j \in 1 .. Len(a) + Len(b) : (a \o b)[j] =
              IF j <= Len(a) THEN a[j] ELSE b[j - Len(a)]
    BY ConcatProperties
  <1>2. ASSUME NEW i \in EndedIn(fr, a \o b) PROVE i \in EndedIn(fr, a) \cup EndedIn(fr, b)
    <2>1. PICK j \in 1 .. Len(a) + Len(b) :
             (a \o b)[j][1] = i /\ (a \o b)[j][2] = SizeIn(fr, i) - 1
      BY <1>1, <1>2 DEF EndedIn
    <2>2. CASE j <= Len(a)
      BY <1>1, <1>2, <2>1, <2>2 DEF EndedIn
    <2>3. CASE j > Len(a)
      <3>1. j - Len(a) \in 1 .. Len(b) /\ (a \o b)[j] = b[j - Len(a)]
        BY <1>1, <2>3
      <3> QED BY <1>2, <2>1, <3>1 DEF EndedIn
    <2> QED BY <2>2, <2>3
  <1>3. ASSUME NEW i \in EndedIn(fr, a) PROVE i \in EndedIn(fr, a \o b)
    <2>1. PICK j \in 1 .. Len(a) : a[j][1] = i /\ a[j][2] = SizeIn(fr, i) - 1
      BY <1>3 DEF EndedIn
    <2>2. j \in 1 .. Len(a) + Len(b) /\ (a \o b)[j] = a[j]
      BY <1>1
    <2> QED BY <1>1, <1>3, <2>1, <2>2 DEF EndedIn
  <1>4. ASSUME NEW i \in EndedIn(fr, b) PROVE i \in EndedIn(fr, a \o b)
    <2>1. PICK j \in 1 .. Len(b) : b[j][1] = i /\ b[j][2] = SizeIn(fr, i) - 1
      BY <1>4 DEF EndedIn
    <2>2. PICK k : k = j + Len(a)
      OBVIOUS
    <2>3. k \in 1 .. Len(a) + Len(b) /\ (a \o b)[k] = b[j]
      <3>1. k \in 1 .. Len(a) + Len(b) /\ ~(k <= Len(a)) /\ k - Len(a) = j
        BY <2>2
      <3> QED BY <1>1, <3>1
    <2> QED BY <1>1, <1>4, <2>1, <2>3 DEF EndedIn
  <1> QED BY <1>2, <1>3, <1>4

\* What ends in a stream before and behind its first frame.
LEMMA EndedFirst ==
    ASSUME NEW fr \in Seq(Link!Frames), NEW s \in Seq(Pairs), NEW h \in Nat, NEW n,
           Ordered(fr, s, h), s # << >>, n = SizeIn(fr, h + 1),
           NEW r \in Seq(Pairs), n <= Len(s), Len(r) = Len(s) - n,
           \A i \in 1 .. Len(s) - n : r[i] = s[n + i]
    PROVE  EndedIn(fr, s) = {h + 1} \cup EndedIn(fr, r)
  <1>1. /\ h + 1 \in 1 .. Len(fr) /\ n \in {21, 25}
        /\ \A j \in 1 .. Len(s) : j <= n => s[j] = <<h + 1, j - 1>>
    BY FirstFrame, SizeFacts
  <1>2. ASSUME NEW i \in EndedIn(fr, s) PROVE i \in {h + 1} \cup EndedIn(fr, r)
    <2>1. PICK j \in 1 .. Len(s) : s[j][1] = i /\ s[j][2] = SizeIn(fr, i) - 1
      BY <1>2 DEF EndedIn
    <2>2. CASE j <= n
      BY <1>1, <2>1, <2>2
    <2>3. CASE j > n
      <3>1. PICK k : k = j - n
        OBVIOUS
      <3>2. k \in 1 .. Len(s) - n /\ n + k = j
        BY <1>1, <2>3, <3>1
      <3> QED BY <1>2, <2>1, <3>2 DEF EndedIn
    <2> QED BY <1>1, <2>2, <2>3
  <1>3. h + 1 \in EndedIn(fr, s)
    <2>1. n \in 1 .. Len(s) /\ s[n] = <<h + 1, n - 1>>
      BY <1>1
    <2>2. PICK i, j : i = h + 1 /\ j = n
      OBVIOUS
    <2>3. i \in 1 .. Len(fr) /\ j \in 1 .. Len(s) /\ s[j][1] = i /\ s[j][2] = SizeIn(fr, i) - 1
      BY <2>1, <2>2, <1>1
    <2> QED BY <2>2, <2>3 DEF EndedIn
  <1>4. ASSUME NEW i \in EndedIn(fr, r) PROVE i \in EndedIn(fr, s)
    <2>1. PICK k \in 1 .. Len(r) : r[k][1] = i /\ r[k][2] = SizeIn(fr, i) - 1
      BY <1>4 DEF EndedIn
    <2>2. PICK j : j = n + k
      OBVIOUS
    <2>3. j \in 1 .. Len(s) /\ s[j] = r[k]
      BY <1>1, <2>2
    <2> QED BY <1>4, <2>1, <2>3 DEF EndedIn
  <1> QED BY <1>2, <1>3, <1>4

\* A piece of the first frame.
LEMMA EndedPiece ==
    ASSUME NEW fr \in Seq(Link!Frames), NEW s \in Seq(Pairs), NEW h \in Nat,
           Ordered(fr, s, h), s # << >>, Len(s) < SizeIn(fr, h + 1)
    PROVE  EndedIn(fr, s) = {}
  <1>1. /\ h + 1 \in 1 .. Len(fr) /\ SizeIn(fr, h + 1) \in {21, 25}
        /\ \A j \in 1 .. Len(s) : s[j] = <<h + 1, j - 1>>
    BY FirstFrame, SizeFacts
  <1>2. ASSUME NEW i \in EndedIn(fr, s) PROVE FALSE
    <2>1. PICK j \in 1 .. Len(s) : s[j][1] = i /\ s[j][2] = SizeIn(fr, i) - 1
      BY <1>2 DEF EndedIn
    <2> QED BY <1>1, <2>1
  <1> QED BY <1>2

\* The lengths the loop can tell, and what it needs to be a frame to the end.
LEMMA LengthFacts ==
    ASSUME NEW b \in Seq(Pairs)
    PROVE  /\ \A type : Link!LengthOf(type) \in {21, 25}
           /\ Link!Whole(b) <=> Link!LengthOf(Link!TypeOf(b)) <= Len(b)
           /\ Link!Whole(b) => Link!TypeOf(b) = Link!Byte(b[6])
           /\ ~Link!Whole(b) => Len(b) < 25
  <1>1. \A type : Link!LengthOf(type) \in {21, 25}
    BY DEF Link!LengthOf
  <1>2. Link!Whole(b) <=> Link!LengthOf(Link!TypeOf(b)) <= Len(b)
    BY DEF Link!Whole
  <1>3. ASSUME Link!Whole(b) PROVE Link!TypeOf(b) = Link!Byte(b[6])
    <2>1. Len(b) > 5
      BY <1>1, <1>2, <1>3
    <2> QED BY <2>1 DEF Link!TypeOf, Link!TypeAt
  <1>4. ~Link!Whole(b) => Len(b) < 25
    BY <1>1, <1>2
  <1> QED BY <1>1, <1>2, <1>3, <1>4

\* The loop at the start of a frame: nothing is skipped, and if the frame is
\* there to its end it is what elba_parsing is called with.
LEMMA ScanHead ==
    ASSUME frames \in Seq(Link!Frames), NEW b \in Seq(Pairs), NEW h \in Nat,
           b # << >>, Ordered(frames, b, h)
    PROVE  /\ h + 1 \in 1 .. Len(frames)
           /\ SizeIn(frames, h + 1) \in {21, 25}
           /\ Link!Skip(b) = b
           /\ Link!Whole(b) <=> SizeIn(frames, h + 1) <= Len(b)
           /\ Link!Whole(b) =>
                 /\ Link!LengthOf(Link!TypeOf(b)) = SizeIn(frames, h + 1)
                 /\ Link!Byte(b[9]) \in {0, 64}
                 /\ Link!FrameOf(SubSeq(b, 1, SizeIn(frames, h + 1))) = h + 1
  <1>1. /\ h + 1 \in 1 .. Len(frames)
        /\ \A j \in 1 .. Len(b) : j <= SizeIn(frames, h + 1) => b[j] = <<h + 1, j - 1>>
    BY FirstFrame
  <1>2. PICK f, i, n : /\ f \in Link!Frames /\ f = frames[i]
                       /\ i = h + 1 /\ n = SizeIn(frames, i)
    BY <1>1
  <1>3. /\ n \in {21, 25} /\ Link!LengthOf(Link!ByteAt(f, 5)) = n
        /\ Link!ByteAt(f, 0) = 123 /\ Link!ByteAt(f, 8) \in {0, 64}
    BY <1>2, FrameBytes DEF SizeIn
  <1>4. i \in 1 .. Len(frames) /\ i \in Nat /\ i # 0
    BY <1>1, <1>2
  <1>5. \A k \in Nat : Link!Byte(<<i, k>>) = Link!ByteAt(f, k)
    BY <1>2, <1>4 DEF Link!Byte, Link!Zero
  <1>6. \A j \in 1 .. Len(b) : j <= n => b[j] = <<i, j - 1>>
    BY <1>1, <1>2
  <1>7. Len(b) \in Nat /\ 1 \in 1 .. Len(b)
    OBVIOUS
  <1>8. Link!Byte(b[1]) = 123
    <2>1. b[1] = <<i, 0>>
      BY <1>3, <1>6, <1>7
    <2> QED BY <1>3, <1>5, <2>1
  <1>9. Link!Skip(b) = b
    BY <1>8 DEF Link!Skip, Link!Brace
  <1>10. ASSUME Len(b) > 5 PROVE Link!LengthOf(Link!TypeOf(b)) = n
    <2>1. b[6] = <<i, 5>>
      BY <1>3, <1>6, <1>10
    <2>2. Link!TypeOf(b) = Link!Byte(b[6])
      BY <1>10 DEF Link!TypeOf, Link!TypeAt
    <2> QED BY <1>3, <1>5, <2>1, <2>2
  <1>11. Link!LengthOf(Link!TypeOf(b)) \in {21, 25}
    BY DEF Link!LengthOf
  <1>12. Link!Whole(b) <=> n <= Len(b)
    <2>1. CASE Len(b) > 5
      BY <1>10, <2>1 DEF Link!Whole
    <2>2. CASE Len(b) <= 5
      BY <1>3, <1>7, <1>11, <2>2 DEF Link!Whole
    <2> QED BY <1>7, <2>1, <2>2
  <1>13. ASSUME n <= Len(b) PROVE Link!Byte(b[9]) \in {0, 64}
    <2>1. b[9] = <<i, 8>>
      BY <1>3, <1>6, <1>7, <1>13
    <2> QED BY <1>3, <1>5, <2>1
  <1>14. ASSUME n <= Len(b) PROVE Link!FrameOf(SubSeq(b, 1, n)) = i
    <2>1. PICK p : p = SubSeq(b, 1, n)
      OBVIOUS
    <2>2. p \in Seq(Pairs) /\ Len(p) = n /\ \A j \in 1 .. n : p[j] = b[j]
      BY <1>3, <1>7, <1>14, <2>1
    <2>3. \A j \in 1 .. n : p[j] = <<i, j - 1>>
      <3> SUFFICES ASSUME NEW j \in 1 .. n PROVE p[j] = <<i, j - 1>>
        OBVIOUS
      <3>1. j \in 1 .. Len(b) /\ j <= n
        BY <1>3, <1>7, <1>14
      <3> QED BY <1>6, <2>2, <3>1
    <2>4. p = [k \in 1 .. n |-> <<i, k - 1>>]
      <3>1. PICK q : q = [k \in 1 .. n |-> <<i, k - 1>>]
        OBVIOUS
      <3>2. \A k \in 1 .. n : <<i, k - 1>> \in Pairs
        BY <1>3, <1>4 DEF Pairs
      <3> HIDE DEF Pairs
      <3>3. q \in Seq(Pairs) /\ Len(q) = n
        <4>1. q \in [1 .. n -> Pairs] /\ n \in Nat
          BY <1>3, <3>1, <3>2
        <4> QED BY <4>1, FunctionSeq
      <3> QED BY <2>2, <2>3, <3>1, <3>3, SeqEqual
    <2>5. Link!Bytes(i) = [k \in 1 .. n |-> <<i, k - 1>>]
      BY <1>2 DEF Link!Bytes, SizeIn
    <2>6. i \in DOMAIN frames
      BY <1>4
    <2>7. p[1][1] = i
      BY <1>3, <2>3
    <2> QED BY <2>1, <2>4, <2>5, <2>6, <2>7 DEF Link!FrameOf
  <1>15. Link!Whole(b) => Len(b) > 5
    BY <1>3, <1>7, <1>12
  <1> QED BY <1>1, <1>2, <1>3, <1>9, <1>10, <1>12, <1>13, <1>14, <1>15

\* A frame handled as one of those sent is that frame, whatever came before it;
\* so the byte that tells its length tells that it is a time frame.
LEMMA TimeSeen ==
    ASSUME frames \in Seq(Link!Frames), NEW b \in Seq(Pairs), Link!Whole(b),
           NEW i \in 1 .. Len(frames), frames[i].kind = "time",
           Link!FrameOf(SubSeq(b, 1, Link!LengthOf(Link!TypeOf(b)))) = i
    PROVE  Link!TypeOf(b) = 15
  <1>1. PICK n, p : n = Link!LengthOf(Link!TypeOf(b)) /\ p = SubSeq(b, 1, n)
    OBVIOUS
  <1>2. n \in {21, 25} /\ n <= Len(b) /\ Link!TypeOf(b) = Link!Byte(b[6])
    BY <1>1, LengthFacts
  <1>3. Len(p) = n /\ \A j \in 1 .. n : p[j] = b[j]
    BY <1>1, <1>2
  <1>4. Link!FrameOf(p) = i /\ i # 0
    BY <1>1
  <1>5. PICK k \in 1 .. Len(frames) : p = Link!Bytes(k) /\ p[1][1] = i
    BY <1>4 DEF Link!FrameOf
  <1>6. p = [j \in 1 .. SizeIn(frames, k) |-> <<k, j - 1>>] /\ SizeIn(frames, k) \in {21, 25}
    BY <1>5, SizeFacts DEF Link!Bytes, SizeIn
  <1>7. p[1] = <<k, 0>> /\ p[6] = <<k, 5>>
    BY <1>6
  <1>8. b[6] = <<i, 5>>
    BY <1>2, <1>3, <1>5, <1>7
  <1>9. Link!Byte(b[6]) = Link!ByteAt(frames[i], 5)
    BY <1>4, <1>8 DEF Link!Byte, Link!Zero
  <1>10. frames[i] \in Link!Frames
    OBVIOUS
  <1> QED BY <1>2, <1>9, <1>10, FrameBytes

\* What elba_parsing is called with is a number.
LEMMA FrameOfNat ==
    ASSUME frames \in Seq(Link!Frames), NEW p
    PROVE  Link!FrameOf(p) \in Nat
  <1>1. CASE \E k \in DOMAIN frames : p = Link!Bytes(k)
    <2>1. PICK k \in 1 .. Len(frames) : p = Link!Bytes(k)
      BY <1>1
    <2>2. p = [j \in 1 .. SizeIn(frames, k) |-> <<k, j - 1>>] /\ SizeIn(frames, k) \in {21, 25}
      BY <2>1, SizeFacts DEF Link!Bytes, SizeIn
    <2>3. p[1] = <<k, 0>>
      BY <2>2
    <2> QED BY <1>1, <2>3 DEF Link!FrameOf
  <1>2. CASE ~\E k \in DOMAIN frames : p = Link!Bytes(k)
    BY <1>2 DEF Link!FrameOf
  <1> QED BY <1>1, <1>2

LinkTypes ==
    /\ phase \in {"open", "send", "recv", "scan", "close"}
    /\ peer \in {"up", "reset", "closed"}
    /\ frames \in Seq(Link!Frames)
    /\ wire \in Seq(Pairs) /\ buffer \in Seq(Pairs) /\ rest \in Seq(Pairs)
    /\ handled \in Seq(Nat)
    /\ timeRequest \in BOOLEAN /\ stale \in BOOLEAN
\* What holds on every connection.
LinkShape ==
    /\ phase = "scan" => rest = << >> /\ buffer # << >>
    /\ phase # "scan" => buffer = << >>
    /\ Len(rest) < 25
    /\ phase = "recv" => unanswered = {}
    /\ unanswered # {} => timeRequest
    /\ phase = "open" => /\ frames = << >> /\ wire = << >> /\ handled = << >>
                         /\ arrived = {}
                         /\ ~stale => rest = << >>
\* What has been read and not handled, and with it what is still to be read.
Held == IF phase = "scan" THEN buffer ELSE rest
Stream == Held \o wire
\* What holds on a connection that began with an empty buffer: the frames handled
\* are the first ones, and the stream is what the station sent after them.
InOrder ==
    /\ Len(handled) <= Len(frames)
    /\ \A i \in 1 .. Len(handled) : handled[i] = i
    /\ Ordered(frames, Stream, Len(handled))
    /\ peer = "up" => Reaches(frames, Stream, Len(handled))
    /\ arrived = (1 .. Len(handled)) \cup EndedIn(frames, Held)
    /\ phase # "scan" => EndedIn(frames, rest) = {}
LinkInv == LinkTypes /\ LinkShape /\ (~stale => InOrder)

LEMMA HeldType ==
    ASSUME LinkTypes
    PROVE  /\ Held \in Seq(Pairs) /\ Stream \in Seq(Pairs)
           /\ Len(Stream) = Len(Held) + Len(wire)
           /\ \A j \in 1 .. Len(Held) : Stream[j] = Held[j]
           /\ \A j \in 1 .. Len(wire) : Stream[Len(Held) + j] = wire[j]
  <1>1. Held \in Seq(Pairs) /\ wire \in Seq(Pairs)
    BY DEF LinkTypes, Held
  <1>2. PICK a \in Seq(Pairs), w \in Seq(Pairs) : a = Held /\ w = wire
    BY <1>1
  <1>3. /\ a \o w \in Seq(Pairs) /\ Len(a \o w) = Len(a) + Len(w)
        /\ \A i \in 1 .. Len(a) + Len(w) : (a \o w)[i] = IF i <= Len(a) THEN a[i] ELSE w[i - Len(a)]
    BY ConcatProperties
  <1>4. \A j \in 1 .. Len(a) : (a \o w)[j] = a[j]
    BY <1>3
  <1>5. ASSUME NEW j \in 1 .. Len(w) PROVE (a \o w)[Len(a) + j] = w[j]
    <2>1. PICK k : k = Len(a) + j
      OBVIOUS
    <2>2. k \in 1 .. Len(a) + Len(w) /\ ~(k <= Len(a)) /\ k - Len(a) = j
      BY <2>1
    <2> QED BY <1>3, <2>1, <2>2
  <1> QED BY <1>2, <1>3, <1>4, <1>5 DEF Stream

\* What is held is a beginning of the stream.
LEMMA HeldOrdered ==
    ASSUME LinkTypes, InOrder
    PROVE  Ordered(frames, Held, Len(handled))
  <1>1. Len(handled) \in Nat /\ Ordered(frames, Stream, Len(handled))
    BY DEF InOrder, LinkTypes
  <1>2. Len(Held) \in Nat /\ Len(wire) \in Nat
    BY HeldType DEF LinkTypes
  <1> QED BY <1>1, <1>2, HeldType, PrefixOrdered

LEMMA LinkInit ==
    ASSUME Link!Init
    PROVE  LinkInv
  <1> USE DEF Link!Init
  <1>1. LinkTypes
    <2>1. << >> \in Seq(Link!Frames) /\ << >> \in Seq(Pairs) /\ << >> \in Seq(Nat)
      OBVIOUS
    <2> QED BY <2>1, Zenon DEF LinkTypes
  <1>2. LinkShape
    BY DEF LinkShape
  <1>3. Held = << >> /\ Stream = << >> /\ Len(handled) = 0 /\ Len(frames) = 0 /\ Len(<< >>) = 0
    BY DEF Held, Stream
  <1>4. Ordered(frames, << >>, 0) /\ Reaches(frames, << >>, 0) /\ EndedIn(frames, << >>) = {}
    BY <1>3 DEF Ordered, Good, Runs, Reaches, EndedIn
  <1>5. InOrder
    BY <1>3, <1>4 DEF InOrder
  <1> QED BY <1>1, <1>2, <1>5 DEF LinkInv

\* A step of the thread that reads nothing and scans nothing.
LEMMA LinkQuietStep ==
    ASSUME LinkInv, phase # "scan", phase' # "scan",
           UNCHANGED <<frames, wire, arrived, buffer, rest, handled, stale>>,
           peer' = "up" => peer = "up" \/ phase = "open"
    PROVE  ~stale' => InOrder'
  <1> SUFFICES ASSUME ~stale' PROVE InOrder'
    OBVIOUS
  <1>1. InOrder /\ LinkTypes
    BY DEF LinkInv
  <1>2. Held' = Held /\ Stream' = Stream
    BY DEF Held, Stream
  <1>3. ASSUME phase = "open" PROVE Reaches(frames, Stream, Len(handled))
    <2>1. Stream = << >> /\ Len(handled) = 0 /\ Len(frames) = 0
      BY <1>3 DEF LinkInv, LinkShape, Stream, Held
    <2> QED BY <2>1 DEF Reaches
  <1>4. Ordered(frames', Stream', Len(handled'))
    BY <1>1, <1>2 DEF InOrder
  <1>5. peer' = "up" => Reaches(frames', Stream', Len(handled'))
    BY <1>1, <1>2, <1>3 DEF InOrder
  <1>6. /\ arrived' = (1 .. Len(handled')) \cup EndedIn(frames', Held')
        /\ phase' # "scan" => EndedIn(frames', rest') = {}
    BY <1>1, <1>2 DEF InOrder
  <1>7. Len(handled') <= Len(frames') /\ \A i \in 1 .. Len(handled') : handled'[i] = i
    BY <1>1 DEF InOrder
  <1> QED BY <1>4, <1>5, <1>6, <1>7 DEF InOrder

LEMMA LinkQuietSteps ==
    ASSUME LinkInv, Link!Connect \/ Link!Transmit \/ Link!RecvNothing \/ Link!RecvError
                    \/ Link!RecvEnd
    PROVE  LinkInv'
  <1>1. LinkTypes /\ LinkShape
    BY DEF LinkInv
  <1>2. /\ phase # "scan" /\ phase' \in {"send", "recv", "close"}
        /\ UNCHANGED <<frames, wire, arrived, buffer, rest, handled, stale>>
        /\ peer' = "up" => peer = "up" \/ phase = "open"
        /\ peer' \in {"up", "reset", "closed"} /\ timeRequest' \in BOOLEAN
    BY <1>1 DEF LinkTypes, Link!Connect, Link!Transmit, Link!TransmitWith, Link!RecvNothing,
                Link!RecvError, Link!RecvEnd, Link!connection, Link!input
  <1>3. /\ phase' = "recv" => unanswered' = {}
        /\ unanswered' # {} => timeRequest'
    <2>1. CASE Link!Transmit
      BY <1>1, <2>1 DEF LinkTypes, LinkShape, Link!Transmit, Link!TransmitWith
    <2>2. CASE Link!Connect \/ Link!RecvNothing \/ Link!RecvError \/ Link!RecvEnd
      BY <1>1, <2>2 DEF LinkShape, Link!Connect, Link!RecvNothing, Link!RecvError, Link!RecvEnd
    <2> QED BY <2>1, <2>2
  <1>4. LinkTypes'
    BY <1>1, <1>2 DEF LinkTypes
  <1>5. LinkShape'
    BY <1>1, <1>2, <1>3 DEF LinkShape
  <1>6. ~stale' => InOrder'
    BY <1>2, LinkQuietStep
  <1> QED BY <1>4, <1>5, <1>6 DEF LinkInv

\* What elba_close leaves.
LEMMA ForgetSteps ==
    ASSUME LinkInv, Link!ConnectFails \/ Link!Close
    PROVE  LinkInv'
  <1>1. LinkTypes /\ LinkShape
    BY DEF LinkInv
  <1>2. /\ phase \in {"open", "close"} /\ phase' = "open" /\ buffer' = buffer /\ peer' = peer
        /\ timeRequest' = timeRequest
        /\ frames' = << >> /\ wire' = << >> /\ arrived' = {} /\ handled' = << >>
        /\ unanswered' = {} /\ stale' = (rest # << >>)
        /\ rest' = [k \in DOMAIN rest |-> <<0, 0>>]
    BY DEF Link!ConnectFails, Link!Close, Link!Forget, Link!Zero
  <1>3. rest' \in Seq(Pairs) /\ Len(rest') = Len(rest) /\ (rest = << >> => rest' = << >>)
    <2>1. rest \in Seq(Pairs) /\ DOMAIN rest = 1 .. Len(rest) /\ Len(rest) \in Nat
      BY <1>1 DEF LinkTypes
    <2>2. <<0, 0>> \in Pairs
      BY DEF Pairs
    <2> HIDE DEF Pairs
    <2>3. rest' \in [1 .. Len(rest) -> Pairs]
      BY <1>2, <2>1, <2>2
    <2>4. rest' \in Seq(Pairs) /\ Len(rest') = Len(rest)
      BY <2>1, <2>3, FunctionSeq
    <2> QED BY <2>1, <2>4
  <1>4. LinkTypes'
    BY <1>1, <1>2, <1>3 DEF LinkTypes
  <1>5. LinkShape'
    BY <1>1, <1>2, <1>3 DEF LinkShape
  <1>6. ASSUME ~stale' PROVE InOrder'
    <2>1. rest' = << >>
      BY <1>2, <1>3, <1>6
    <2>2. Held' = << >> /\ Stream' = << >> /\ Len(handled') = 0 /\ Len(frames') = 0
          /\ Len(<< >>) = 0
      BY <1>2, <2>1 DEF Held, Stream
    <2>3. /\ Ordered(frames', << >>, 0) /\ Reaches(frames', << >>, 0)
          /\ EndedIn(frames', << >>) = {}
      BY <2>2 DEF Ordered, Good, Runs, Reaches, EndedIn
    <2> QED BY <1>2, <2>1, <2>2, <2>3 DEF InOrder
  <1> QED BY <1>4, <1>5, <1>6 DEF LinkInv

\* Reading moves bytes from the wire behind those that waited; the stream is the
\* same, and the frames that end among them have now arrived.
LEMMA RecvStep ==
    ASSUME LinkInv, NEW n \in 1 .. Len(wire), Link!Recv(n)
    PROVE  LinkInv'
  <1>1. LinkTypes /\ LinkShape
    BY DEF LinkInv
  <1>2. PICK a, w, l, r :
           /\ a \in Seq(Pairs) /\ a = rest /\ w \in Seq(Pairs) /\ w = wire
           /\ l = SubSeq(w, 1, n) /\ r = SubSeq(w, n + 1, Len(w))
    BY <1>1 DEF LinkTypes
  <1>3. /\ phase = "recv" /\ phase' = "scan" /\ wire' = r /\ arrived' = arrived \cup Link!Ended(l)
        /\ buffer' = a \o l /\ rest' = << >> /\ peer' = peer /\ frames' = frames
        /\ handled' = handled /\ timeRequest' = timeRequest /\ unanswered' = unanswered
        /\ stale' = stale
    BY <1>2 DEF Link!Recv, Link!Joined, Link!connection
  <1>4. n \in 1 .. Len(w)
    BY <1>2
  <1>5. l \in Seq(Pairs) /\ r \in Seq(Pairs) /\ (a \o l) \o r = a \o w
    <2>1. /\ SubSeq(w, 1, n) \in Seq(Pairs) /\ SubSeq(w, n + 1, Len(w)) \in Seq(Pairs)
          /\ (a \o SubSeq(w, 1, n)) \o SubSeq(w, n + 1, Len(w)) = a \o w
      BY <1>2, <1>4, Regroup
    <2> QED BY <1>2, <2>1
  <1>6. Len(l) = n /\ \A j \in 1 .. n : l[j] = w[j]
    BY <1>2, <1>4
  <1>7. a \o l \in Seq(Pairs) /\ a \o l # << >>
    <2>1. a \o l \in Seq(Pairs) /\ Len(a \o l) = Len(a) + Len(l)
      BY <1>2, <1>5, ConcatProperties
    <2>2. Len(a \o l) > 0
      BY <1>2, <1>4, <1>6, <2>1
    <2> QED BY <2>1, <2>2
  <1>8. LinkTypes'
    <2>1. << >> \in Seq(Pairs)
      OBVIOUS
    <2> QED BY <1>1, <1>3, <1>5, <1>7, <2>1 DEF LinkTypes
  <1>9. LinkShape'
    <2>1. Len(<< >>) < 25
      OBVIOUS
    <2> QED BY <1>1, <1>3, <1>7, <2>1 DEF LinkShape
  <1>10. ASSUME ~stale' PROVE InOrder'
    <2>1. InOrder
      BY <1>3, <1>10 DEF LinkInv
    <2>2. Held = a /\ Stream = a \o w /\ Held' = a \o l /\ Stream' = Stream
      BY <1>2, <1>3, <1>5 DEF Held, Stream
    <2>3. Good(frames, l)
      <3>1. \A j \in 1 .. Len(w) : Stream[Len(a) + j] = w[j]
        BY <1>1, <1>2, <2>2, HeldType
      <3>2. Len(Stream) = Len(a) + Len(w)
        BY <1>1, <1>2, <2>2, HeldType
      <3>3. ASSUME NEW j \in 1 .. Len(l)
            PROVE  l[j][1] \in 1 .. Len(frames) /\ l[j][2] \in 0 .. SizeIn(frames, l[j][1]) - 1
        <4>1. PICK k : k = Len(a) + j
          OBVIOUS
        <4>2. j \in 1 .. Len(w) /\ k \in 1 .. Len(Stream) /\ l[j] = Stream[k]
          <5>1. j \in 1 .. n /\ j \in 1 .. Len(w) /\ l[j] = w[j]
            BY <1>4, <1>6
          <5>2. l[j] = Stream[k]
            BY <1>2, <3>1, <4>1, <5>1
          <5>3. Len(Stream) = Len(a) + Len(w) /\ Len(a) \in Nat /\ Len(w) \in Nat
            BY <1>2, <3>2
          <5> QED BY <4>1, <5>1, <5>2, <5>3
        <4> QED BY <2>1, <4>2 DEF InOrder, Ordered, Good
      <3> QED BY <3>3 DEF Good
    <2>4. Link!Ended(l) = EndedIn(frames, l)
      BY <1>1, <1>5, <2>3, EndedIs DEF LinkTypes
    <2>5. EndedIn(frames, a \o l) = EndedIn(frames, a) \cup EndedIn(frames, l)
      <3>1. a \in Seq(Pairs) /\ l \in Seq(Pairs)
        BY <1>2, <1>5
      <3> QED BY <3>1, EndedConcat
    <2>6. arrived = (1 .. Len(handled)) \cup EndedIn(frames, a) /\ EndedIn(frames, a) = {}
      BY <1>2, <1>3, <2>1, <2>2 DEF InOrder
    <2>7. arrived' = (1 .. Len(handled')) \cup EndedIn(frames', Held')
      BY <1>3, <2>2, <2>4, <2>5, <2>6
    <2>8. Ordered(frames', Stream', Len(handled'))
      BY <1>3, <2>1, <2>2 DEF InOrder
    <2>9. peer' = "up" => Reaches(frames', Stream', Len(handled'))
      BY <1>3, <2>1, <2>2 DEF InOrder
    <2> QED BY <1>3, <2>1, <2>7, <2>8, <2>9 DEF InOrder
  <1> QED BY <1>8, <1>9, <1>10 DEF LinkInv

\* The rest of the buffer the loop goes on with.
LEMMA SkipType ==
    ASSUME LinkInv, phase = "scan"
    PROVE  Link!Skip(buffer) \in Seq(Pairs)
  <1>1. buffer \in Seq(Pairs) /\ buffer # << >>
    BY DEF LinkInv, LinkTypes, LinkShape
  <1> QED BY <1>1 DEF Link!Skip

\* One frame of the buffer is handled.
LEMMA ScanFrameStep ==
    ASSUME LinkInv, Link!ScanFrame
    PROVE  LinkInv'
  <1>1. LinkTypes /\ LinkShape /\ phase = "scan"
    BY DEF LinkInv, Link!ScanFrame
  <1>2. PICK b, n, p, calls :
           /\ b = Link!Skip(buffer) /\ n = Link!LengthOf(Link!TypeOf(b))
           /\ p = Link!FrameOf(SubSeq(b, 1, n))
           /\ calls = IF Link!Byte(b[9]) \in {0, 64} THEN <<p>> ELSE << >>
    OBVIOUS
  <1>3. /\ Link!Whole(b) /\ Link!NoteTime(b)
        /\ buffer' = SubSeq(b, n + 1, Len(b)) /\ handled' = handled \o calls
        /\ unanswered' = unanswered \cup
              {i \in DOMAIN frames : calls = <<i>> /\ frames[i].kind = "time"}
        /\ phase' = (IF buffer' = << >> THEN "send" ELSE "scan")
        /\ peer' = peer /\ frames' = frames /\ wire' = wire /\ arrived' = arrived
        /\ rest' = rest /\ stale' = stale
    <2>1. 8 + 1 = 9
      OBVIOUS
    <2> QED BY <1>2, <2>1 DEF Link!ScanFrame, Link!KindAt, Link!Handleable, Link!connection, Link!input
  <1>4. b \in Seq(Pairs)
    BY <1>1, <1>2, SkipType
  <1>5. n \in {21, 25} /\ n <= Len(b) /\ n \in 1 .. Len(b)
    <2>1. n \in {21, 25} /\ n <= Len(b)
      BY <1>2, <1>3, <1>4, LengthFacts
    <2> QED BY <1>4, <2>1
  <1>6. buffer' \in Seq(Pairs)
    BY <1>3, <1>4, <1>5
  <1>7. p \in Nat
    BY <1>1, <1>2, FrameOfNat DEF LinkTypes
  <1>8. handled' \in Seq(Nat)
    <2>1. handled \in Seq(Nat) /\ calls \in Seq(Nat)
      BY <1>1, <1>2, <1>7 DEF LinkTypes
    <2> QED BY <1>3, <2>1, ConcatProperties
  <1>9. timeRequest' \in BOOLEAN /\ (timeRequest => timeRequest')
        /\ (Link!TypeOf(b) = 15 => timeRequest')
    BY <1>1, <1>3 DEF Link!NoteTime, Link!TypeByte, LinkTypes
  <1>10. unanswered' # {} => timeRequest'
    <2> SUFFICES ASSUME NEW i \in unanswered' PROVE timeRequest'
      OBVIOUS
    <2>1. CASE i \in unanswered
      BY <1>1, <1>9, <2>1 DEF LinkShape
    <2>2. CASE i \notin unanswered
      <3>1. i \in DOMAIN frames /\ calls = <<i>> /\ frames[i].kind = "time"
        BY <1>3, <2>2
      <3>2. frames \in Seq(Link!Frames) /\ i \in 1 .. Len(frames)
        BY <1>1, <3>1 DEF LinkTypes
      <3>3. p = i
        <4>1. <<i>> # << >> /\ (<<p>> = <<i>> => p = i)
          OBVIOUS
        <4> QED BY <1>2, <3>1, <4>1
      <3>4. Link!TypeOf(b) = 15
        BY <1>2, <1>3, <1>4, <3>1, <3>2, <3>3, TimeSeen
      <3> QED BY <1>9, <3>4
    <2> QED BY <2>1, <2>2
  <1>11. LinkTypes'
    BY <1>1, <1>3, <1>6, <1>8, <1>9 DEF LinkTypes
  <1>12. LinkShape'
    BY <1>1, <1>3, <1>10 DEF LinkShape
  <1>13. ASSUME ~stale' PROVE InOrder'
    <2>1. InOrder
      BY <1>3, <1>13 DEF LinkInv
    <2>2. PICK h \in Nat : h = Len(handled)
      BY <1>1 DEF LinkTypes
    <2>3. frames \in Seq(Link!Frames) /\ buffer \in Seq(Pairs) /\ buffer # << >>
          /\ wire \in Seq(Pairs) /\ rest = << >>
      BY <1>1 DEF LinkTypes, LinkShape
    <2>4. Held = buffer /\ Ordered(frames, buffer, h)
      BY <1>1, <2>1, <2>2, HeldOrdered DEF Held
    <2>5. /\ h + 1 \in 1 .. Len(frames) /\ b = buffer /\ n = SizeIn(frames, h + 1)
          /\ calls = <<h + 1>>
      BY <1>2, <1>3, <2>3, <2>4, ScanHead
    <2>6. /\ Len(handled') = h + 1
          /\ \A i \in 1 .. Len(handled') : handled'[i] = i
      <3>1. handled \in Seq(Nat) /\ handled' = handled \o <<h + 1>>
            /\ \A i \in 1 .. h : handled[i] = i
        BY <1>1, <1>3, <2>1, <2>2, <2>5 DEF LinkTypes, InOrder
      <3> QED BY <2>2, <3>1
    <2>7. Held' = buffer' /\ Stream' = buffer' \o wire
      BY <1>3, <2>3 DEF Held, Stream
    <2>8. Stream = buffer \o wire
      BY <2>4 DEF Stream
    <2>9. /\ buffer' \in Seq(Pairs) /\ Len(buffer') = Len(buffer) - n
          /\ \A i \in 1 .. Len(buffer) - n : buffer'[i] = buffer[n + i]
          /\ Stream' \in Seq(Pairs) /\ Len(Stream') = Len(Stream) - n
          /\ \A i \in 1 .. Len(Stream) - n : Stream'[i] = Stream[n + i]
      <3>1. PICK s, w : s = buffer /\ w = wire
        OBVIOUS
      <3>2. s \in Seq(Pairs) /\ w \in Seq(Pairs) /\ n \in 1 .. Len(s)
        BY <1>5, <2>3, <2>5, <3>1
      <3>3. /\ SubSeq(s, n + 1, Len(s)) \in Seq(Pairs)
            /\ Len(SubSeq(s, n + 1, Len(s))) = Len(s) - n
            /\ \A i \in 1 .. Len(s) - n : SubSeq(s, n + 1, Len(s))[i] = s[n + i]
            /\ SubSeq(s, n + 1, Len(s)) \o w \in Seq(Pairs)
            /\ Len(SubSeq(s, n + 1, Len(s)) \o w) = Len(s \o w) - n
            /\ \A i \in 1 .. Len(s \o w) - n :
                  (SubSeq(s, n + 1, Len(s)) \o w)[i] = (s \o w)[n + i]
        BY <3>2, Behind
      <3>4. buffer' = SubSeq(s, n + 1, Len(s)) /\ Stream' = buffer' \o w /\ Stream = s \o w
        BY <1>3, <2>5, <2>7, <2>8, <3>1
      <3> QED BY <3>1, <3>3, <3>4
    <2>10. n <= Len(Stream) /\ Stream \in Seq(Pairs) /\ Stream # << >>
      <3>1. Stream \in Seq(Pairs) /\ Len(Stream) = Len(buffer) + Len(wire)
        BY <1>1, <2>4, HeldType
      <3>2. Len(Stream) >= n /\ Len(Stream) > 0
        BY <1>5, <2>3, <2>5, <3>1
      <3> QED BY <3>1, <3>2
    <2>11. /\ Ordered(frames, Stream', h + 1)
           /\ Reaches(frames, Stream, h) => Reaches(frames, Stream', h + 1)
      <3>1. Ordered(frames, Stream, h)
        BY <2>1, <2>2 DEF InOrder
      <3> QED BY <2>2, <2>3, <2>5, <2>9, <2>10, <3>1, SuffixOrdered
    <2>12. EndedIn(frames, buffer) = {h + 1} \cup EndedIn(frames, buffer')
      <3>1. PICK s, r, fr : s = buffer /\ r = buffer' /\ fr = frames
        OBVIOUS
      <3>2. /\ fr \in Seq(Link!Frames) /\ s \in Seq(Pairs) /\ s # << >> /\ r \in Seq(Pairs)
            /\ Ordered(fr, s, h) /\ n = SizeIn(fr, h + 1) /\ n <= Len(s)
            /\ Len(r) = Len(s) - n /\ \A i \in 1 .. Len(s) - n : r[i] = s[n + i]
        BY <1>5, <2>3, <2>4, <2>5, <2>9, <3>1
      <3>3. EndedIn(fr, s) = {h + 1} \cup EndedIn(fr, r)
        BY <2>2, <3>2, EndedFirst
      <3> QED BY <3>1, <3>3
    <2>13. arrived' = (1 .. h + 1) \cup EndedIn(frames', Held')
      <3>1. arrived = (1 .. h) \cup EndedIn(frames, buffer)
        BY <2>1, <2>2, <2>4 DEF InOrder
      <3>2. 1 .. h + 1 = (1 .. h) \cup {h + 1}
        BY <2>2
      <3> QED BY <1>3, <2>7, <2>12, <3>1, <3>2
    <2>14. Ordered(frames', Stream', Len(handled'))
      BY <1>3, <2>6, <2>11
    <2>15. peer' = "up" => Reaches(frames', Stream', Len(handled'))
      BY <1>3, <2>1, <2>2, <2>6, <2>11 DEF InOrder
    <2>16. EndedIn(frames', rest') = {}
      <3>1. Len(rest) = 0
        BY <2>3
      <3> QED BY <1>3, <3>1 DEF EndedIn
    <2>17. Len(handled') <= Len(frames')
      BY <1>3, <2>5, <2>6
    <2> QED BY <2>6, <2>13, <2>14, <2>15, <2>16, <2>17 DEF InOrder
  <1> QED BY <1>11, <1>12, <1>13 DEF LinkInv

\* A piece of a frame waits for the next read.
LEMMA ScanPieceStep ==
    ASSUME LinkInv, Link!ScanPiece
    PROVE  LinkInv'
  <1>1. LinkTypes /\ LinkShape /\ phase = "scan"
    BY DEF LinkInv, Link!ScanPiece
  <1>2. PICK b : b = Link!Skip(buffer)
    OBVIOUS
  <1>3. /\ ~Link!Whole(b) /\ Link!NoteTime(b) /\ rest' = b
        /\ phase' = "send" /\ buffer' = << >> /\ peer' = peer /\ frames' = frames
        /\ wire' = wire /\ arrived' = arrived /\ handled' = handled
        /\ unanswered' = unanswered /\ stale' = stale
    BY <1>2 DEF Link!ScanPiece, Link!connection, Link!input
  <1>4. b \in Seq(Pairs)
    BY <1>1, <1>2, SkipType
  <1>5. Len(b) < 25
    BY <1>3, <1>4, LengthFacts
  <1>6. timeRequest' \in BOOLEAN /\ (timeRequest => timeRequest')
    BY <1>1, <1>3 DEF Link!NoteTime, LinkTypes
  <1>7. LinkTypes'
    <2>1. << >> \in Seq(Pairs)
      OBVIOUS
    <2> QED BY <1>1, <1>3, <1>4, <1>6, <2>1 DEF LinkTypes
  <1>8. LinkShape'
    BY <1>1, <1>3, <1>5, <1>6 DEF LinkShape
  <1>9. ASSUME ~stale' PROVE InOrder'
    <2>1. InOrder
      BY <1>3, <1>9 DEF LinkInv
    <2>2. PICK h \in Nat : h = Len(handled)
      BY <1>1 DEF LinkTypes
    <2>3. frames \in Seq(Link!Frames) /\ buffer \in Seq(Pairs) /\ buffer # << >>
      BY <1>1 DEF LinkTypes, LinkShape
    <2>4. Held = buffer /\ Ordered(frames, buffer, h)
      BY <1>1, <2>1, <2>2, HeldOrdered DEF Held
    <2>5. h + 1 \in 1 .. Len(frames) /\ SizeIn(frames, h + 1) \in {21, 25}
          /\ b = buffer /\ Len(buffer) < SizeIn(frames, h + 1)
      <3>1. /\ h + 1 \in 1 .. Len(frames) /\ b = buffer /\ SizeIn(frames, h + 1) \in {21, 25}
            /\ ~(SizeIn(frames, h + 1) <= Len(buffer))
        BY <1>2, <1>3, <2>3, <2>4, ScanHead
      <3>2. Len(buffer) \in Nat
        BY <2>3
      <3> QED BY <3>1, <3>2
    <2>6. Held' = buffer /\ Stream' = Stream
      BY <1>3, <2>4, <2>5 DEF Held, Stream
    <2>7. EndedIn(frames, buffer) = {}
      BY <2>2, <2>3, <2>4, <2>5, EndedPiece
    <2>8. Ordered(frames', Stream', Len(handled'))
      BY <1>3, <2>1, <2>6 DEF InOrder
    <2>9. peer' = "up" => Reaches(frames', Stream', Len(handled'))
      BY <1>3, <2>1, <2>6 DEF InOrder
    <2>10. arrived' = (1 .. Len(handled')) \cup EndedIn(frames', Held')
      BY <1>3, <2>1, <2>4, <2>6 DEF InOrder
    <2> QED BY <1>3, <2>1, <2>5, <2>7, <2>8, <2>9, <2>10 DEF InOrder
  <1> QED BY <1>7, <1>8, <1>9 DEF LinkInv

\* The connection ends; what was not read may never be.
LEMMA LostStep ==
    ASSUME LinkInv, Link!Lost
    PROVE  LinkInv'
  <1>1. LinkTypes /\ LinkShape
    BY DEF LinkInv
  <1>2. /\ peer' \in {"reset", "closed"} /\ wire' \in {wire, << >>}
        /\ phase' = phase /\ frames' = frames /\ arrived' = arrived /\ buffer' = buffer
        /\ rest' = rest /\ handled' = handled /\ timeRequest' = timeRequest
        /\ unanswered' = unanswered /\ stale' = stale
    BY DEF Link!Lost
  <1>3. LinkTypes'
    <2>1. << >> \in Seq(Pairs)
      OBVIOUS
    <2> QED BY <1>1, <1>2, <2>1 DEF LinkTypes
  <1>4. LinkShape'
    BY <1>1, <1>2 DEF LinkShape
  <1>5. ASSUME ~stale' PROVE InOrder'
    <2>1. InOrder
      BY <1>2, <1>5 DEF LinkInv
    <2>2. PICK h \in Nat : h = Len(handled)
      BY <1>1 DEF LinkTypes
    <2>3. Held' = Held
      BY <1>2 DEF Held
    <2>4. /\ Stream' \in Seq(Pairs) /\ Len(Stream') = Len(Held') + Len(wire')
          /\ \A j \in 1 .. Len(Held') : Stream'[j] = Held'[j]
      <3>1. /\ Held' \in Seq(Pairs) /\ wire' \in Seq(Pairs) /\ Stream' = Held' \o wire'
        BY <1>3 DEF LinkTypes, Held, Stream
      <3> QED BY <3>1, ConcatProperties
    <2>5. Ordered(frames, Stream', h)
      <3>1. CASE wire' = wire
        BY <2>1, <2>2, <2>3, <3>1 DEF InOrder, Stream
      <3>2. CASE wire' = << >>
        <4>1. Len(Stream') = Len(Held) /\ \A j \in 1 .. Len(Stream') : Stream'[j] = Stream[j]
          <5>1. Held \in Seq(Pairs) /\ \A j \in 1 .. Len(Held) : Stream[j] = Held[j]
            BY <1>1, HeldType
          <5> QED BY <2>3, <2>4, <3>2, <5>1
        <4>2. /\ Stream \in Seq(Pairs) /\ Len(Stream') <= Len(Stream)
          <5>1. /\ Stream \in Seq(Pairs) /\ Len(Stream) = Len(Held) + Len(wire)
                /\ Held \in Seq(Pairs) /\ wire \in Seq(Pairs)
            BY <1>1, HeldType DEF LinkTypes
          <5> QED BY <4>1, <5>1
        <4>3. Ordered(frames, Stream, h)
          BY <2>1, <2>2 DEF InOrder
        <4> QED BY <2>2, <2>4, <4>1, <4>2, <4>3, PrefixOrdered
      <3> QED BY <1>2, <3>1, <3>2
    <2> QED BY <1>2, <2>1, <2>2, <2>3, <2>5 DEF InOrder
  <1> QED BY <1>3, <1>4, <1>5 DEF LinkInv

\* One more frame changes nothing of those that ended before.
LEMMA EndedAppend ==
    ASSUME NEW fr \in Seq(Link!Frames), NEW f \in Link!Frames, NEW s \in Seq(Pairs), Good(fr, s)
    PROVE  EndedIn(Append(fr, f), s) = EndedIn(fr, s)
  <1>1. PICK g : g = Append(fr, f)
    OBVIOUS
  <1>2. Len(g) = Len(fr) + 1 /\ \A i \in 1 .. Len(fr) : g[i] = fr[i]
    BY <1>1
  <1>3. \A i \in 1 .. Len(fr) : SizeIn(g, i) = SizeIn(fr, i)
    BY <1>2 DEF SizeIn
  <1>4. 1 .. Len(fr) \subseteq 1 .. Len(g)
    BY <1>2
  <1>5. \A j \in 1 .. Len(s) : s[j][1] \in 1 .. Len(fr)
    BY DEF Good
  <1> QED BY <1>1, <1>3, <1>4, <1>5 DEF EndedIn

\* The station sends a frame.
LEMMA SendsStep ==
    ASSUME LinkInv, NEW f \in Link!Frames, Link!StationSends(f)
    PROVE  LinkInv'
  <1>1. LinkTypes /\ LinkShape
    BY DEF LinkInv
  <1>2. PICK new : new = [k \in 1 .. Link!Size(f) |-> <<Len(frames'), k - 1>>]
    OBVIOUS
  <1>3. /\ phase # "open" /\ peer = "up" /\ frames' = Append(frames, f) /\ wire' = wire \o new
        /\ phase' = phase /\ peer' = peer /\ arrived' = arrived /\ buffer' = buffer
        /\ rest' = rest /\ handled' = handled /\ timeRequest' = timeRequest
        /\ unanswered' = unanswered /\ stale' = stale
    BY <1>2 DEF Link!StationSends
  <1>4. new \in Seq(Pairs)
    <2>1. Link!Size(f) \in {21, 25}
      BY FrameBytes
    <2>2. Len(frames') \in Nat
      BY <1>1, <1>3 DEF LinkTypes
    <2>3. \A k \in 1 .. Link!Size(f) : <<Len(frames'), k - 1>> \in Pairs
      BY <2>1, <2>2 DEF Pairs
    <2> HIDE DEF Pairs
    <2>4. new \in [1 .. Link!Size(f) -> Pairs] /\ Link!Size(f) \in Nat
      BY <1>2, <2>1, <2>3
    <2> QED BY <2>4, FunctionSeq
  <1>5. LinkTypes'
    <2>1. wire' \in Seq(Pairs)
      BY <1>1, <1>3, <1>4, ConcatProperties DEF LinkTypes
    <2>2. frames' \in Seq(Link!Frames)
      BY <1>1, <1>3 DEF LinkTypes
    <2> QED BY <1>1, <1>3, <2>1, <2>2 DEF LinkTypes
  <1>6. LinkShape'
    BY <1>1, <1>3 DEF LinkShape
  <1>7. ASSUME ~stale' PROVE InOrder'
    <2>1. InOrder
      BY <1>3, <1>7 DEF LinkInv
    <2>2. PICK h \in Nat : h = Len(handled)
      BY <1>1 DEF LinkTypes
    <2>3. Held' = Held /\ Stream' = Stream \o new
      <3>1. PICK a \in Seq(Pairs), w \in Seq(Pairs) : a = Held /\ w = wire
        BY <1>1, HeldType DEF LinkTypes
      <3>2. (a \o w) \o new = a \o (w \o new)
        BY <1>4
      <3>3. Held' = Held
        BY <1>3 DEF Held
      <3> QED BY <1>3, <3>1, <3>2, <3>3 DEF Stream
    <2>4. /\ Ordered(frames', Stream \o new, h) /\ Reaches(frames', Stream \o new, h)
      <3>1. Ordered(frames, Stream, h) /\ Reaches(frames, Stream, h) /\ Stream \in Seq(Pairs)
            /\ frames \in Seq(Link!Frames)
        BY <1>1, <1>3, <2>1, <2>2, HeldType DEF InOrder, LinkTypes
      <3> QED BY <1>2, <1>3, <2>2, <3>1, ExtendOrdered
    <2>5. EndedIn(frames', Held) = EndedIn(frames, Held)
      <3>1. Good(frames, Held) /\ Held \in Seq(Pairs)
        BY <1>1, <2>1, HeldOrdered, HeldType DEF Ordered
      <3> QED BY <1>1, <1>3, <3>1, EndedAppend DEF LinkTypes
    <2>6. phase' # "scan" => EndedIn(frames', rest') = {}
      <3>1. phase # "scan" => Held = rest
        BY DEF Held
      <3> QED BY <1>3, <2>1, <2>5, <3>1 DEF InOrder
    <2>7. Len(frames') = Len(frames) + 1 /\ Len(frames) \in Nat /\ h <= Len(frames)
      BY <1>1, <1>3, <2>1, <2>2 DEF LinkTypes, InOrder
    <2>8. Len(handled') <= Len(frames')
      BY <1>3, <2>2, <2>7
    <2>9. arrived' = (1 .. Len(handled')) \cup EndedIn(frames', Held')
      BY <1>3, <2>1, <2>3, <2>5 DEF InOrder
    <2> QED BY <1>3, <2>1, <2>2, <2>3, <2>4, <2>6, <2>8, <2>9 DEF InOrder
  <1> QED BY <1>5, <1>6, <1>7 DEF LinkInv

-----------------------------------------------------------------------------
(* The inductive invariant of the connection, whatever the reads are: the   *)
(* stream that is left is what the station sent after the frames handled.   *)
THEOREM LinkInvariant == Link!Spec => []LinkInv
  <1>1. ASSUME LinkInv, [Link!Next]_(Link!vars) PROVE LinkInv'
    <2>1. CASE Link!ElbaThread
      <3>1. CASE Link!Connect \/ Link!Transmit \/ Link!RecvNothing \/ Link!RecvError \/ Link!RecvEnd
        BY <1>1, <3>1, LinkQuietSteps
      <3>2. CASE Link!ConnectFails \/ Link!Close
        BY <1>1, <3>2, ForgetSteps
      <3>3. ASSUME NEW n \in 1 .. Link!Least(Link!ReadSize, Len(wire)), Link!Recv(n)
            PROVE  LinkInv'
        <4>1. Len(wire) \in Nat
          BY <1>1 DEF LinkInv, LinkTypes
        <4>2. n \in 1 .. Len(wire)
          <5>1. PICK m : m = Link!ReadSize
            OBVIOUS
          <5>2. CASE m < Len(wire)
            <6>1. n \in 1 .. m /\ m \in Int
              BY <5>1, <5>2, <3>3 DEF Link!Least, Link!ReadSize
            <6> QED BY <4>1, <5>2, <6>1
          <5>3. CASE ~(m < Len(wire))
            BY <5>1, <5>3, <3>3 DEF Link!Least
          <5> QED BY <5>2, <5>3
        <4> QED BY <1>1, <3>3, <4>2, RecvStep
      <3>4. CASE Link!ScanFrame
        BY <1>1, <3>4, ScanFrameStep
      <3>5. CASE Link!ScanPiece
        BY <1>1, <3>5, ScanPieceStep
      <3> QED BY <2>1, <3>1, <3>2, <3>3, <3>4, <3>5 DEF Link!ElbaThread
    <2>2. CASE Link!Station
      BY <1>1, <2>2, LostStep, SendsStep DEF Link!Station
    <2>3. CASE UNCHANGED Link!vars
      <3>1. /\ Held' = Held /\ Stream' = Stream /\ LinkTypes' = LinkTypes
            /\ LinkShape' = LinkShape
        BY <2>3 DEF Held, Stream, LinkTypes, LinkShape, Link!vars, Link!connection, Link!input
      <3>2. InOrder' = InOrder
        BY <2>3, <3>1 DEF InOrder, Link!vars, Link!connection, Link!input
      <3> QED BY <1>1, <2>3, <3>1, <3>2 DEF LinkInv, Link!vars
    <2> QED BY <1>1, <2>1, <2>2, <2>3 DEF Link!Next
  <1> QED BY <1>1, LinkInit, PTL DEF Link!Spec

(* On a connection that begins with an empty buffer the frames that have    *)
(* arrived whole are handled once and in order before the next read         *)
(* (elba_recv_message), however the stream is cut into reads.               *)
THEOREM LinkInOrder == Link!Spec => []FramesInOrder
  <1>1. LinkInv => FramesInOrder
    <2> SUFFICES ASSUME LinkInv, ~stale, phase # "scan" PROVE Link!HandledArrived
      BY DEF FramesInOrder, Link!FramesInOrder
    <2>1. InOrder /\ handled \in Seq(Nat) /\ Held = rest
      BY DEF LinkInv, LinkTypes, Held
    <2>2. arrived = 1 .. Len(handled) /\ DOMAIN handled = 1 .. Len(handled)
      BY <2>1 DEF InOrder
    <2> QED BY <2>1, <2>2 DEF InOrder, Link!HandledArrived
  <1> QED BY <1>1, LinkInvariant, PTL

(* What waits in bPrevBuf is less than a frame and fits in bRxBuf with the  *)
(* next read, whatever came before (elba_recv_message).                     *)
THEOREM LinkRestIsShort == Link!Spec => []RestIsShort
  <1>1. LinkInv => RestIsShort
    <2> SUFFICES ASSUME LinkInv PROVE Len(rest) < 25 /\ Len(rest) + Link!ReadSize <= 4096
      BY DEF RestIsShort, Link!RestIsShort
    <2>1. Len(rest) \in Nat /\ Len(rest) < 25
      BY DEF LinkInv, LinkTypes, LinkShape
    <2>2. Link!ReadSize = 682
      BY DEF Link!ReadSize
    <2> QED BY <2>1, <2>2
  <1> QED BY <1>1, LinkInvariant, PTL

(* A time frame is answered before the next read (elba_main), also on a     *)
(* connection that begins with the remainder of an earlier one.             *)
THEOREM LinkTimeAnswered == Link!Spec => []TimeAnswered
  <1>1. LinkInv => TimeAnswered
    BY DEF LinkInv, LinkShape, TimeAnswered, Link!TimeAnswered
  <1> QED BY <1>1, LinkInvariant, PTL
=============================================================================
