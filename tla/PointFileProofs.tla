-------------------------- MODULE PointFileProofs ---------------------------
(***************************************************************************)
(* What PointFile's runs check for two points and three values, proved for *)
(* every number of points and every set of values.                         *)
(***************************************************************************)
EXTENDS PointFile, TLAPS

USE DEF Points, Booting, Observing, Writing, Zeros, disk

\* FileInv holds when the program has not been started yet.
LEMMA InitInv == ASSUME Init PROVE FileInv
<1> USE PointFileAssumption DEF Init
<1>1. file = << >> /\ buf = << >> /\ Len(file) = 0 /\ Len(buf) = 0
  OBVIOUS
<1>2. TypeOK
  <2>1. linked \in BOOLEAN /\ failed \in BOOLEAN
    BY Zenon
  <2>2. file \in Seq(Values) /\ buf \in Seq(Values)
    BY <1>1
  <2>3. held \in [Points -> SUBSET Values]
    OBVIOUS
  <2> QED BY <1>1, <2>1, <2>2, <2>3 DEF TypeOK
<1>3. Genuine /\ \A p \in Points : 0 \in held[p]
  BY <1>1 DEF Genuine
<1>4. LoopInv
  BY <1>1 DEF LoopInv
<1> QED BY <1>2, <1>3, <1>4 DEF FileInv

(* The values in a file that is cut short are still those of their points. *)
LEMMA Prefix == ASSUME NEW s \in Seq(Values), NEW n \in 1 .. Len(s)
                PROVE  /\ SubSeq(s, 1, n) \in Seq(Values)
                       /\ Len(SubSeq(s, 1, n)) = n
                       /\ \A p \in 1 .. n : SubSeq(s, 1, n)[p] = s[p]
OBVIOUS

\* A crash leaves the file empty, complete or with a part of what is written.
LEMMA CrashInv == ASSUME FileInv, Crash PROVE FileInv'
<1> USE PointFileAssumption
<1>1. TypeOK /\ Genuine /\ (\A p \in Points : 0 \in held[p]) /\ LoopInv
  BY DEF FileInv
<1>2. CASE file' = IF linked THEN file ELSE << >>
  BY <1>1, <1>2 DEF Crash, GoTo, FileInv, TypeOK, Genuine, LoopInv
<1>3. CASE at \in Writing /\ \E n \in 1 .. Len(buf) :
             n < MaxPoint /\ file' = SubSeq(buf, 1, n)
  <2>1. PICK n \in 1 .. Len(buf) : n < MaxPoint /\ file' = SubSeq(buf, 1, n)
    BY <1>3
  <2>2. /\ file' \in Seq(Values)
        /\ Len(file') = n
        /\ \A p \in 1 .. n : file'[p] = buf[p]
    BY <1>1, <2>1, Prefix DEF TypeOK
  <2>3. TypeOK'
    BY <1>1, <2>1, <2>2 DEF Crash, GoTo, TypeOK
  <2>4. Genuine'
    BY <1>1, <2>1, <2>2 DEF Crash, GoTo, TypeOK, Genuine, LoopInv
  <2>5. (\A p \in Points : 0 \in held[p])' /\ LoopInv'
    BY <1>1 DEF Crash, GoTo, LoopInv
  <2> QED BY <2>3, <2>4, <2>5 DEF FileInv
<1> QED BY <1>2, <1>3 DEF Crash

\* The history variable of failures is a Boolean.
LEMMA FailedType == ASSUME TypeOK, CannotOpen \/ failed' = TRUE
                    PROVE  failed' \in BOOLEAN
BY Zenon DEF TypeOK, CannotOpen

\* Starting the program, and point_file_init.
LEMMA BootInv == ASSUME FileInv, Start \/ Boot PROVE FileInv'
<1> USE PointFileAssumption DEF FileInv, TypeOK, Genuine, LoopInv, GoTo
<1>1. CASE Start
  BY <1>1 DEF Start
<1>2. CASE BootOpen
  BY <1>2 DEF BootOpen
<1>3. CASE BootCreate
  <2>1. failed' \in BOOLEAN
    BY <1>3, FailedType DEF BootCreate
  <2>2. linked' \in BOOLEAN
    BY <1>3, Zenon DEF BootCreate, Truncate
  <2> QED BY <1>3, <2>1, <2>2 DEF BootCreate, Truncate
<1>4. CASE BootFails
  BY <1>4, FailedType DEF BootFails
<1>5. CASE BootZero
  BY <1>5 DEF BootZero
<1>6. CASE BootCreated
  BY <1>6 DEF BootCreated, Close
<1>7. CASE BootRead
  BY <1>7 DEF BootRead
<1>8. CASE BootReadAll
  BY <1>8 DEF BootReadAll
<1>9. CASE BootReadShort
  BY <1>9 DEF BootReadShort
<1> QED
  BY <1>1, <1>2, <1>3, <1>4, <1>5, <1>6, <1>7, <1>8, <1>9 DEF Boot

\* The observer, and the threads that change the table meanwhile.
LEMMA ObserverInv == ASSUME FileInv,
                            Observer \/ \E p \in Points, v \in Values : Change(p, v)
                     PROVE  FileInv'
<1> USE PointFileAssumption DEF FileInv, TypeOK, Genuine, LoopInv, GoTo
<1>1. CASE NextFile \/ CheckTaken \/ CreateFails
  <2>1. failed' \in BOOLEAN
    BY <1>1, FailedType DEF NextFile, CheckTaken, CreateFails
  <2> QED BY <1>1, <2>1 DEF NextFile, CheckTaken, CreateFails
<1>2. CASE CheckFound \/ Open
  BY <1>2 DEF CheckFound, Open
<1>3. CASE CheckMissing \/ OpenFails
  BY <1>3 DEF CheckMissing, OpenFails, CannotOpen
<1>4. CASE Create
  BY <1>4 DEF Create, Truncate
<1>5. CASE Fill
  BY <1>5 DEF Fill
<1>6. CASE Created
  BY <1>6 DEF Created, Close
<1>7. CASE Compare
  BY <1>7 DEF Compare
<1>8. CASE ReadShort
  <2>1. TypeOK'
    <3>1. linked' \in BOOLEAN
      BY <1>8, Zenon DEF ReadShort
    <3>2. j' \in 1 .. MaxPoint + 1
      BY <1>8 DEF ReadShort
    <3> QED BY <1>8, <3>1, <3>2 DEF ReadShort
  <2>2. (Genuine /\ \A p \in Points : 0 \in held[p])' /\ LoopInv'
    BY <1>8 DEF ReadShort
  <2> QED BY <2>1, <2>2
<1>9. CASE ReadDone
  BY <1>9 DEF ReadDone
<1>10. CASE \E p \in Points, v \in Values : Change(p, v)
  BY <1>10 DEF Change
<1> QED
  BY <1>1, <1>2, <1>3, <1>4, <1>5, <1>6, <1>7, <1>8, <1>9, <1>10 DEF Observer

LEMMA NextInv == ASSUME FileInv, [Next]_vars PROVE FileInv'
<1>1. CASE UNCHANGED vars
  BY <1>1 DEF vars, FileInv, TypeOK, Genuine, LoopInv
<1>2. CASE Next
  BY <1>2, CrashInv, BootInv, ObserverInv DEF Next
<1> QED BY <1>1, <1>2

(* The inductive invariant of the file and of the program that keeps it,   *)
(* whatever fopen fails on.                                                *)
THEOREM FileInvariant == Spec => []FileInv
BY InitInv, NextInv, PTL DEF Spec

\* The values have their types, and the loops stay within the file.
THEOREM TypeCorrect == Spec => []TypeOK
<1>1. FileInv => TypeOK
  BY DEF FileInv
<1> QED BY <1>1, FileInvariant, PTL

(* No point restarts with a value it never had, wherever the program was   *)
(* killed (file_check, point_file_init).                                   *)
THEOREM NoStrangeValue == Spec => []Genuine
<1>1. FileInv => Genuine
  BY DEF FileInv
<1> QED BY <1>1, FileInvariant, PTL

-----------------------------------------------------------------------------
\* What has failed once stays so in the history.
LEMMA FailedStays == ASSUME failed, [Next]_vars PROVE failed'
BY Zenon DEF Next, vars, Start, Crash, Change, Boot, BootOpen, BootCreate,
       BootFails, BootZero, BootCreated, BootRead, BootReadAll, BootReadShort,
       Observer, NextFile, CheckFound, CheckTaken, CheckMissing, Create,
       CreateFails, Fill, Created, Open, OpenFails, Compare, ReadShort,
       ReadDone, CannotOpen

\* An open that did not fail in spite of the file found none.
LEMMA NoFile == ASSUME CannotOpen, ~failed' PROVE ~linked
BY Zenon DEF CannotOpen

\* A complete file survives every step that is no such failure.
LEMMA StepComplete == ASSUME FileInv, ~failed, ~failed', Next, Complete PROVE Complete'
<1> USE PointFileAssumption DEF FileInv, TypeOK, LoopInv, Complete
<1>1. CASE Start \/ Boot
  <2>1. ~BootCreate
    BY NoFile DEF BootCreate
  <2>2. ~BootCreated
    BY DEF BootCreated
  <2> QED BY <1>1, <2>1, <2>2 DEF Start, Boot, BootOpen, BootFails, BootZero,
                                  BootRead, BootReadAll, BootReadShort
<1>2. CASE Crash
  BY <1>2 DEF Crash
<1>3. CASE Observer
  <2>1. ~Create /\ ~Created /\ ~ReadShort
    BY DEF Create, Created, ReadShort
  <2>2. CASE Compare
    BY <2>2 DEF Compare
  <2>3. CASE NextFile \/ CheckFound \/ CheckTaken \/ CheckMissing \/ CreateFails
             \/ Fill \/ Open \/ OpenFails \/ ReadDone
    BY <2>3 DEF NextFile, CheckFound, CheckTaken, CheckMissing, CreateFails,
                Fill, Open, OpenFails, ReadDone
  <2> QED BY <1>3, <2>1, <2>2, <2>3 DEF Observer
<1>4. CASE \E p \in Points, v \in Values : Change(p, v)
  BY <1>4 DEF Change
<1> QED BY <1>1, <1>2, <1>3, <1>4 DEF Next

(* Unless opening an existing file fails, nothing the program does and no  *)
(* crash shortens or removes a complete file.                              *)
THEOREM SavedStays == Spec => CompleteStays
<1>1. FileInv /\ [Next]_vars => [Complete /\ ~failed' => Complete']_vars
  BY StepComplete, FailedStays
<1> QED BY <1>1, FileInvariant, PTL DEF Spec, CompleteStays

-----------------------------------------------------------------------------
\* The state of DurableRow that PointFile shows.
mem == IF at \in Observing THEN row ELSE << >>
saved == IF linked /\ Len(file) = MaxPoint THEN file ELSE << >>

\* A complete set of values is not the empty one.
LEMMA RowNotDown == ASSUME NEW r \in [Points -> Values] PROVE r # << >>
<1>1. DOMAIN r = Points /\ 1 \in Points
  BY PointFileAssumption
<1>2. DOMAIN << >> = {}
  OBVIOUS
<1> QED BY <1>1, <1>2

\* As many values as there are points are a row.
LEMMA FullIsRow == ASSUME NEW s \in Seq(Values), Len(s) = MaxPoint
                   PROVE  s \in [Points -> Values]
OBVIOUS

\* Two rows with the same values are one.
LEMMA SameRow == ASSUME NEW r \in [Points -> Values], NEW s \in [Points -> Values],
                        \A p \in Points : r[p] = s[p]
                 PROVE  r = s
<1>1. r = [p \in Points |-> r[p]] /\ s = [p \in Points |-> s[p]]
  OBVIOUS
<1>2. [p \in Points |-> r[p]] = [p \in Points |-> s[p]]
  BY Zenon
<1> QED BY <1>1, <1>2

LEMMA DurableInit == ASSUME Init PROVE Durable!Init
BY DEF Init, Durable!Init, Durable!Down, Durable!Nothing

\* Starting: the program comes up with the file, with zeros or with its rest.
LEMMA BootDurable == ASSUME FileInv, FileInv', ~failed, ~failed', Start \/ Boot
                     PROVE  Durable!Keep \/ UNCHANGED <<mem, saved>>
<1> USE PointFileAssumption DEF FileInv, TypeOK, LoopInv, mem, saved, GoTo
<1>1. CASE Start \/ BootOpen \/ BootZero \/ BootRead \/ BootFails
  BY <1>1 DEF Start, BootOpen, BootZero, BootRead, BootFails
<1>2. CASE BootCreate
  BY <1>2, NoFile DEF BootCreate, Truncate
<1>3. CASE BootCreated
  <2>1. buf \in [Points -> Values] /\ buf = row
    <3>1. Len(buf) = MaxPoint
      BY <1>3 DEF BootCreated
    <3>2. \A p \in Points : buf[p] = row[p]
      BY <1>3, <3>1 DEF BootCreated
    <3> QED BY <3>1, <3>2, FullIsRow, SameRow
  <2>2. mem = << >> /\ saved = << >> /\ mem' = row /\ saved' = row
    BY <1>3, <2>1 DEF BootCreated, Close
  <2>3. Durable!StartWithNothing
    BY <2>2 DEF Durable!StartWithNothing, Durable!Down, Durable!Nothing,
                Durable!Rows
  <2> QED BY <2>3 DEF Durable!Keep
<1>4. CASE BootReadAll
  <2>1. Len(file) = MaxPoint /\ linked /\ \A p \in Points : row[p] = file[p]
    BY <1>4 DEF BootReadAll
  <2>2. file = row /\ file # << >>
    BY <2>1, FullIsRow, SameRow, RowNotDown
  <2>3. mem = << >> /\ mem' = file /\ saved = file /\ saved' = file
    BY <1>4, <2>1, <2>2 DEF BootReadAll
  <2>4. Durable!Restart
    BY <2>2, <2>3 DEF Durable!Restart, Durable!Down, Durable!Nothing
  <2> QED BY <2>4 DEF Durable!Keep
<1>5. CASE BootReadShort
  <2>1. mem = << >> /\ saved = << >> /\ saved' = << >>
    BY <1>5 DEF BootReadShort
  <2>2. mem' = row \/ mem' = << >>
    BY <1>5 DEF BootReadShort
  <2>3. CASE mem' = row
    BY <2>1, <2>3 DEF Durable!Keep, Durable!StartWithNothing, Durable!Down,
                      Durable!Nothing, Durable!Rows
  <2> QED BY <2>1, <2>2, <2>3
<1> QED BY <1>1, <1>2, <1>3, <1>4, <1>5 DEF Boot

\* Running: what the observer rewrites, creates and removes.
LEMMA ObserverDurable == ASSUME FileInv, ~failed, ~failed', Observer
                         PROVE  Durable!Keep \/ UNCHANGED <<mem, saved>>
<1> USE PointFileAssumption DEF FileInv, TypeOK, LoopInv, mem, saved, GoTo
<1>1. CASE NextFile \/ CheckFound \/ CheckTaken \/ CheckMissing \/ CreateFails
           \/ Fill \/ Open \/ OpenFails
  BY <1>1 DEF NextFile, CheckFound, CheckTaken, CheckMissing, CreateFails,
              Fill, Open, OpenFails
<1>2. CASE Create
  BY <1>2 DEF Create, Truncate
<1>3. CASE Created
  <2>1. Len(buf) = MaxPoint /\ linked
    BY <1>3 DEF Created
  <2>2. mem = row /\ mem' = row /\ saved = << >> /\ saved' = buf
    BY <1>3, <2>1 DEF Created, Close
  <2>3. Durable!SaveAll
    BY <2>1, <2>2, FullIsRow, RowNotDown
       DEF Durable!SaveAll, Durable!Down, Durable!Nothing, Durable!Rows
  <2> QED BY <2>3 DEF Durable!Keep
<1>4. CASE Compare
  <2>1. mem = row /\ mem' = row /\ j \in Points
    BY <1>4 DEF Compare
  <2>2. CASE linked /\ Len(file) = MaxPoint
    <3>1. saved = file /\ saved' = [file EXCEPT ![j] = row[j]]
      BY <1>4, <2>2 DEF Compare
    <3>2. saved # << >> /\ mem # << >>
      BY <2>1, <2>2, <3>1, FullIsRow, RowNotDown
    <3>3. Durable!Save(j)
      BY <2>1, <3>1, <3>2 DEF Durable!Save, Durable!Down, Durable!Nothing
    <3> QED BY <2>1, <3>3 DEF Durable!Keep
  <2>3. CASE ~(linked /\ Len(file) = MaxPoint)
    BY <1>4, <2>1, <2>3 DEF Compare
  <2> QED BY <2>2, <2>3
<1>5. CASE ReadShort \/ ReadDone
  BY <1>5 DEF ReadShort, ReadDone
<1> QED BY <1>1, <1>2, <1>3, <1>4, <1>5 DEF Observer

LEMMA KeepDurable == ASSUME FileInv, FileInv', ~failed, ~failed', [Next]_vars
                     PROVE  Durable!Keep \/ UNCHANGED <<mem, saved>>
<1> USE PointFileAssumption DEF FileInv, TypeOK, LoopInv, mem, saved
<1>1. CASE Crash
  <2>1. mem' = << >> /\ saved' = saved
    BY <1>1 DEF Crash, GoTo
  <2>2. Durable!Crash
    BY <2>1 DEF Durable!Crash, Durable!Down
  <2> QED BY <2>2 DEF Durable!Keep
<1>2. CASE \E p \in Points, v \in Values : Change(p, v)
  <2>1. PICK p \in Points, v \in Values : Change(p, v)
    BY <1>2
  <2>2. /\ mem = row /\ mem' = [row EXCEPT ![p] = v]
        /\ saved' = saved
    BY <2>1 DEF Change
  <2>3. Durable!Change(p, v)
    BY <2>2, RowNotDown DEF Durable!Change, Durable!Down
  <2> QED BY <2>3 DEF Durable!Keep
<1>3. CASE UNCHANGED vars
  BY <1>3 DEF vars
<1> QED BY <1>1, <1>2, <1>3, BootDurable, ObserverDurable DEF Next

LEMMA StepDurable == ASSUME FileInv, FileInv', [Next]_vars
                     PROVE  [Durable!Next]_<<mem, saved, failed>>
<1>1. CASE failed'
  BY <1>1 DEF Durable!Next
<1>2. CASE ~failed'
  <2>1. ~failed
    BY <1>2, FailedStays
  <2>2. failed' = failed
    BY <1>2, <2>1 DEF FileInv, TypeOK
  <2>3. Durable!Keep \/ UNCHANGED <<mem, saved>>
    BY <1>2, <2>1, KeepDurable
  <2> QED BY <1>2, <2>2, <2>3 DEF Durable!Next
<1> QED BY <1>1, <1>2

(* Unless opening an existing file fails, the file and the table implement *)
(* durable values: a restart brings back what was saved last.              *)
THEOREM Refinement == Spec => DurableSpec
<1>1. Init => Durable!Init
  BY DurableInit
<1>2. FileInv /\ FileInv' /\ [Next]_vars => [Durable!Next]_<<mem, saved, failed>>
  BY StepDurable
<1> QED
  BY <1>1, <1>2, FileInvariant, PTL
     DEF Spec, DurableSpec, Durable!Spec, mem, saved
=============================================================================
