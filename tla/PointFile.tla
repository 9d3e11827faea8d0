----------------------------- MODULE PointFile ------------------------------
(***************************************************************************)
(* The file point<pcm>.dat of one node and the row of g_fExPtbl it keeps   *)
(* (file_check and fileStatusCheck of APP/Src/point_observer.c,            *)
(* point_file_init of main.c).  The program reads the file when it starts; *)
(* the observer thread, which starts afterwards, compares it with the row  *)
(* again and again, rewrites the values that differ, removes a file that   *)
(* is too short and creates one that is missing.  The program may be       *)
(* killed between any two steps: what fwrite has taken and fclose has not  *)
(* written yet is lost, or all but a first part of it.                     *)
(***************************************************************************)
EXTENDS Naturals, Sequences

CONSTANTS MaxPoint,   \* points are 1 .. MaxPoint (MAX_POINT_NUMBER)
          Values      \* values the points take

Points == 1 .. MaxPoint

ASSUME PointFileAssumption == MaxPoint \in Nat \ {0} /\ 0 \in Values

VARIABLES row,      \* g_fExPtbl[pcm]
          file,     \* the values in the file
          linked,   \* the file has its name
          access,   \* g_nFileAccess[pcm]
          at,       \* where the program is, which is one thread at a time
          j,        \* the point its loop has reached
          buf,      \* what fwrite has taken since fopen(.., "w")
          held,     \* history: the values each point has had
          failed    \* history: an fopen has failed for another reason than
                    \* that there was no file

disk == <<file, linked>>
vars == <<row, file, linked, access, at, j, buf, held, failed>>

Booting == {"boot_open", "boot_create", "boot_read"}
Observing == {"check", "create", "fill", "open", "read", "sleep"}

\* Between fopen(.., "w") and fclose.
Writing == {"boot_create", "fill"}

Zeros == [p \in Points |-> 0]

Init == /\ row = Zeros
        /\ file = << >>
        /\ linked = FALSE
        /\ access = 0
        /\ at = "down"
        /\ j = 1
        /\ buf = << >>
        /\ held = [p \in Points |-> {0}]
        /\ failed = FALSE

GoTo(l) == at' = l /\ j' = 1

\* fopen(filename, "w"): the file is there, and empty until fclose.
Truncate == /\ file' = << >>
            /\ linked' = TRUE
            /\ buf' = << >>

\* fclose of a file that was written.
Close == /\ file' = buf
         /\ buf' = << >>
         /\ UNCHANGED linked

\* fopen for reading, or for reading and writing, fails.
CannotOpen == failed' = (failed \/ linked)

-----------------------------------------------------------------------------
\* The program starts with its static variables zeroed.
Start == /\ at = "down"
         /\ row' = Zeros
         /\ access' = 0
         /\ GoTo("boot_open")
         /\ UNCHANGED <<disk, buf, held, failed>>

(* It is killed.  An open file that lost its name goes with its last user. *)
(* What is being written arrives in part at most: that all of it arrives   *)
(* is a crash after fclose.  A value rewritten in place and still in the   *)
(* buffer is lost, which is a crash before Compare.                        *)
Crash == /\ at # "down"
         /\ \/ file' = IF linked THEN file ELSE << >>
            \/ at \in Writing /\ \E n \in 1 .. Len(buf) :
                  n < MaxPoint /\ file' = SubSeq(buf, 1, n)
         /\ buf' = << >>
         /\ GoTo("down")
         /\ UNCHANGED <<row, linked, access, held, failed>>

\* point_file_init.
BootOpen == /\ at = "boot_open"
            /\ linked
            /\ GoTo("boot_read")
            /\ UNCHANGED <<row, disk, access, buf, held, failed>>

BootCreate == /\ at = "boot_open"
              /\ CannotOpen
              /\ Truncate
              /\ GoTo("boot_create")
              /\ UNCHANGED <<row, access, held>>

\* Neither way of opening it works: main returns.
BootFails == /\ at = "boot_open"
             /\ failed' = TRUE
             /\ GoTo("down")
             /\ UNCHANGED <<row, disk, access, buf, held>>

BootZero == /\ at = "boot_create"
            /\ j <= MaxPoint
            /\ row' = [row EXCEPT ![j] = 0]
            /\ buf' = Append(buf, 0)
            /\ j' = j + 1
            /\ UNCHANGED <<disk, access, at, held, failed>>

BootCreated == /\ at = "boot_create"
               /\ j > MaxPoint
               /\ Close
               /\ GoTo("sleep")
               /\ UNCHANGED <<row, access, held, failed>>

\* Mutant: the value read is not stored.
BootReadForgets == /\ at = "boot_read"
                   /\ j <= MaxPoint
                   /\ j <= Len(file)
                   /\ j' = j + 1
                   /\ UNCHANGED <<row, disk, access, at, buf, held, failed>>

BootRead == /\ at = "boot_read"
            /\ j <= MaxPoint
            /\ j <= Len(file)
            /\ row' = [row EXCEPT ![j] = file[j]]
            /\ j' = j + 1
            /\ UNCHANGED <<disk, access, at, buf, held, failed>>

BootReadAll == /\ at = "boot_read"
               /\ j > MaxPoint
               /\ GoTo("sleep")
               /\ UNCHANGED <<row, disk, access, buf, held, failed>>

(* A file that ends too early is closed twice, and the state that should   *)
(* create a new one is overwritten.  The second fclose is undefined: the   *)
(* program goes on with the rest of the row at zero, or is aborted.        *)
BootReadShort == /\ at = "boot_read"
                 /\ j <= MaxPoint
                 /\ j > Len(file)
                 /\ \E l \in {"sleep", "down"} : GoTo(l)
                 /\ UNCHANGED <<row, disk, access, buf, held, failed>>

-----------------------------------------------------------------------------
\* Any thread that writes g_fExPtbl, once main has started them.
Change(p, v) == /\ at \in Observing
                /\ row' = [row EXCEPT ![p] = v]
                /\ held' = [held EXCEPT ![p] = @ \cup {v}]
                /\ UNCHANGED <<disk, access, at, j, buf, failed>>

-----------------------------------------------------------------------------
\* The observer: the other files, and the pause between two of them.
NextFile == /\ at = "sleep"
            /\ GoTo("check")
            /\ UNCHANGED <<row, disk, access, buf, held, failed>>

\* fileStatusCheck and getFileAccess.
CheckFound == /\ at = "check"
              /\ linked
              /\ access = 0
              /\ access' = 1
              /\ GoTo("open")
              /\ UNCHANGED <<row, disk, buf, held, failed>>

CheckTaken == /\ at = "check"
              /\ linked
              /\ access = 1
              /\ GoTo("sleep")
              /\ UNCHANGED <<row, disk, access, buf, held, failed>>

CheckMissing == /\ at = "check"
                /\ CannotOpen
                /\ GoTo("create")
                /\ UNCHANGED <<row, disk, access, buf, held>>

\* POINT_OBSERVER_FILE_CREATE, which leaves the access flag as it finds it.
Create == /\ at = "create"
          /\ Truncate
          /\ GoTo("fill")
          /\ UNCHANGED <<row, access, held, failed>>

CreateFails == /\ at = "create"
               /\ failed' = TRUE
               /\ GoTo("sleep")
               /\ UNCHANGED <<row, disk, access, buf, held>>

\* Mutant: the first value is written for every point.
FillFirst == /\ at = "fill"
             /\ j <= MaxPoint
             /\ buf' = Append(buf, row[1])
             /\ j' = j + 1
             /\ UNCHANGED <<row, disk, access, at, held, failed>>

Fill == /\ at = "fill"
        /\ j <= MaxPoint
        /\ buf' = Append(buf, row[j])
        /\ j' = j + 1
        /\ UNCHANGED <<row, disk, access, at, held, failed>>

Created == /\ at = "fill"
           /\ j > MaxPoint
           /\ Close
           /\ GoTo("sleep")
           /\ UNCHANGED <<row, access, held, failed>>

\* POINT_OBSERVER_FILE_READ: the file is opened a second time.
Open == /\ at = "open"
        /\ linked
        /\ GoTo("read")
        /\ UNCHANGED <<row, disk, access, buf, held, failed>>

OpenFails == /\ at = "open"
             /\ CannotOpen
             /\ GoTo("create")
             /\ UNCHANGED <<row, disk, access, buf, held>>

\* Mutant: the file is not positioned back before the value is rewritten.
CompareNoSeek == /\ at = "read"
                 /\ j <= MaxPoint
                 /\ j <= Len(file)
                 /\ file' = IF file[j] = row[j] THEN file
                            ELSE [file EXCEPT ![j + 1] = row[j]]
                 /\ j' = j + 1
                 /\ UNCHANGED <<row, linked, access, at, buf, held, failed>>

\* The value read, compared with the row and rewritten where it differs.
Compare == /\ at = "read"
           /\ j <= MaxPoint
           /\ j <= Len(file)
           /\ file' = [file EXCEPT ![j] = row[j]]
           /\ j' = j + 1
           /\ UNCHANGED <<row, linked, access, at, buf, held, failed>>

\* Mutant: one value more is read than the file should have.
ReadShortOffByOne == /\ at = "read"
                     /\ j > Len(file)
                     /\ linked' = FALSE
                     /\ j' = j + 1
                     /\ UNCHANGED <<row, file, access, at, buf, held, failed>>

\* The file ends too early: it is unlinked, and nothing more can be read.
ReadShort == /\ at = "read"
             /\ j <= MaxPoint
             /\ j > Len(file)
             /\ linked' = FALSE
             /\ j' = MaxPoint + 1
             /\ UNCHANGED <<row, file, access, at, buf, held, failed>>

\* Mutant: the access flag is not released.
ReadDoneKeepsAccess == /\ at = "read"
                       /\ j > MaxPoint
                       /\ file' = IF linked THEN file ELSE << >>
                       /\ GoTo("sleep")
                       /\ UNCHANGED <<row, linked, access, buf, held, failed>>

ReadDone == /\ at = "read"
            /\ j > MaxPoint
            /\ file' = IF linked THEN file ELSE << >>
            /\ access' = 0
            /\ GoTo("sleep")
            /\ UNCHANGED <<row, linked, buf, held, failed>>

-----------------------------------------------------------------------------
Boot == \/ BootOpen \/ BootCreate \/ BootFails \/ BootZero \/ BootCreated
        \/ BootRead \/ BootReadAll \/ BootReadShort

Observer == \/ NextFile \/ CheckFound \/ CheckTaken \/ CheckMissing
            \/ Create \/ CreateFails \/ Fill \/ Created
            \/ Open \/ OpenFails \/ Compare \/ ReadShort \/ ReadDone

Next == \/ Start \/ Crash
        \/ Boot
        \/ Observer
        \/ \E p \in Points, v \in Values : Change(p, v)

(* The observer sleeps 30 ms between two files and waits for nothing but   *)
(* the mutex of the table, which is held for an assignment at a time.      *)
Spec == Init /\ [][Next]_vars /\ WF_vars(Observer)

-----------------------------------------------------------------------------
\* The row, the file, the flag and the loop have their types.
TypeOK == /\ row \in [Points -> Values]
          /\ file \in Seq(Values) /\ Len(file) <= MaxPoint
          /\ linked \in BOOLEAN
          /\ access \in {0, 1}
          /\ at \in {"down"} \cup Booting \cup Observing
          /\ j \in 1 .. MaxPoint + 1
          /\ buf \in Seq(Values) /\ Len(buf) <= MaxPoint
          /\ held \in [Points -> SUBSET Values]
          /\ failed \in BOOLEAN

Complete == linked /\ Len(file) = MaxPoint

(* No point is ever restarted with a value it never had, another point's   *)
(* for instance, although file and table are read and written value by     *)
(* value while other threads change the table, and the program may be      *)
(* killed in between (file_check, point_file_init).                        *)
Genuine == /\ \A p \in 1 .. Len(file) : file[p] \in held[p]
           /\ \A p \in Points : row[p] \in held[p]

\* The file as the loops of the program leave it.
LoopInv ==
    /\ at \in Writing => Len(buf) = j - 1 /\ file = << >> /\ linked
    /\ \A p \in 1 .. Len(buf) : buf[p] \in held[p]
    /\ at = "boot_create" => \A p \in 1 .. Len(buf) : buf[p] = row[p]
    /\ at = "boot_read" => /\ linked
                          /\ j - 1 <= Len(file)
                          /\ \A p \in 1 .. j - 1 : row[p] = file[p]
    /\ at = "create" /\ ~failed => ~linked

(* The inductive invariant of the file and the program that keeps it.      *)
FileInv == TypeOK /\ Genuine /\ (\A p \in Points : 0 \in held[p]) /\ LoopInv

(* What was saved once is not lost: unless opening an existing file fails, *)
(* no step of the program and no crash shortens a complete file or removes *)
(* it (file_check unlinks a file it cannot read to the end and creates one *)
(* that is missing).                                                       *)
CompleteStays == [][Complete /\ ~failed' => Complete']_vars

(* The row and the file implement durable values: the program restarts     *)
(* with what the observer saved last, value by value.                      *)
Durable == INSTANCE DurableRow WITH
              mem <- IF at \in Observing THEN row ELSE << >>,
              saved <- IF linked /\ Len(file) = MaxPoint THEN file ELSE << >>
DurableSpec == Durable!Spec

Filed(p, v) == linked /\ p <= Len(file) /\ file[p] = v

(* "Search value that to change and write dat file" (file_check): a value  *)
(* that stays in the table gets into the file while the program runs, even *)
(* when the file was left incomplete by a crash.                           *)
FileFollows ==
    \A p \in Points, v \in Values :
       at \in Observing /\ row[p] = v
          ~> Filed(p, v) \/ row[p] # v \/ at = "down" \/ failed
=============================================================================
