----------------------------- MODULE DurableRow -----------------------------
(***************************************************************************)
(* What the files point00.dat, point01.dat, ... promise for the values of  *)
(* one node: a value that was saved is there after a crash, and a node     *)
(* that once had a complete set saved restarts with what was saved last,   *)
(* never with less.  Nothing is promised any more once a file that was     *)
(* there could not be opened.                                              *)
(***************************************************************************)
EXTENDS Naturals

CONSTANTS MaxPoint,   \* points are 1 .. MaxPoint
          Values

Rows == [1 .. MaxPoint -> Values]

\* The program does not run; nothing complete is saved.
Down == << >>
Nothing == << >>

VARIABLES mem,    \* the values while the program runs
          saved,  \* those it restarts with
          failed  \* a file could not be opened

Init == mem = Down /\ saved = Nothing /\ failed = FALSE

Change(p, v) == /\ mem # Down
                /\ mem' = [mem EXCEPT ![p] = v]
                /\ UNCHANGED saved

Save(p) == /\ mem # Down
           /\ saved # Nothing
           /\ saved' = [saved EXCEPT ![p] = mem[p]]
           /\ UNCHANGED mem

\* The first complete set, saved one value after another while they change.
SaveAll == /\ mem # Down
           /\ saved = Nothing
           /\ saved' \in Rows
           /\ UNCHANGED mem

Crash == mem' = Down /\ UNCHANGED saved

Restart == /\ mem = Down
           /\ saved # Nothing
           /\ mem' = saved
           /\ UNCHANGED saved

\* Without a complete set there is no telling what the program starts with.
StartWithNothing == /\ mem = Down
                    /\ saved = Nothing
                    /\ mem' \in Rows
                    /\ saved' \in {Nothing, mem'}

Keep == \/ \E p \in 1 .. MaxPoint : Save(p) \/ \E v \in Values : Change(p, v)
        \/ SaveAll
        \/ Crash
        \/ Restart
        \/ StartWithNothing

Next == failed' \/ (~failed' /\ Keep)

Spec == Init /\ [][Next]_<<mem, saved, failed>>
=============================================================================
