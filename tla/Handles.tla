------------------------------ MODULE Handles ------------------------------
(***************************************************************************)
(* What open, close, read and write promise to user programs.  Each        *)
(* running program has handles of its own: 0 and 1 from its start, others  *)
(* from open until close or its end.  A handle on a file remembers how far *)
(* it was read, from 0, and nobody else moves it.  Descriptors shows that  *)
(* the reused, only partly reset arrays of the PCBs keep these promises.   *)
(***************************************************************************)
EXTENDS Integers, Sequences, Functions

CONSTANTS
    Depth,    \* the number of programs that can be alive at once
    Fds,      \* the numbers of handles
    Devices,  \* what is not a file: terminal, clock, directory
    Stdin, Stdout, \* the devices every program starts with
    Files,    \* the files
    Size,     \* their lengths
    Counts    \* the numbers of bytes programs ask for

VARIABLE
    handles   \* of each program alive, the running one's last

Handle == [object : Devices \cup Files, pos : Nat]

Standard == [f \in {0, 1} |-> [object |-> IF f = 0 THEN Stdin ELSE Stdout,
                               pos |-> 0]]
Running == handles[Len(handles)]
Become(h) == handles' = [handles EXCEPT ![Len(handles)] = h]

Init == handles = <<>>

Start == Len(handles) < Depth /\ handles' = Append(handles, Standard)
Finish == Len(handles) > 1 /\ handles' = SubSeq(handles, 1, Len(handles) - 1)
Replace == Len(handles) = 1 /\ handles' = <<Standard>>

\* A number not in use is taken, for an object not yet read.
Open(f, object) ==
    /\ handles # <<>> /\ f \notin DOMAIN Running
    /\ Become([g \in DOMAIN Running \cup {f} |->
                 IF g = f THEN [object |-> object, pos |-> 0] ELSE Running[g]])

Close(f) ==
    /\ handles # <<>> /\ f \in DOMAIN Running \ {0, 1}
    /\ Become(Restrict(Running, DOMAIN Running \ {f}))

\* n bytes of a file, which has them, and 0 of more than 0 only at its end.
Read(f, n, wanted) ==
    /\ handles # <<>> /\ f \in DOMAIN Running
    /\ LET h == Running[f]
       IN  /\ h.object \in Files
           /\ n <= wanted /\ h.pos + n <= Size[h.object]
           /\ n = 0 => wanted = 0 \/ h.pos = Size[h.object]
           /\ Become([Running EXCEPT ![f].pos = @ + n])

Next ==
    \/ Start \/ Finish \/ Replace
    \/ \E f \in Fds, object \in Devices \cup Files : Open(f, object)
    \/ \E f \in Fds : Close(f)
    \/ \E f \in Fds, wanted \in Counts : \E n \in 0 .. wanted : Read(f, n, wanted)

Spec == Init /\ [][Next]_handles
=============================================================================
