--------------------------- MODULE MCDescriptors ---------------------------
(***************************************************************************)
(* A directory with one entry of each type, and one of a type open does    *)
(* not know.                                                               *)
(***************************************************************************)
EXTENDS Descriptors

Entry(name, type, inode) ==
    [filename |-> name, filetype |-> type, inode_num |-> inode]

Dot == <<".">>
Clock == <<"r">>
Frame == <<"f">>
Odd == <<"o">>
Stdin == <<"s", "i">>
Stdout2 == <<"s", "o", "2">>
MCDirectory == <<Entry(Dot, 1, 0), Entry(Clock, 0, 0), Entry(Frame, 2, 1),
                 Entry(Odd, 3, 0)>>
MCNames == {Dot, Clock, Frame, Odd, Stdin, Stdout2, <<"f", "0">>}
MCStdinNames == {Stdin}
MCStdoutNames == {Stdout2}
MCLength == [n \in {1} |-> 2]
=============================================================================
