----------------------------- MODULE MCPrograms -----------------------------
(* A directory with a program "sl" and another file, the clock and itself,   *)
(* and the names of the terminal.                                            *)
EXTENDS Programs

Entry(name, type, inode) ==
    [filename |-> name, filetype |-> type, inode_num |-> inode]

MCDirectory == <<Entry(<<".">>, 1, 0), Entry(<<"s", "l">>, 2, 1),
                 Entry(<<"r">>, 0, 0), Entry(<<"h", "o">>, 2, 2)>>
MCLength == <<4, 3>>
MCStdinNames == {<<"s", "i">>}
MCStdoutNames == {<<"s", "o">>}
MCNames == {Directory[i].filename : i \in 1 .. dir_count}
             \cup {<<"x">>} \cup MCStdinNames \cup MCStdoutNames
MCAlmost == {<<"h", "o", "o">>, <<"s">>, <<>>}
MCPattern == <<"a", "b">>
=============================================================================
