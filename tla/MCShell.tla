------------------------------ MODULE MCShell ------------------------------
(* A program "c", a text file "t", a short file "tt", and an entry "ct" that *)
(* is no regular file.                                                       *)
EXTENDS Shell, TLC

MCInode == (<<"c">> :> 1) @@ (<<"t">> :> 2) @@ (<<"t", "t">> :> 3)
             @@ (<<"c", "c">> :> 1) @@ (<<"c", "t">> :> 0)
MCContent == (0 :> "program") @@ (1 :> "program") @@ (2 :> "other")
               @@ (3 :> "short")
MCExit == <<"t", "c">>
=============================================================================
