------------------------------- MODULE MCRtc -------------------------------
(* Frequencies a program may write: below, at and above what has a period.   *)
EXTENDS Rtc

AnyFrequencies == {-16, -2, 0, 1, 2, 3, 4, 8, 16}
=============================================================================
