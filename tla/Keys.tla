-------------------------------- MODULE Keys --------------------------------
(***************************************************************************)
(* What the keyboard handler makes of a scan code: special_button_status,  *)
(* the four tables and the order of the tests of keyboard_interrupt_handler*)
(* (keyboard.c).  A character is its key and whether it is the upper one   *)
(* of the two on the key cap.                                              *)
(***************************************************************************)
EXTENDS Integers

LSHIFT_PRESS == 42
LSHIFT_RELEASE == 170
RSHIFT_PRESS == 54
RSHIFT_RELEASE == 182
CTRL_PRESS == 29
CTRL_RELEASE == 157
CAPS == 58
TAB == 15
SPACE == 57
BACKSPACE == 14
ENTER == 28
KEY_L == 38

Codes == 0 .. 255
Letters == (16 .. 25) \cup (30 .. 38) \cup (44 .. 50)
Symbols == (2 .. 13) \cup {26, 27, 39, 40, 41, 43, 51, 52, 53}

\* The keys whose upper character a table holds; the lower one is in the
\* others of Letters and Symbols, and NUL in the rest.
scancode_lower == {}
scancode_upper == Letters \cup Symbols
scancode_caps_only == Letters
scancode_shift_caps == Symbols

-----------------------------------------------------------------------------
(* special_button_status                                                   *)

Status == [shift : {0, 1}, ctrl : {0, 1}, caps : {0, 1}, special_change : {0, 1}]

Released == [shift |-> 0, ctrl |-> 0, caps |-> 0, special_change |-> 0]

\* Mutant: caps is not cut to one bit.
UncutStatus(s, key) ==
    [shift |-> IF key \in {LSHIFT_PRESS, RSHIFT_PRESS} THEN 1
               ELSE IF key \in {LSHIFT_RELEASE, RSHIFT_RELEASE} THEN 0 ELSE s.shift,
     ctrl |-> IF key = CTRL_PRESS THEN 1
              ELSE IF key = CTRL_RELEASE THEN 0 ELSE s.ctrl,
     caps |-> IF key = CAPS THEN -1 - s.caps ELSE s.caps,
     special_change |-> 0]

special_button_status(s, key) ==
    [shift |-> IF key \in {LSHIFT_PRESS, RSHIFT_PRESS} THEN 1
               ELSE IF key \in {LSHIFT_RELEASE, RSHIFT_RELEASE} THEN 0 ELSE s.shift,
     ctrl |-> IF key = CTRL_PRESS THEN 1
              ELSE IF key = CTRL_RELEASE THEN 0 ELSE s.ctrl,
     caps |-> IF key = CAPS THEN 1 - s.caps ELSE s.caps,
     special_change |->
        IF key \in {LSHIFT_PRESS, RSHIFT_PRESS, LSHIFT_RELEASE, RSHIFT_RELEASE,
                    CAPS, CTRL_PRESS, CTRL_RELEASE} THEN 1 ELSE 0]

-----------------------------------------------------------------------------
(* keyboard_interrupt_handler                                              *)

\* Mutant: the two tables for caps lock are confused.
SwappedTable(s) ==
    CASE s.caps = 0 /\ s.shift = 0 -> scancode_lower
      [] s.caps = 1 /\ s.shift = 0 -> scancode_shift_caps
      [] s.caps = 0 /\ s.shift = 1 -> scancode_upper
      [] s.caps = 1 /\ s.shift = 1 -> scancode_caps_only

Table(s) ==
    CASE s.caps = 0 /\ s.shift = 0 -> scancode_lower
      [] s.caps = 1 /\ s.shift = 0 -> scancode_caps_only
      [] s.caps = 0 /\ s.shift = 1 -> scancode_upper
      [] s.caps = 1 /\ s.shift = 1 -> scancode_shift_caps

Nothing == [does |-> "nothing"]
Does(what) == [does |-> what]
Char(key, upper) == [does |-> "put", key |-> key, upper |-> upper]

(***************************************************************************)
(* What the handler does for a key, in the status the key leaves behind.   *)
(* The order of the tests counts: with ctrl an l is no character.          *)
(***************************************************************************)
Effect(s, key) ==
    IF key = SPACE THEN Does("blank")
    ELSE IF key = TAB THEN Does("tab")
    ELSE IF key > 57 THEN Nothing
    ELSE IF s.ctrl = 1 /\ key = KEY_L THEN Does("clean_screen")
    ELSE IF key = ENTER THEN Does("enter")
    ELSE IF key = BACKSPACE THEN Does("backspace")
    ELSE IF s.special_change = 1 \/ key \notin Letters \cup Symbols THEN Nothing
    ELSE Char(key, key \in Table(s))
=============================================================================
