------------------------------ MODULE Terminal ------------------------------
(***************************************************************************)
(* The keyboard interrupt handler and terminal_read (keyboard.c), which    *)
(* share keyboard_buffer, global_keyboard_index and keyboard_flag without  *)
(* a lock and with interrupts on: a system call enters through a trap      *)
(* gate, so a key may be handled between any two accesses terminal_read    *)
(* makes.  The handler itself is one step: the process does not run during *)
(* it, and the next key is not delivered before its EOI.                   *)
(*                                                                         *)
(* Characters are numbered in the order they are typed, so that a lost,    *)
(* repeated or misplaced one can be told.  terminal_buffer is only ever    *)
(* written and is left out; what goes to the screen is in Screen.          *)
(***************************************************************************)
EXTENDS Integers, Sequences, SequencesExt

CONSTANTS
    BUFFERSIZE,   \* of keyboard_buffer
    NUM_COLS,     \* the line length terminal_read gives no newline to
    TabWidth,     \* blanks a tab stands for
    MaxTyped,     \* bound: characters typed
    MaxEnters     \* bound: times ENTER is pressed

ASSUME SizeAssumption ==
    /\ BUFFERSIZE \in Nat /\ NUM_COLS \in Nat /\ TabWidth \in Nat
    /\ TabWidth > 0 /\ TabWidth < BUFFERSIZE
    /\ MaxTyped \in Nat /\ MaxEnters \in Nat

VARIABLES
    keyboard_buffer, global_keyboard_index, keyboard_flag,
    pc,          \* where terminal_read stands
    i,           \* its loop variable
    byte_read,   \* its count
    kb_buf,      \* the caller's buffer
    typed,       \* history: how many characters were put in the buffer
    enters,      \* history: how often ENTER was pressed
    reads,       \* history: how often terminal_read returned
    line,        \* history: what the user sees as the line being edited
    disturbed,   \* history: a key arrived after this read saw keyboard_flag
    delivered    \* history: the characters handed to callers so far

shared == <<keyboard_buffer, global_keyboard_index, keyboard_flag>>
local == <<pc, i, byte_read, kb_buf>>
history == <<typed, enters, reads, line, disturbed, delivered>>
vars == <<shared, local, history>>

Limit == BUFFERSIZE - 1   \* the handlers' bound; the last byte stays '\0'
NUL == 0
NEWLINE == -1
STALE == -2               \* what the caller's buffer held before the call
Typed == 1 .. MaxTyped
Cells == 0 .. Limit

Positions == {"idle", "wait", "clear", "length", "newline", "test", "copy",
              "wipe", "reset"}

TypeOK ==
    /\ keyboard_buffer \in [Cells -> Typed \cup {NUL}]
    /\ global_keyboard_index \in 0 .. Limit
    /\ keyboard_flag \in {0, 1}
    /\ pc \in Positions
    /\ i \in 0 .. Limit
    /\ byte_read \in 0 .. Limit + 1
    /\ kb_buf \in [Cells -> Typed \cup {NUL, NEWLINE, STALE}]
    /\ typed \in 0 .. MaxTyped
    /\ enters \in 0 .. MaxEnters
    /\ reads \in 0 .. MaxEnters
    /\ line \in Seq(Typed) /\ delivered \in Seq(Typed)
    /\ disturbed \in BOOLEAN

Init ==
    /\ keyboard_buffer = [c \in Cells |-> NUL]
    /\ global_keyboard_index = 0
    /\ keyboard_flag = 0
    /\ pc = "idle" /\ i = 0 /\ byte_read = 0
    /\ kb_buf = [c \in Cells |-> STALE]
    /\ typed = 0 /\ enters = 0 /\ reads = 0
    /\ line = <<>> /\ delivered = <<>>
    /\ disturbed = FALSE

-----------------------------------------------------------------------------
(* keyboard_interrupt_handler                                              *)

Reading == pc \notin {"idle", "wait"}
Interrupt == disturbed' = (disturbed \/ Reading)

\* n characters at the end of the line: n is 1, or TabWidth for a tab.
Put(n) ==
    /\ typed + n <= MaxTyped
    /\ keyboard_buffer' =
         [c \in Cells |->
            IF c \in global_keyboard_index .. global_keyboard_index + n - 1
            THEN typed + 1 + (c - global_keyboard_index)
            ELSE keyboard_buffer[c]]
    /\ global_keyboard_index' = global_keyboard_index + n
    /\ typed' = typed + n
    /\ line' = line \o [k \in 1 .. n |-> typed + k]
    /\ Interrupt
    /\ UNCHANGED <<keyboard_flag, local, enters, reads, delivered>>

\* Mutant: the last byte of the buffer is not kept free.
KeyCharFull == global_keyboard_index <= Limit /\ Put(1)

KeyChar == global_keyboard_index < Limit /\ Put(1)
KeyTab == global_keyboard_index <= Limit - TabWidth /\ Put(TabWidth)

KeyBackspace ==
    /\ global_keyboard_index > 0
    /\ keyboard_buffer' = [keyboard_buffer EXCEPT
                             ![global_keyboard_index - 1] = NUL]
    /\ global_keyboard_index' = global_keyboard_index - 1
    /\ line' = IF line = <<>> THEN <<>> ELSE Front(line)
    /\ Interrupt
    /\ UNCHANGED <<keyboard_flag, local, typed, enters, reads, delivered>>

KeyEnter ==
    /\ enters < MaxEnters
    /\ keyboard_flag' = 1
    /\ enters' = enters + 1
    /\ Interrupt
    /\ UNCHANGED <<keyboard_buffer, global_keyboard_index, local, typed,
                   reads, line, delivered>>

Keyboard == KeyChar \/ KeyTab \/ KeyBackspace \/ KeyEnter

-----------------------------------------------------------------------------
(* terminal_read, one shared access at a time                              *)

Goto(from, to) == pc = from /\ pc' = to

\* The two checks at its top never fire: the handlers keep to Limit.
ReadStart ==
    /\ Goto("idle", "wait")
    /\ i' = 0 /\ byte_read' = 0
    /\ kb_buf' = [c \in Cells |-> STALE]
    /\ disturbed' = FALSE
    /\ UNCHANGED <<shared, typed, enters, reads, line, delivered>>

\* Mutant: an ENTER on an empty line is not enough.
ReadWaitForLine ==
    /\ Goto("wait", "clear")
    /\ keyboard_flag = 1 /\ global_keyboard_index > 0
    /\ UNCHANGED <<shared, i, byte_read, kb_buf, history>>

ReadWait ==
    /\ Goto("wait", "clear")
    /\ keyboard_flag = 1
    /\ UNCHANGED <<shared, i, byte_read, kb_buf, history>>

\* Mutant: the flag is left up.
ReadLeavesFlag ==
    Goto("clear", "length") /\ UNCHANGED <<shared, i, byte_read, kb_buf, history>>

ReadClear ==
    /\ Goto("clear", "length")
    /\ keyboard_flag' = 0
    /\ UNCHANGED <<keyboard_buffer, global_keyboard_index, i, byte_read,
                   kb_buf, history>>

\* A line of exactly NUM_COLS characters gets no newline.
ReadLength ==
    /\ pc = "length"
    /\ pc' = IF global_keyboard_index # NUM_COLS THEN "newline" ELSE "test"
    /\ UNCHANGED <<shared, i, byte_read, kb_buf, history>>

ReadNewline ==
    /\ Goto("newline", "test")
    /\ kb_buf' = [kb_buf EXCEPT ![global_keyboard_index] = NEWLINE]
    /\ byte_read' = byte_read + 1
    /\ UNCHANGED <<shared, i, history>>

\* Mutant: the line is taken to end at its first '\0'.
ReadTestNul ==
    /\ pc = "test"
    /\ pc' = IF i < Limit /\ keyboard_buffer[i] # NUL THEN "copy" ELSE "reset"
    /\ UNCHANGED <<shared, i, byte_read, kb_buf, history>>

ReadTest ==
    /\ pc = "test"
    /\ pc' = IF i < global_keyboard_index THEN "copy" ELSE "reset"
    /\ UNCHANGED <<shared, i, byte_read, kb_buf, history>>

ReadCopy ==
    /\ Goto("copy", "wipe")
    /\ kb_buf' = [kb_buf EXCEPT ![i] = keyboard_buffer[i]]
    /\ byte_read' = byte_read + 1
    /\ delivered' = IF keyboard_buffer[i] = NUL THEN delivered
                    ELSE Append(delivered, keyboard_buffer[i])
    /\ UNCHANGED <<shared, i, typed, enters, reads, line, disturbed>>

ReadWipe ==
    /\ Goto("wipe", "test")
    /\ keyboard_buffer' = [keyboard_buffer EXCEPT ![i] = NUL]
    /\ i' = i + 1
    /\ UNCHANGED <<global_keyboard_index, keyboard_flag, byte_read, kb_buf,
                   history>>

\* Mutant: the index is not set back.
ReadKeepsIndex ==
    /\ Goto("reset", "idle")
    /\ reads' = reads + 1
    /\ line' = <<>>
    /\ UNCHANGED <<shared, i, byte_read, kb_buf, typed, enters, disturbed,
                   delivered>>

ReadReturn ==
    /\ Goto("reset", "idle")
    /\ global_keyboard_index' = 0
    /\ reads' = reads + 1
    /\ line' = <<>>
    /\ UNCHANGED <<keyboard_buffer, keyboard_flag, i, byte_read, kb_buf,
                   typed, enters, disturbed, delivered>>

Reader ==
    \/ ReadWait \/ ReadClear \/ ReadLength \/ ReadNewline \/ ReadTest
    \/ ReadCopy \/ ReadWipe \/ ReadReturn

Next == Keyboard \/ ReadStart \/ Reader

(***************************************************************************)
(* The CPU goes on with terminal_read whenever it is not in a handler;     *)
(* nothing makes a program call read or a user press a key.                *)
(***************************************************************************)
Spec == Init /\ [][Next]_vars /\ WF_vars(Reader)

-----------------------------------------------------------------------------
(* What must hold                                                          *)

(***************************************************************************)
(* Whatever keys arrive during whatever reads: no character is delivered   *)
(* twice and none before one typed earlier.                                *)
(***************************************************************************)
DeliveredInOrder ==
    \A m, n \in DOMAIN delivered : m < n => delivered[m] < delivered[n]

(***************************************************************************)
(* A read that no key disturbed hands over exactly the line on the screen, *)
(* with its newline unless it is as long as a screen line, whatever was    *)
(* left in the buffers by reads that were disturbed.                       *)
(***************************************************************************)
CompleteLine ==
    pc = "reset" /\ ~disturbed =>
      LET n == Len(line)
          newline == IF n = NUM_COLS THEN 0 ELSE 1
      IN  /\ byte_read = n + newline
          /\ \A k \in 1 .. n : kb_buf[k - 1] = line[k]
          /\ newline = 1 => kb_buf[n] = NEWLINE

\* Every return of terminal_read uses up an ENTER of its own.
EnterPerRead ==
    reads + keyboard_flag
      + (IF pc \in {"length", "newline", "test", "copy", "wipe", "reset"}
         THEN 1 ELSE 0) <= enters

\* Once ENTER was pressed a waiting read returns, however long one types on.
EnterEndsRead == pc = "wait" /\ keyboard_flag = 1 ~> pc = "idle"
=============================================================================
