------------------------------- MODULE Screen -------------------------------
(***************************************************************************)
(* The text screen of lib.c: putc, scrolling, change_line and clean_screen *)
(* on video memory and the position screen_x, screen_y.  Two contexts use  *)
(* it: the running process (terminal_write, and the line change            *)
(* terminal_read makes on ENTER) and the keyboard handler (echo,           *)
(* backspace, ctrl-l).  Interrupts stay on during output and nothing is    *)
(* locked, so the handler may run between two statements of the process;   *)
(* it is not interrupted by anything that prints.                          *)
(*                                                                         *)
(* A statement that touches the position is a step, and so is the copying  *)
(* loop of scrolling.                                                      *)
(***************************************************************************)
EXTENDS Integers, Sequences, SequencesExt

CONSTANTS
    NUM_ROWS, NUM_COLS,
    Chars,             \* printable characters, the blank not among them
    KeysDuringOutput,  \* may a key be handled while the process prints?
    Below              \* bound: the rows below the screen in which output starts

ASSUME ScreenAssumption ==
    /\ NUM_ROWS \in Nat /\ NUM_ROWS > 1
    /\ NUM_COLS \in Nat /\ NUM_COLS > 1
    /\ KeysDuringOutput \in BOOLEAN /\ Below \in Nat

BLANK == " "
Contexts == {"process", "handler"}

VARIABLES
    video_mem, screen_x, screen_y,
    cursor,     \* where update_cursor put the hardware cursor
    pc, c,      \* of each context: its place in putc, and its character
    page,       \* history: the lines that should be on the screen, the
                \* cursor being behind the last of them
    disturbed   \* history: whether the handler has drawn amid output of the
                \* process, never or before the screen was cleaned or since

position == <<screen_x, screen_y>>
vars == <<video_mem, position, cursor, pc, c, page, disturbed>>

At(y, x) == NUM_COLS * y + x
OnScreen == 0 .. At(NUM_ROWS - 1, NUM_COLS - 1)
Cells == 0 .. At(NUM_ROWS + Below + 1, NUM_COLS)   \* and what lies behind

Places == {"idle", "cell", "edge", "plus_x", "mod_x", "mod_y", "bottom",
           "column", "row", "scroll", "scrolled", "cursor"}

TypeOK ==
    /\ video_mem \in [Cells -> Chars \cup {BLANK}]
    /\ screen_x \in 0 .. NUM_COLS + 1 /\ screen_y \in Nat /\ cursor \in Nat
    /\ disturbed # "now" =>
         screen_x < NUM_COLS /\ screen_y < NUM_ROWS /\ cursor \in OnScreen
    /\ disturbed \in {"never", "before", "now"}
    /\ pc \in [Contexts -> Places]
    /\ c \in [Contexts -> Chars \cup {BLANK}]
    /\ page \in Seq(Seq(Chars \cup {BLANK})) /\ Len(page) \in 1 .. NUM_ROWS

\* After clear() at boot; where the cursor was left then does not matter.
Init ==
    /\ video_mem = [n \in Cells |-> BLANK]
    /\ screen_x = 0 /\ screen_y = 0 /\ cursor = 0
    /\ pc = [k \in Contexts |-> "idle"]
    /\ c = [k \in Contexts |-> BLANK]
    /\ page = << <<>> >> /\ disturbed = "never"

-----------------------------------------------------------------------------
(* What should happen to the lines                                         *)

LastLine(p, l) == [p EXCEPT ![Len(p)] = l]

NextLine(p) ==
    IF Len(p) = NUM_ROWS THEN Append(Tail(p), <<>>) ELSE Append(p, <<>>)

Printed(p, char) ==
    LET l == Append(Last(p), char)
    IN  IF Len(l) = NUM_COLS THEN NextLine(LastLine(p, l)) ELSE LastLine(p, l)

\* From the start of a line, the last column of the line above is erased.
Erased(p) ==
    IF Last(p) # <<>> THEN LastLine(p, Front(Last(p)))
    ELSE IF Len(p) = 1 THEN p
    ELSE LET q == Front(p)
         IN  LastLine(q, [n \in 1 .. NUM_COLS - 1 |->
                            IF n <= Len(Last(q)) THEN Last(q)[n] ELSE BLANK])

-----------------------------------------------------------------------------
(* The statements of putc, in either context                               *)

Idle(k) == pc[k] = "idle"

\* The handler runs to its end before the process goes on.
Runs(k) == k = "handler" \/ Idle("handler")
MayStart(k) ==
    /\ Idle(k) /\ Runs(k)
    /\ k = "handler" /\ ~KeysDuringOutput => Idle("process")

Room == screen_y < NUM_ROWS + Below

\* The context k draws.
Draws(k) == disturbed' = IF k = "handler" /\ ~Idle("process") THEN "now" ELSE disturbed

Go(k, from, to) ==
    /\ Runs(k) /\ pc[k] = from /\ pc' = [pc EXCEPT ![k] = to]
    /\ UNCHANGED disturbed

\* putc of a printable character.
Putc(k, char) ==
    /\ MayStart(k) /\ Room /\ Draws(k)
    /\ pc' = [pc EXCEPT ![k] = "cell"]
    /\ c' = [c EXCEPT ![k] = char]
    /\ page' = Printed(page, char)
    /\ UNCHANGED <<video_mem, position, cursor>>

\* putc('\n') by the process, and change_line(1) with its update_cursor.
NewLine ==
    /\ MayStart("process") /\ Room /\ Draws("process")
    /\ pc' = [pc EXCEPT !["process"] = "bottom"]
    /\ page' = NextLine(page)
    /\ UNCHANGED <<video_mem, position, cursor, c>>

WriteCell(k) ==
    /\ Go(k, "cell", "edge")
    /\ video_mem' = [video_mem EXCEPT ![At(screen_y, screen_x)] = c[k]]
    /\ UNCHANGED <<position, cursor, c, page>>

TestEdge(k) ==
    /\ Go(k, "edge", IF (screen_x + 1) % NUM_COLS = 0 THEN "bottom" ELSE "plus_x")
    /\ UNCHANGED <<video_mem, position, cursor, c, page>>

PlusX(k) ==
    /\ Go(k, "plus_x", "mod_x")
    /\ screen_x' = screen_x + 1
    /\ UNCHANGED <<video_mem, screen_y, cursor, c, page>>

\* Mutant: without the modulo.
KeepX(k) ==
    /\ Go(k, "mod_x", "mod_y")
    /\ UNCHANGED <<video_mem, position, cursor, c, page>>

ModX(k) ==
    /\ Go(k, "mod_x", "mod_y")
    /\ screen_x' = screen_x % NUM_COLS
    /\ UNCHANGED <<video_mem, screen_y, cursor, c, page>>

ModY(k) ==
    /\ Go(k, "mod_y", "cursor")
    /\ screen_y' = (screen_y + (screen_x \div NUM_COLS)) % NUM_ROWS
    /\ UNCHANGED <<video_mem, screen_x, cursor, c, page>>

TestBottom(k) ==
    /\ Go(k, "bottom", IF screen_y # NUM_ROWS - 1 THEN "column" ELSE "scroll")
    /\ UNCHANGED <<video_mem, position, cursor, c, page>>

ZeroX(k) ==
    /\ Go(k, "column", "row")
    /\ screen_x' = 0
    /\ UNCHANGED <<video_mem, screen_y, cursor, c, page>>

PlusY(k) ==
    /\ Go(k, "row", "cursor")
    /\ screen_y' = screen_y + 1
    /\ UNCHANGED <<video_mem, screen_x, cursor, c, page>>

\* Mutant: the last row is not blanked.
ScrollKeepsLast(k) ==
    /\ Go(k, "scroll", "scrolled")
    /\ video_mem' = [n \in Cells |->
                       IF n < At(NUM_ROWS - 1, 0) THEN video_mem[n + NUM_COLS]
                       ELSE video_mem[n]]
    /\ UNCHANGED <<position, cursor, c, page>>

Scroll(k) ==
    /\ Go(k, "scroll", "scrolled")
    /\ video_mem' = [n \in Cells |->
                       IF n < At(NUM_ROWS - 1, 0) THEN video_mem[n + NUM_COLS]
                       ELSE IF n \in OnScreen THEN BLANK ELSE video_mem[n]]
    /\ UNCHANGED <<position, cursor, c, page>>

Scrolled(k) ==
    /\ Go(k, "scrolled", "cursor")
    /\ screen_x' = 0
    /\ UNCHANGED <<video_mem, screen_y, cursor, c, page>>

UpdateCursor(k) ==
    /\ Go(k, "cursor", "idle")
    /\ cursor' = At(screen_y, screen_x)
    /\ c' = [c EXCEPT ![k] = BLANK]
    /\ UNCHANGED <<video_mem, position, page>>

-----------------------------------------------------------------------------
(* What only the handler does                                              *)

\* change_line(-1), with its update_cursor.  What was typed before it, which
\* the keyboard handler asks for, is in Terminal.
Backspace ==
    /\ MayStart("handler") /\ Draws("handler")
    /\ IF screen_x = 0 /\ screen_y = 0
       THEN UNCHANGED <<position, video_mem>>
       ELSE /\ video_mem' = [video_mem EXCEPT ![At(screen_y, screen_x) - 1] = BLANK]
            /\ screen_x' = (IF screen_x = 0 THEN NUM_COLS ELSE screen_x) - 1
            /\ screen_y' = IF screen_x = 0 THEN screen_y - 1 ELSE screen_y
    /\ cursor' = At(screen_y', screen_x')
    /\ page' = Erased(page)
    /\ UNCHANGED <<pc, c>>

\* A process that prints goes on where it was, on the clean screen.
CleanScreen ==
    /\ MayStart("handler")
    /\ screen_x' = 0 /\ screen_y' = 0 /\ cursor' = 0
    /\ video_mem' = [n \in Cells |-> IF n \in OnScreen THEN BLANK ELSE video_mem[n]]
    /\ page' = << <<>> >>
    /\ disturbed' = IF ~Idle("process") THEN "now"
                    ELSE IF disturbed = "never" THEN "never" ELSE "before"
    /\ UNCHANGED <<pc, c>>

Statement(k) ==
    \/ WriteCell(k) \/ TestEdge(k) \/ PlusX(k) \/ ModX(k) \/ ModY(k)
    \/ TestBottom(k) \/ ZeroX(k) \/ PlusY(k) \/ Scroll(k) \/ Scrolled(k)
    \/ UpdateCursor(k)

Next ==
    \/ \E k \in Contexts, char \in Chars : Putc(k, char)
    \/ NewLine
    \/ \E k \in Contexts : Statement(k)
    \/ Backspace
    \/ CleanScreen

Spec == Init /\ [][Next]_vars

-----------------------------------------------------------------------------
(* What must hold                                                          *)

(***************************************************************************)
(* When nothing is being printed the screen shows the last lines of the    *)
(* text, erasures taken back and long lines broken, nothing else anywhere, *)
(* and the cursor stands where the next character goes: always, if no key  *)
(* was handled amid output of the process, and otherwise again from the    *)
(* next ctrl-l on that was not.  Nothing has been written behind the       *)
(* screen if none ever was.                                                *)
(***************************************************************************)
Shown(y, x) ==
    IF y < Len(page) /\ x < Len(page[y + 1]) THEN page[y + 1][x + 1] ELSE BLANK

ShowsText ==
    (\A k \in Contexts : Idle(k)) =>
      /\ disturbed # "now" =>
           /\ \A y \in 0 .. NUM_ROWS - 1, x \in 0 .. NUM_COLS - 1 :
                 video_mem[At(y, x)] = Shown(y, x)
           /\ screen_y = Len(page) - 1 /\ screen_x = Len(Last(page))
           /\ cursor = At(screen_y, screen_x)
      /\ disturbed = "never" => \A n \in Cells \ OnScreen : video_mem[n] = BLANK

(***************************************************************************)
(* "if the line is the last line, scrolling down" (lib.c, putc and         *)
(* change_line): output never goes on below the last line.                 *)
(***************************************************************************)
NeverBelowLastLine == screen_y < NUM_ROWS
=============================================================================
