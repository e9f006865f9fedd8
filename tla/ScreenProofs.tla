---------------------------- MODULE ScreenProofs ----------------------------
(***************************************************************************)
(* The screen shows the text that was printed, for any number of rows and  *)
(* columns, any characters and keys handled at any time: until a key draws *)
(* amid output of the process (when it need not: see NeverBelowLastLine),  *)
(* and again from the next ctrl-l on that does not.                        *)
(***************************************************************************)
EXTENDS Screen, SequenceTheorems, TLAPS

Glyphs == Chars \cup {BLANK}
Texts == Seq(Seq(Glyphs))
Fits(p) == Len(p) \in 1 .. NUM_ROWS

\* The character of a text at a place of the screen.
CharAt(p, y, x) == IF y < Len(p) /\ x < Len(p[y + 1]) THEN p[y + 1][x + 1] ELSE BLANK

\* What is on the screen is this text.
Shows(memory, p) ==
    \A y \in 0 .. NUM_ROWS - 1, x \in 0 .. NUM_COLS - 1 :
       memory[At(y, x)] = CharAt(p, y, x)

(***************************************************************************)
(* How memory, position and text belong together while a context is at a   *)
(* place of putc.  The text is changed at the start; what it was, and what *)
(* it is with the character but no new line, are the p and q that exist.   *)
(***************************************************************************)
Printing(place, char, memory, x, y, text) ==
    /\ Last(text) \in Seq(Glyphs) /\ Len(Last(text)) < NUM_COLS
    /\ place \in {"idle", "plus_x", "mod_x", "mod_y", "column", "row", "scrolled",
                  "cursor"} => Shows(memory, text)
    /\ place \in {"idle", "mod_x", "mod_y", "cursor"} => x = Len(Last(text))
    /\ place \in {"idle", "plus_x", "mod_x", "mod_y", "scroll", "scrolled", "cursor"} =>
          y = Len(text) - 1
    /\ place = "cell" =>
          \E p \in Texts :
             /\ Fits(p) /\ Len(Last(p)) < NUM_COLS /\ Shows(memory, p)
             /\ x = Len(Last(p)) /\ y = Len(p) - 1
             /\ text = Printed(p, char)
    /\ place = "edge" =>
          \E q \in Texts :
             /\ Fits(q) /\ Len(Last(q)) <= NUM_COLS /\ Shows(memory, q)
             /\ x + 1 = Len(Last(q)) /\ y = Len(q) - 1
             /\ text = IF Len(Last(q)) = NUM_COLS THEN NextLine(q) ELSE q
    /\ place = "plus_x" => x + 1 = Len(Last(text))
    /\ place = "bottom" =>
          \E q \in Texts : /\ Fits(q) /\ Shows(memory, q)
                           /\ y = Len(q) - 1 /\ text = NextLine(q)
    /\ place \in {"column", "row"} => y + 1 = Len(text) - 1 /\ Last(text) = <<>>
    /\ place = "row" => x = 0
    /\ place = "scroll" =>
          \E q \in Texts : /\ Len(q) = NUM_ROWS /\ Shows(memory, q)
                           /\ text = NextLine(q)
    /\ place \in {"scroll", "scrolled"} => Last(text) = <<>>

OneAtATime == Idle("process") \/ Idle("handler")
Active == IF Idle("handler") THEN "process" ELSE "handler"

CursorFollows == (\A k \in Contexts : Idle(k)) => cursor = At(screen_y, screen_x)

USE ScreenAssumption

-----------------------------------------------------------------------------
(* Places in video memory                                                  *)

Rows == 0 .. NUM_ROWS - 1
Columns == 0 .. NUM_COLS - 1

LEMMA RowsApart ==
    ASSUME NEW y1 \in Nat, NEW y2 \in Nat, y1 < y2
    PROVE  /\ NUM_COLS * y1 \in Nat /\ NUM_COLS * y2 \in Nat
           /\ NUM_COLS * y1 + NUM_COLS <= NUM_COLS * y2
<1>1. PICK d \in Nat : y2 = y1 + 1 + d
  <2>1. y2 - y1 - 1 \in Nat /\ y2 = y1 + 1 + (y2 - y1 - 1)
    OBVIOUS
  <2> QED
    BY <2>1
<1>2. NUM_COLS * d \in Nat /\ NUM_COLS * y1 \in Nat /\ NUM_COLS * y2 \in Nat
  OBVIOUS
<1>3. NUM_COLS * y2 = NUM_COLS * y1 + NUM_COLS + NUM_COLS * d
  BY <1>1
<1> QED
  BY <1>2, <1>3

LEMMA AtNext ==
    ASSUME NEW y \in Nat, NEW x \in Int
    PROVE  At(y, x) + NUM_COLS = At(y + 1, x)
  BY DEF At

\* Every place has a cell on the screen, of its own.
LEMMA CellOf ==
    ASSUME NEW y \in Rows, NEW x \in Columns
    PROVE  /\ At(y, x) \in OnScreen /\ At(y, x) \in Cells
           /\ At(y, x) < At(NUM_ROWS - 1, 0) <=> y < NUM_ROWS - 1
<1> DEFINE top == NUM_COLS * (NUM_ROWS - 1)
           end == NUM_COLS * (NUM_ROWS + Below + 1)
           row == NUM_COLS * y
<1>1. top \in Nat /\ end \in Nat /\ top + NUM_COLS <= end
  <2>1. /\ NUM_ROWS - 1 \in Nat /\ NUM_ROWS + Below + 1 \in Nat
        /\ NUM_ROWS - 1 < NUM_ROWS + Below + 1
    OBVIOUS
  <2> QED
    BY <2>1, RowsApart
<1>2. y \in Nat /\ row \in Nat
  BY DEF Rows
<1>3. y < NUM_ROWS - 1 => row + NUM_COLS <= top
  BY <1>2, RowsApart
<1>4. y = NUM_ROWS - 1 => row = top
  OBVIOUS
<1>5. y < NUM_ROWS - 1 \/ y = NUM_ROWS - 1
  BY DEF Rows
<1>6. x \in 0 .. NUM_COLS - 1
  BY DEF Columns
<1> HIDE DEF top, end, row
<1>7. row + x <= top + NUM_COLS - 1 /\ (row + x < top <=> y < NUM_ROWS - 1)
  BY <1>1, <1>2, <1>3, <1>4, <1>5, <1>6
<1>8. /\ At(y, x) = row + x /\ At(NUM_ROWS - 1, 0) = top
      /\ At(NUM_ROWS - 1, NUM_COLS - 1) = top + NUM_COLS - 1
      /\ At(NUM_ROWS + Below + 1, NUM_COLS) = end + NUM_COLS
  BY <1>1 DEF At, top, end, row
<1> QED
  BY <1>1, <1>2, <1>6, <1>7, <1>8 DEF OnScreen, Cells

LEMMA CellsApart ==
    ASSUME NEW y1 \in Rows, NEW x1 \in Columns, NEW y2 \in Rows, NEW x2 \in Columns,
           At(y1, x1) = At(y2, x2)
    PROVE  y1 = y2 /\ x1 = x2
<1> DEFINE r1 == NUM_COLS * y1
           r2 == NUM_COLS * y2
<1>1. y1 \in Nat /\ y2 \in Nat /\ r1 \in Nat /\ r2 \in Nat
  BY DEF Rows
<1>2. (y1 < y2 => r1 + NUM_COLS <= r2) /\ (y2 < y1 => r2 + NUM_COLS <= r1)
  BY <1>1, RowsApart
<1>3. x1 \in 0 .. NUM_COLS - 1 /\ x2 \in 0 .. NUM_COLS - 1
  BY DEF Columns
<1>4. r1 + x1 = r2 + x2
  BY DEF At
<1>5. y1 = y2 => r1 = r2
  OBVIOUS
<1> HIDE DEF r1, r2
<1> QED
  BY <1>1, <1>2, <1>3, <1>4, <1>5

\* What lies behind the screen.
LEMMA Behind ==
    ASSUME NEW n \in Cells \ OnScreen
    PROVE  ~(n < At(NUM_ROWS - 1, 0))
<1> DEFINE top == NUM_COLS * (NUM_ROWS - 1)
<1>1. top \in Nat
  OBVIOUS
<1>2. At(NUM_ROWS - 1, 0) = top /\ At(NUM_ROWS - 1, NUM_COLS - 1) = top + NUM_COLS - 1
  BY <1>1 DEF At
<1> HIDE DEF top
<1> QED
  BY <1>1, <1>2 DEF Cells, OnScreen

\* Scrolling never looks behind Cells.
LEMMA ScrollStays ==
    ASSUME NEW n \in Cells, n < At(NUM_ROWS - 1, 0)
    PROVE  n + NUM_COLS \in Cells
<1> DEFINE top == NUM_COLS * (NUM_ROWS - 1)
           end == NUM_COLS * (NUM_ROWS + Below + 1)
<1>1. top \in Nat /\ end \in Nat /\ top + NUM_COLS <= end
  <2>1. /\ NUM_ROWS - 1 \in Nat /\ NUM_ROWS + Below + 1 \in Nat
        /\ NUM_ROWS - 1 < NUM_ROWS + Below + 1
    OBVIOUS
  <2> QED
    BY <2>1, RowsApart
<1>2. At(NUM_ROWS - 1, 0) = top /\ At(NUM_ROWS + Below + 1, NUM_COLS) = end + NUM_COLS
  BY <1>1 DEF At, top, end
<1> HIDE DEF top, end
<1> QED
  BY <1>1, <1>2 DEF Cells

-----------------------------------------------------------------------------
(* What the operations on the text do to its characters                    *)

\* The texts p and q differ in what is in this place.
Put(p, q, row, column, char) ==
    \A y \in Rows, x \in Columns :
       CharAt(q, y, x) = IF y = row /\ x = column THEN char ELSE CharAt(p, y, x)

LEMMA LastIsLine ==
    ASSUME NEW p \in Texts, Fits(p)
    PROVE  Last(p) \in Seq(Glyphs) /\ Last(p) = p[Len(p)] /\ Len(Last(p)) \in Nat
  BY DEF Texts, Fits, Last

LEMMA OtherLastLine ==
    ASSUME NEW p \in Texts, Fits(p), NEW l \in Seq(Glyphs)
    PROVE  /\ LastLine(p, l) \in Texts /\ Fits(LastLine(p, l))
           /\ Len(LastLine(p, l)) = Len(p) /\ Last(LastLine(p, l)) = l
           /\ \A i \in 1 .. Len(p) :
                 LastLine(p, l)[i] = IF i = Len(p) THEN l ELSE p[i]
<1>1. p \in Seq(Seq(Glyphs)) /\ Len(p) \in 1 .. NUM_ROWS
  BY DEF Texts, Fits
<1>2. LastLine(p, l) \in Seq(Seq(Glyphs)) /\ Len(LastLine(p, l)) = Len(p)
  BY <1>1 DEF LastLine
<1>3. \A i \in 1 .. Len(p) : LastLine(p, l)[i] = IF i = Len(p) THEN l ELSE p[i]
  BY <1>1 DEF LastLine
<1>4. LastLine(p, l)[Len(p)] = l
  BY <1>1, <1>3
<1>5. Last(LastLine(p, l)) = l
  BY <1>2, <1>4 DEF Last
<1> QED
  BY <1>1, <1>2, <1>3, <1>5 DEF Texts, Fits

\* A character behind the last line.
LEMMA OneMore ==
    ASSUME NEW p \in Texts, Fits(p), NEW char \in Glyphs, NEW q,
           q = LastLine(p, Append(Last(p), char))
    PROVE  /\ q \in Texts /\ Fits(q) /\ Len(q) = Len(p)
           /\ Last(q) = Append(Last(p), char) /\ Len(Last(q)) = Len(Last(p)) + 1
           /\ Put(p, q, Len(p) - 1, Len(Last(p)), char)
<1> DEFINE old == Last(p)
           new == Append(old, char)
<1>1. old \in Seq(Glyphs) /\ old = p[Len(p)] /\ Len(old) \in Nat
  BY LastIsLine
<1>2. /\ new \in Seq(Glyphs) /\ Len(new) = Len(old) + 1
      /\ \A i \in 1 .. Len(old) : new[i] = old[i]
      /\ new[Len(old) + 1] = char
  BY <1>1
<1> HIDE DEF old, new
<1>3. /\ q \in Texts /\ Fits(q) /\ Len(q) = Len(p) /\ Last(q) = new
      /\ \A i \in 1 .. Len(p) : q[i] = IF i = Len(p) THEN new ELSE p[i]
  BY <1>2, OtherLastLine DEF new, old
<1>4. ASSUME NEW y \in Rows, NEW x \in Columns
      PROVE  CharAt(q, y, x) = IF y = Len(p) - 1 /\ x = Len(old) THEN char
                               ELSE CharAt(p, y, x)
  <2>1. y \in Nat /\ x \in Nat /\ Len(p) \in Nat \ {0}
    BY DEF Rows, Columns, Fits
  <2>2. CASE y = Len(p) - 1
    <3>1. q[y + 1] = new /\ p[y + 1] = old
      BY <1>1, <1>3, <2>1, <2>2
    <3> QED
      BY <1>1, <1>2, <1>3, <2>1, <2>2, <3>1 DEF CharAt
  <2>3. CASE y # Len(p) - 1
    <3>1. y < Len(p) => q[y + 1] = p[y + 1]
      BY <1>3, <2>1, <2>3
    <3> QED
      BY <1>3, <2>1, <2>3, <3>1 DEF CharAt
  <2> QED
    BY <2>2, <2>3
<1> QED
  BY <1>2, <1>3, <1>4 DEF old, new, Put

\* A new line, while there is room below.
LEMMA NextLineBelow ==
    ASSUME NEW p \in Texts, Fits(p), Len(p) < NUM_ROWS, NEW q, q = NextLine(p)
    PROVE  /\ q \in Texts /\ Fits(q) /\ Len(q) = Len(p) + 1 /\ Last(q) = <<>>
           /\ \A y \in Rows, x \in Columns : CharAt(q, y, x) = CharAt(p, y, x)
<1>1. p \in Seq(Seq(Glyphs)) /\ Len(p) \in 1 .. NUM_ROWS /\ <<>> \in Seq(Glyphs)
  BY DEF Texts, Fits
<1>2. q = Append(p, <<>>)
  BY DEF NextLine
<1>3. /\ q \in Seq(Seq(Glyphs)) /\ Len(q) = Len(p) + 1 /\ q[Len(p) + 1] = <<>>
      /\ \A i \in 1 .. Len(p) : q[i] = p[i]
  BY <1>1, <1>2
<1>4. ASSUME NEW y \in Rows, NEW x \in Columns
      PROVE  CharAt(q, y, x) = CharAt(p, y, x)
  <2>1. y \in Nat /\ x \in Nat /\ Len(p) \in Nat
    BY <1>1 DEF Rows, Columns
  <2>2. CASE y < Len(p)
    <3>1. y + 1 \in 1 .. Len(p)
      BY <2>1, <2>2
    <3>2. q[y + 1] = p[y + 1]
      BY <1>3, <3>1
    <3> QED
      BY <1>3, <2>1, <2>2, <3>2 DEF CharAt
  <2>3. CASE y = Len(p)
    <3>1. q[y + 1] = <<>> /\ Len(q[y + 1]) = 0
      BY <1>3, <2>3
    <3> QED
      BY <2>1, <2>3, <3>1 DEF CharAt
  <2>4. CASE y > Len(p)
    BY <1>3, <2>1, <2>4 DEF CharAt
  <2> QED
    BY <2>1, <2>2, <2>3, <2>4
<1> QED
  BY <1>1, <1>3, <1>4 DEF Texts, Fits, Last

\* A new line on the last row: the lines move up.
LEMMA NextLineScrolled ==
    ASSUME NEW p \in Texts, Len(p) = NUM_ROWS, NEW q, q = NextLine(p)
    PROVE  /\ q \in Texts /\ Fits(q) /\ Len(q) = NUM_ROWS /\ Last(q) = <<>>
           /\ \A y \in Rows, x \in Columns :
                 CharAt(q, y, x) = IF y = NUM_ROWS - 1 THEN BLANK
                                   ELSE CharAt(p, y + 1, x)
<1>1. p \in Seq(Seq(Glyphs)) /\ Len(p) = NUM_ROWS /\ <<>> \in Seq(Glyphs)
  BY DEF Texts
<1>2. q = Append(Tail(p), <<>>)
  BY DEF NextLine
<1>3. /\ Tail(p) \in Seq(Seq(Glyphs)) /\ Len(Tail(p)) = NUM_ROWS - 1
      /\ \A i \in 1 .. NUM_ROWS - 1 : Tail(p)[i] = p[i + 1]
  BY <1>1
<1>4. /\ q \in Seq(Seq(Glyphs)) /\ Len(q) = NUM_ROWS /\ q[NUM_ROWS] = <<>>
      /\ \A i \in 1 .. NUM_ROWS - 1 : q[i] = p[i + 1]
  BY <1>1, <1>2, <1>3
<1>5. ASSUME NEW y \in Rows, NEW x \in Columns
      PROVE  CharAt(q, y, x) = IF y = NUM_ROWS - 1 THEN BLANK ELSE CharAt(p, y + 1, x)
  <2>1. y \in 0 .. NUM_ROWS - 1 /\ x \in Nat
    BY DEF Rows, Columns
  <2>2. CASE y = NUM_ROWS - 1
    <3>1. q[y + 1] = <<>> /\ Len(q[y + 1]) = 0
      BY <1>4, <2>2
    <3> QED
      BY <2>1, <2>2, <3>1 DEF CharAt
  <2>3. CASE y < NUM_ROWS - 1
    <3>1. y + 1 \in 1 .. NUM_ROWS - 1
      BY <2>1, <2>3
    <3>2. q[y + 1] = p[y + 1 + 1]
      BY <1>4, <3>1
    <3>3. CharAt(q, y, x) = IF x < Len(q[y + 1]) THEN q[y + 1][x + 1] ELSE BLANK
      BY <1>4, <2>1 DEF CharAt
    <3>4. y + 1 < NUM_ROWS
      BY <2>1, <2>3
    <3> QED
      BY <1>1, <2>3, <3>2, <3>3, <3>4 DEF CharAt
  <2> QED
    BY <2>1, <2>2, <2>3
<1> QED
  BY <1>1, <1>4, <1>5 DEF Texts, Fits, Last

LEMMA NextLineFits ==
    ASSUME NEW p \in Texts, Fits(p)
    PROVE  /\ NextLine(p) \in Texts /\ Fits(NextLine(p)) /\ Last(NextLine(p)) = <<>>
           /\ Len(<<>>) = 0 /\ <<>> \in Seq(Glyphs)
<1>1. Len(p) < NUM_ROWS \/ Len(p) = NUM_ROWS
  BY DEF Fits
<1> QED
  BY <1>1, NextLineBelow, NextLineScrolled

\* Backspace behind a character.
LEMMA ErasedInLine ==
    ASSUME NEW p \in Texts, Fits(p), Last(p) # <<>>, NEW q, q = Erased(p)
    PROVE  /\ q \in Texts /\ Fits(q) /\ Len(q) = Len(p)
           /\ Len(Last(p)) > 0 /\ Len(Last(q)) = Len(Last(p)) - 1
           /\ Put(p, q, Len(p) - 1, Len(Last(p)) - 1, BLANK)
<1> DEFINE old == Last(p)
           new == Front(old)
<1>1. old \in Seq(Glyphs) /\ old = p[Len(p)] /\ Len(old) \in Nat /\ Len(old) > 0
  BY LastIsLine
<1>2. /\ new \in Seq(Glyphs) /\ Len(new) = Len(old) - 1
      /\ \A i \in 1 .. Len(old) - 1 : new[i] = old[i]
  BY <1>1 DEF Front
<1> HIDE DEF new
<1>3. q = LastLine(p, new)
  BY DEF Erased, new
<1> HIDE DEF old
<1>4. /\ q \in Texts /\ Fits(q) /\ Len(q) = Len(p) /\ Last(q) = new
      /\ \A i \in 1 .. Len(p) : q[i] = IF i = Len(p) THEN new ELSE p[i]
  BY <1>2, <1>3, OtherLastLine
<1>5. ASSUME NEW y \in Rows, NEW x \in Columns
      PROVE  CharAt(q, y, x) = IF y = Len(p) - 1 /\ x = Len(old) - 1 THEN BLANK
                               ELSE CharAt(p, y, x)
  <2>1. y \in Nat /\ x \in Nat /\ Len(p) \in Nat \ {0}
    BY DEF Rows, Columns, Fits
  <2>2. CASE y = Len(p) - 1
    <3>1. q[y + 1] = new /\ p[y + 1] = old
      BY <1>1, <1>4, <2>1, <2>2
    <3> QED
      BY <1>1, <1>2, <1>4, <2>1, <2>2, <3>1 DEF CharAt
  <2>3. CASE y # Len(p) - 1
    <3>1. y < Len(p) => q[y + 1] = p[y + 1]
      BY <1>4, <2>1, <2>3
    <3> QED
      BY <1>4, <2>1, <2>3, <3>1 DEF CharAt
  <2> QED
    BY <2>2, <2>3
<1> QED
  BY <1>1, <1>2, <1>4, <1>5 DEF old, Put

\* Backspace at the start of a line.
LEMMA ErasedAbove ==
    ASSUME NEW p \in Texts, Fits(p), Last(p) = <<>>, Len(p) # 1, NEW q, q = Erased(p)
    PROVE  /\ q \in Texts /\ Fits(q) /\ Len(q) = Len(p) - 1
           /\ Len(Last(q)) = NUM_COLS - 1
           /\ Put(p, q, Len(p) - 2, NUM_COLS - 1, BLANK)
<1>1. p \in Seq(Seq(Glyphs)) /\ Len(p) \in 2 .. NUM_ROWS /\ p[Len(p)] = <<>>
  <2>1. p \in Seq(Seq(Glyphs)) /\ Len(p) \in 1 .. NUM_ROWS
    BY DEF Texts, Fits
  <2>2. Len(p) \in 2 .. NUM_ROWS
    <3> DEFINE n == Len(p)
    <3>1. n \in 1 .. NUM_ROWS /\ n # 1
      BY <2>1
    <3> HIDE DEF n
    <3>2. n \in 2 .. NUM_ROWS
      BY <3>1
    <3> QED
      BY <3>2 DEF n
  <2>3. p[Len(p)] = <<>>
    BY DEF Last
  <2> QED
    BY <2>1, <2>2, <2>3
<1> DEFINE r == Front(p)
           old == Last(r)
           new == [n \in 1 .. NUM_COLS - 1 |-> IF n <= Len(old) THEN old[n] ELSE BLANK]
<1>2. /\ r \in Texts /\ Fits(r) /\ Len(r) = Len(p) - 1
      /\ \A i \in 1 .. Len(p) - 1 : r[i] = p[i]
  BY <1>1 DEF Front, Texts, Fits
<1> HIDE DEF r
<1>3. old \in Seq(Glyphs) /\ old = p[Len(p) - 1] /\ Len(old) \in Nat
  <2>1. old \in Seq(Glyphs) /\ old = r[Len(p) - 1] /\ Len(old) \in Nat
    BY <1>2, LastIsLine
  <2>2. Len(p) - 1 \in 1 .. Len(p) - 1
    BY <1>1
  <2> QED
    BY <1>2, <2>1, <2>2
<1> HIDE DEF old
<1>4. \A n \in 1 .. NUM_COLS - 1 : (IF n <= Len(old) THEN old[n] ELSE BLANK) \in Glyphs
  BY <1>3 DEF Glyphs
<1>5. new \in Seq(Glyphs) /\ Len(new) = NUM_COLS - 1
  BY <1>4, NUM_COLS - 1 \in Nat
<1>6. \A n \in 1 .. NUM_COLS - 1 : new[n] = IF n <= Len(old) THEN old[n] ELSE BLANK
  OBVIOUS
<1>7. q = LastLine(r, new)
  BY DEF Erased, r, old
<1> HIDE DEF new
<1>8. /\ q \in Texts /\ Fits(q) /\ Len(q) = Len(r) /\ Last(q) = new
      /\ \A i \in 1 .. Len(r) : q[i] = IF i = Len(r) THEN new ELSE r[i]
  BY <1>2, <1>5, <1>7, OtherLastLine
<1>9. ASSUME NEW y \in Rows, NEW x \in Columns
      PROVE  CharAt(q, y, x) = IF y = Len(p) - 2 /\ x = NUM_COLS - 1 THEN BLANK
                               ELSE CharAt(p, y, x)
  <2>1. y \in Nat /\ x \in 0 .. NUM_COLS - 1
    BY DEF Rows, Columns
  <2>2. /\ Len(p) \in Nat /\ Len(r) = Len(p) - 1 /\ Len(q) = Len(p) - 1
        /\ Len(new) = NUM_COLS - 1
    BY <1>1, <1>2, <1>5, <1>8
  <2>3. CASE y = Len(p) - 2
    <3>1. q[y + 1] = new /\ p[y + 1] = old
      BY <1>1, <1>2, <1>3, <1>8, <2>1, <2>3
    <3>2. CASE x = NUM_COLS - 1
      BY <1>1, <1>2, <1>5, <1>8, <2>1, <2>3, <3>1, <3>2 DEF CharAt
    <3>3. CASE x # NUM_COLS - 1
      <4>1. CharAt(q, y, x) = new[x + 1]
        <5>1. y < Len(q) /\ x < Len(q[y + 1])
          BY <2>1, <2>3, <2>2, <3>1, <3>3
        <5> QED
          BY <3>1, <5>1 DEF CharAt
      <4>2. CharAt(p, y, x) = IF x + 1 <= Len(old) THEN old[x + 1] ELSE BLANK
        <5>1. y < Len(p) /\ p[y + 1] = old
          BY <1>1, <2>1, <2>3, <3>1
        <5>2. x < Len(old) <=> x + 1 <= Len(old)
          BY <1>3, <2>1
        <5> QED
          BY <5>1, <5>2 DEF CharAt
      <4>3. x + 1 \in 1 .. NUM_COLS - 1
        BY <2>1, <3>3
      <4> QED
        BY <1>6, <3>3, <4>1, <4>2, <4>3
    <3> QED
      BY <3>2, <3>3
  <2>4. CASE y < Len(p) - 2
    <3>1. /\ y + 1 \in 1 .. Len(p) - 1 /\ y + 1 \in 1 .. Len(r) /\ y + 1 # Len(r)
          /\ y < Len(p) /\ y < Len(q)
      BY <2>1, <2>4, <2>2
    <3>2. q[y + 1] = p[y + 1]
      BY <1>2, <1>8, <3>1
    <3>3. y # Len(p) - 2
      BY <1>1, <2>1, <2>4
    <3> QED
      BY <3>1, <3>2, <3>3 DEF CharAt
  <2>5. CASE y > Len(p) - 2
    <3>1. CharAt(q, y, x) = BLANK
      BY <1>1, <1>2, <1>8, <2>1, <2>5 DEF CharAt
    <3>2. y = Len(p) - 1 => p[y + 1] = <<>> /\ Len(p[y + 1]) = 0
      BY <1>1
    <3>3. CharAt(p, y, x) = BLANK
      BY <1>1, <2>1, <2>5, <3>2 DEF CharAt
    <3> QED
      BY <2>5, <3>1, <3>3
  <2> QED
    BY <1>1, <2>1, <2>3, <2>4, <2>5
<1> QED
  BY <1>1, <1>2, <1>5, <1>8, <1>9 DEF Put

-----------------------------------------------------------------------------
(* What the writes to video memory do to the text shown                    *)

Memories == [Cells -> Glyphs]

LEMMA OneCell ==
    ASSUME NEW memory \in Memories, NEW p, NEW q, Shows(memory, p),
           NEW row \in Rows, NEW column \in Columns, NEW char \in Glyphs,
           Put(p, q, row, column, char),
           NEW m, m = [memory EXCEPT ![At(row, column)] = char]
    PROVE  m \in Memories /\ Shows(m, q)
<1>1. At(row, column) \in OnScreen /\ At(row, column) \in Cells
  BY CellOf
<1>2. /\ m \in Memories /\ m[At(row, column)] = char
      /\ \A n \in Cells : n # At(row, column) => m[n] = memory[n]
  BY <1>1 DEF Memories
<1>3. ASSUME NEW y \in Rows, NEW x \in Columns
      PROVE  m[At(y, x)] = CharAt(q, y, x)
  <2>1. At(y, x) \in Cells /\ memory[At(y, x)] = CharAt(p, y, x)
    BY CellOf DEF Shows, Rows, Columns
  <2>2. CASE y = row /\ x = column
    BY <1>2, <2>2 DEF Put
  <2>3. CASE ~(y = row /\ x = column)
    <3>1. At(y, x) # At(row, column)
      BY <2>3, CellsApart
    <3> QED
      BY <1>2, <2>1, <2>3, <3>1 DEF Put
  <2> QED
    BY <2>2, <2>3
<1>4. Shows(m, q)
  BY <1>3 DEF Shows, Rows, Columns
<1> QED
  BY <1>2, <1>4

MovedUp(memory) ==
    [n \in Cells |-> IF n < At(NUM_ROWS - 1, 0) THEN memory[n + NUM_COLS]
                     ELSE IF n \in OnScreen THEN BLANK ELSE memory[n]]

LEMMA AllCells ==
    ASSUME NEW memory \in Memories, NEW p \in Texts, Len(p) = NUM_ROWS, Shows(memory, p)
    PROVE  MovedUp(memory) \in Memories /\ Shows(MovedUp(memory), NextLine(p))
<1> DEFINE m == MovedUp(memory)
           q == NextLine(p)
<1>1. \A y \in Rows, x \in Columns :
         CharAt(q, y, x) = IF y = NUM_ROWS - 1 THEN BLANK ELSE CharAt(p, y + 1, x)
  BY NextLineScrolled
<1>2. /\ m \in Memories
      /\ \A n \in Cells : m[n] = IF n < At(NUM_ROWS - 1, 0) THEN memory[n + NUM_COLS]
                                 ELSE IF n \in OnScreen THEN BLANK ELSE memory[n]
  <2>1. ASSUME NEW n \in Cells, n < At(NUM_ROWS - 1, 0)
        PROVE  memory[n + NUM_COLS] \in Glyphs
    BY <2>1, ScrollStays DEF Memories
  <2>2. BLANK \in Glyphs
    BY DEF Glyphs
  <2> QED
    BY <2>1, <2>2 DEF Memories, MovedUp
<1> HIDE DEF m, q
<1>3. ASSUME NEW y \in Rows, NEW x \in Columns
      PROVE  m[At(y, x)] = CharAt(q, y, x)
  <2>1. /\ At(y, x) \in Cells /\ At(y, x) \in OnScreen
        /\ At(y, x) < At(NUM_ROWS - 1, 0) <=> y < NUM_ROWS - 1
    BY CellOf
  <2>2. y \in 0 .. NUM_ROWS - 1 /\ x \in 0 .. NUM_COLS - 1
    BY DEF Rows, Columns
  <2>3. CASE y = NUM_ROWS - 1
    <3>1. ~(At(y, x) < At(NUM_ROWS - 1, 0))
      BY <2>1, <2>3
    <3> QED
      BY <1>1, <1>2, <2>1, <2>3, <3>1
  <2>4. CASE y # NUM_ROWS - 1
    <3>1. y < NUM_ROWS - 1 /\ y + 1 \in 0 .. NUM_ROWS - 1 /\ y \in Nat /\ x \in Int
      BY <2>2, <2>4
    <3>2. m[At(y, x)] = memory[At(y, x) + NUM_COLS]
      BY <1>2, <2>1, <3>1
    <3>3. At(y, x) + NUM_COLS = At(y + 1, x)
      BY <3>1, AtNext
    <3>4. memory[At(y + 1, x)] = CharAt(p, y + 1, x)
      BY <2>2, <3>1 DEF Shows
    <3> QED
      BY <1>1, <2>4, <3>2, <3>3, <3>4
  <2> QED
    BY <2>3, <2>4
<1> QED
  BY <1>2, <1>3 DEF Shows, Rows, Columns, m, q

LEMMA NoCell ==
    ASSUME NEW memory \in Memories
    PROVE  LET m == [n \in Cells |-> IF n \in OnScreen THEN BLANK ELSE memory[n]]
           IN  m \in Memories /\ Shows(m, << <<>> >>)
<1> DEFINE m == [n \in Cells |-> IF n \in OnScreen THEN BLANK ELSE memory[n]]
<1>1. m \in Memories /\ \A n \in Cells : n \in OnScreen => m[n] = BLANK
  BY DEF Memories, Glyphs
<1> HIDE DEF m
<1>2. \A y \in Rows, x \in Columns : CharAt(<< <<>> >>, y, x) = BLANK
  BY DEF CharAt, Rows, Columns
<1>3. Shows(m, << <<>> >>)
  BY <1>1, <1>2, CellOf DEF Shows, Rows, Columns
<1> QED
  BY <1>1, <1>3 DEF m

-----------------------------------------------------------------------------
(* The statements of putc, one after the other                             *)

Typed(char, memory, x, y, text) ==
    /\ char \in Glyphs /\ memory \in Memories
    /\ x \in Columns /\ y \in Rows
    /\ text \in Texts /\ Fits(text)

LEMMA Remainders ==
    ASSUME NEW x \in 0 .. NUM_COLS - 1
    PROVE  /\ (x + 1) % NUM_COLS = 0 <=> x + 1 = NUM_COLS
           /\ x % NUM_COLS = x /\ x \div NUM_COLS = 0
<1>1. x % NUM_COLS = x /\ x \div NUM_COLS = 0
  BY SMTT(30)
<1>2. x + 1 = NUM_COLS => (x + 1) % NUM_COLS = 0
  BY SMTT(30)
<1>3. x + 1 # NUM_COLS => (x + 1) % NUM_COLS = x + 1
  BY SMTT(30)
<1> QED
  BY <1>1, <1>2, <1>3

\* A character behind the text, and the new line it may bring.
LEMMA PrintedFits ==
    ASSUME NEW p \in Texts, Fits(p), Len(Last(p)) < NUM_COLS, NEW char \in Glyphs
    PROVE  /\ Printed(p, char) \in Texts /\ Fits(Printed(p, char))
           /\ Len(Last(Printed(p, char))) < NUM_COLS
<1> DEFINE q == LastLine(p, Append(Last(p), char))
           new == Printed(p, char)
<1>1. q \in Texts /\ Fits(q) /\ Len(Last(q)) = Len(Last(p)) + 1
  BY OneMore
<1>2. Last(q) = Append(Last(p), char)
  BY OneMore
<1>3. new = IF Len(Last(q)) = NUM_COLS THEN NextLine(q) ELSE q
  BY <1>2 DEF Printed
<1> HIDE DEF q, new
<1>4. new \in Texts /\ Fits(new) /\ Len(Last(new)) < NUM_COLS
  <2>1. CASE Len(Last(q)) = NUM_COLS
    BY <1>1, <1>3, <2>1, NextLineFits
  <2>2. CASE Len(Last(q)) # NUM_COLS
    BY <1>1, <1>3, <2>2, LastIsLine
  <2> QED
    BY <2>1, <2>2
<1> QED
  BY <1>4 DEF new

LEMMA ErasedFits ==
    ASSUME NEW p \in Texts, Fits(p), Len(Last(p)) < NUM_COLS
    PROVE  /\ Erased(p) \in Texts /\ Fits(Erased(p))
           /\ Len(Last(Erased(p))) < NUM_COLS
<1> DEFINE new == Erased(p)
<1>1. CASE Last(p) # <<>>
  <2> HIDE DEF new
  <2>1. new \in Texts /\ Fits(new) /\ Len(Last(new)) = Len(Last(p)) - 1
    BY <1>1, ErasedInLine DEF new
  <2> QED
    BY <2>1, LastIsLine DEF new
<1>2. CASE Last(p) = <<>> /\ Len(p) = 1
  BY <1>2 DEF Erased
<1>3. CASE Last(p) = <<>> /\ Len(p) # 1
  <2> HIDE DEF new
  <2>1. new \in Texts /\ Fits(new) /\ Len(Last(new)) = NUM_COLS - 1
    BY <1>3, ErasedAbove DEF new
  <2> QED
    BY <2>1 DEF new
<1> QED
  BY <1>1, <1>2, <1>3

\* putc: the text is as it should be at the end, the screen as before.
LEMMA AtStart ==
    ASSUME NEW char, NEW memory, NEW x, NEW y, NEW text, NEW old, NEW ch \in Glyphs,
           Typed(old, memory, x, y, text), Printing("idle", old, memory, x, y, text)
    PROVE  /\ Typed(ch, memory, x, y, Printed(text, ch))
           /\ Printing("cell", ch, memory, x, y, Printed(text, ch))
<1> DEFINE new == Printed(text, ch)
<1>1. /\ text \in Texts /\ Fits(text) /\ Len(Last(text)) < NUM_COLS
      /\ Shows(memory, text) /\ x = Len(Last(text)) /\ y = Len(text) - 1
  BY DEF Typed, Printing
<1>2. new \in Texts /\ Fits(new) /\ Len(Last(new)) < NUM_COLS
  BY <1>1, PrintedFits
<1> HIDE DEF new
<1>3. Last(new) \in Seq(Glyphs)
  BY <1>2, LastIsLine
<1>4. Typed(ch, memory, x, y, new)
  BY <1>2 DEF Typed
<1>5. Printing("cell", ch, memory, x, y, new)
  BY <1>1, <1>2, <1>3 DEF Printing, new
<1> QED
  BY <1>4, <1>5 DEF new

\* The process begins a new line.
LEMMA AtNewLine ==
    ASSUME NEW char, NEW memory, NEW x, NEW y, NEW text,
           Typed(char, memory, x, y, text), Printing("idle", char, memory, x, y, text)
    PROVE  /\ Typed(char, memory, x, y, NextLine(text))
           /\ Printing("bottom", char, memory, x, y, NextLine(text))
<1> DEFINE new == NextLine(text)
<1>1. /\ text \in Texts /\ Fits(text) /\ Shows(memory, text) /\ y = Len(text) - 1
  BY DEF Typed, Printing
<1>2. /\ new \in Texts /\ Fits(new) /\ Last(new) \in Seq(Glyphs)
      /\ Len(Last(new)) < NUM_COLS
  <2>1. /\ new \in Texts /\ Fits(new) /\ Last(new) = <<>>
        /\ Len(<<>>) = 0 /\ <<>> \in Seq(Glyphs)
    BY <1>1, NextLineFits
  <2> QED
    BY <2>1
<1>3. Typed(char, memory, x, y, new)
  BY <1>2 DEF Typed
<1>4. \E q \in Texts : Fits(q) /\ Shows(memory, q) /\ y = Len(q) - 1 /\ new = NextLine(q)
  BY <1>1
<1> HIDE DEF new
<1>5. Printing("bottom", char, memory, x, y, new)
  BY <1>2, <1>4 DEF Printing
<1> QED
  BY <1>3, <1>5 DEF new

LEMMA AtCell ==
    ASSUME NEW char, NEW memory, NEW x, NEW y, NEW text,
           Typed(char, memory, x, y, text), Printing("cell", char, memory, x, y, text)
    PROVE  LET m == [memory EXCEPT ![At(y, x)] = char]
           IN  Typed(char, m, x, y, text) /\ Printing("edge", char, m, x, y, text)
<1> DEFINE m == [memory EXCEPT ![At(y, x)] = char]
<1>1. PICK p \in Texts :
         /\ Fits(p) /\ Len(Last(p)) < NUM_COLS /\ Shows(memory, p)
         /\ x = Len(Last(p)) /\ y = Len(p) - 1
         /\ text = Printed(p, char)
  BY DEF Printing
<1> DEFINE q == LastLine(p, Append(Last(p), char))
<1>2. /\ char \in Glyphs /\ memory \in Memories /\ x \in Columns /\ y \in Rows
  BY DEF Typed
<1>3. /\ q \in Texts /\ Fits(q) /\ Len(q) = Len(p) /\ Len(Last(q)) = Len(Last(p)) + 1
  BY <1>1, <1>2, OneMore
<1>4. Put(p, q, y, x, char)
  BY <1>1, <1>2, OneMore
<1>5. Last(q) = Append(Last(p), char)
  BY <1>1, <1>2, OneMore
<1>6. text = IF Len(Last(q)) = NUM_COLS THEN NextLine(q) ELSE q
  BY <1>1, <1>5 DEF Printed
<1> HIDE DEF q
<1>7. m = [memory EXCEPT ![At(y, x)] = char]
  OBVIOUS
<1> HIDE DEF m
<1>8. m \in Memories /\ Shows(m, q)
  BY <1>1, <1>2, <1>4, <1>7, OneCell
<1>9. Len(Last(q)) <= NUM_COLS /\ x + 1 = Len(Last(q)) /\ y = Len(q) - 1
  BY <1>1, <1>3, LastIsLine
<1>10. Typed(char, m, x, y, text)
  BY <1>8 DEF Typed
<1>11. Last(text) \in Seq(Glyphs) /\ Len(Last(text)) < NUM_COLS
  BY DEF Printing
<1>12. Printing("edge", char, m, x, y, text)
  BY <1>3, <1>6, <1>8, <1>9, <1>11 DEF Printing
<1> QED
  BY <1>10, <1>12 DEF m

LEMMA AtEdge ==
    ASSUME NEW char, NEW memory, NEW x, NEW y, NEW text,
           Typed(char, memory, x, y, text), Printing("edge", char, memory, x, y, text)
    PROVE  Printing(IF (x + 1) % NUM_COLS = 0 THEN "bottom" ELSE "plus_x",
                    char, memory, x, y, text)
<1>1. PICK q \in Texts :
         /\ Fits(q) /\ Len(Last(q)) <= NUM_COLS /\ Shows(memory, q)
         /\ x + 1 = Len(Last(q)) /\ y = Len(q) - 1
         /\ text = IF Len(Last(q)) = NUM_COLS THEN NextLine(q) ELSE q
  BY DEF Printing
<1>2. Last(text) \in Seq(Glyphs) /\ Len(Last(text)) < NUM_COLS
  BY DEF Printing
<1>3. (x + 1) % NUM_COLS = 0 <=> x + 1 = NUM_COLS
  BY Remainders DEF Typed, Columns
<1>4. CASE x + 1 = NUM_COLS
  <2>1. Printing("bottom", char, memory, x, y, text)
    BY <1>1, <1>2, <1>4 DEF Printing
  <2> QED
    BY <1>3, <1>4, <2>1
<1>5. CASE x + 1 # NUM_COLS
  <2>1. text = q
    BY <1>1, <1>5
  <2>2. Printing("plus_x", char, memory, x, y, text)
    BY <1>1, <1>2, <2>1 DEF Printing
  <2> QED
    BY <1>3, <1>5, <2>2
<1> QED
  BY <1>4, <1>5

LEMMA AtPlusX ==
    ASSUME NEW char, NEW memory, NEW x, NEW y, NEW text,
           Typed(char, memory, x, y, text), Printing("plus_x", char, memory, x, y, text)
    PROVE  /\ Typed(char, memory, x + 1, y, text)
           /\ Printing("mod_x", char, memory, x + 1, y, text)
<1>1. /\ Last(text) \in Seq(Glyphs) /\ Len(Last(text)) < NUM_COLS /\ Shows(memory, text)
      /\ x + 1 = Len(Last(text)) /\ y = Len(text) - 1
  BY DEF Printing
<1>2. x + 1 \in Columns
  BY <1>1 DEF Typed, Columns
<1>3. Typed(char, memory, x + 1, y, text)
  BY <1>2 DEF Typed
<1>4. Printing("mod_x", char, memory, x + 1, y, text)
  BY <1>1 DEF Printing
<1> QED
  BY <1>3, <1>4

LEMMA AtMod ==
    ASSUME NEW char, NEW memory, NEW x, NEW y, NEW text,
           Typed(char, memory, x, y, text)
    PROVE  /\ x % NUM_COLS = x /\ (y + (x \div NUM_COLS)) % NUM_ROWS = y
           /\ Printing("mod_x", char, memory, x, y, text)
                 => Printing("mod_y", char, memory, x, y, text)
           /\ Printing("mod_y", char, memory, x, y, text)
                 => Printing("cursor", char, memory, x, y, text)
<1>1. x \in 0 .. NUM_COLS - 1 /\ y \in 0 .. NUM_ROWS - 1
  BY DEF Typed, Columns, Rows
<1>2. x % NUM_COLS = x /\ x \div NUM_COLS = 0
  BY <1>1, Remainders
<1>3. y % NUM_ROWS = y
  BY <1>1, SMTT(30)
<1>4. y + 0 = y
  BY <1>1
<1>5. (y + (x \div NUM_COLS)) % NUM_ROWS = y
  BY <1>2, <1>3, <1>4
<1>6. Printing("mod_x", char, memory, x, y, text)
         => Printing("mod_y", char, memory, x, y, text)
  BY DEF Printing
<1>7. Printing("mod_y", char, memory, x, y, text)
         => Printing("cursor", char, memory, x, y, text)
  BY DEF Printing
<1> QED
  BY <1>2, <1>5, <1>6, <1>7

LEMMA AtBottom ==
    ASSUME NEW char, NEW memory, NEW x, NEW y, NEW text,
           Typed(char, memory, x, y, text), Printing("bottom", char, memory, x, y, text)
    PROVE  Printing(IF y # NUM_ROWS - 1 THEN "column" ELSE "scroll",
                    char, memory, x, y, text)
<1>1. PICK q \in Texts : /\ Fits(q) /\ Shows(memory, q)
                         /\ y = Len(q) - 1 /\ text = NextLine(q)
  BY DEF Printing
<1>2. Last(text) \in Seq(Glyphs) /\ Len(Last(text)) < NUM_COLS
  BY DEF Printing
<1>3. Len(q) \in 1 .. NUM_ROWS
  BY <1>1 DEF Fits
<1>4. CASE y # NUM_ROWS - 1
  <2>1. Len(q) < NUM_ROWS
    BY <1>1, <1>3, <1>4
  <2>2. /\ Len(text) = Len(q) + 1 /\ Last(text) = <<>>
        /\ \A b \in Rows, a \in Columns : CharAt(text, b, a) = CharAt(q, b, a)
    BY <1>1, <2>1, NextLineBelow
  <2>3. Shows(memory, text)
    BY <1>1, <2>2 DEF Shows, Rows, Columns
  <2>4. y + 1 = Len(text) - 1
    BY <1>1, <1>3, <2>2
  <2>5. Printing("column", char, memory, x, y, text)
    BY <1>2, <2>2, <2>3, <2>4 DEF Printing
  <2> QED
    BY <1>4, <2>5
<1>5. CASE y = NUM_ROWS - 1
  <2>1. Len(q) = NUM_ROWS
    BY <1>1, <1>3, <1>5
  <2>2. Len(text) = NUM_ROWS /\ Last(text) = <<>>
    BY <1>1, <2>1, NextLineScrolled
  <2>3. Printing("scroll", char, memory, x, y, text)
    BY <1>1, <1>2, <1>5, <2>1, <2>2 DEF Printing
  <2> QED
    BY <1>5, <2>3
<1> QED
  BY <1>4, <1>5

LEMMA AtColumn ==
    ASSUME NEW char, NEW memory, NEW x, NEW y, NEW text,
           Typed(char, memory, x, y, text), Printing("column", char, memory, x, y, text)
    PROVE  /\ Typed(char, memory, 0, y, text)
           /\ Printing("row", char, memory, 0, y, text)
<1>1. 0 \in Columns
  BY DEF Columns
<1>2. Printing("row", char, memory, 0, y, text)
  BY DEF Printing
<1> QED
  BY <1>1, <1>2 DEF Typed

LEMMA AtRow ==
    ASSUME NEW char, NEW memory, NEW x, NEW y, NEW text,
           Typed(char, memory, x, y, text), Printing("row", char, memory, x, y, text)
    PROVE  /\ Typed(char, memory, x, y + 1, text)
           /\ Printing("cursor", char, memory, x, y + 1, text)
<1>1. /\ Last(text) = <<>> /\ Last(text) \in Seq(Glyphs) /\ Len(Last(text)) < NUM_COLS
      /\ Shows(memory, text) /\ y + 1 = Len(text) - 1 /\ x = 0
  BY DEF Printing
<1>2. Len(Last(text)) = 0
  BY <1>1
<1>3. y + 1 \in Rows
  BY <1>1 DEF Typed, Fits, Rows
<1>4. Printing("cursor", char, memory, x, y + 1, text)
  BY <1>1, <1>2 DEF Printing
<1> QED
  BY <1>3, <1>4 DEF Typed

LEMMA AtScroll ==
    ASSUME NEW char, NEW memory, NEW x, NEW y, NEW text,
           Typed(char, memory, x, y, text), Printing("scroll", char, memory, x, y, text)
    PROVE  /\ Typed(char, MovedUp(memory), x, y, text)
           /\ Printing("scrolled", char, MovedUp(memory), x, y, text)
<1> DEFINE m == MovedUp(memory)
<1>1. PICK q \in Texts : Len(q) = NUM_ROWS /\ Shows(memory, q) /\ text = NextLine(q)
  BY DEF Printing
<1>2. m \in Memories /\ Shows(m, text)
  BY <1>1, AllCells DEF Typed
<1>3. /\ Last(text) = <<>> /\ Last(text) \in Seq(Glyphs) /\ Len(Last(text)) < NUM_COLS
      /\ y = Len(text) - 1
  BY DEF Printing
<1> HIDE DEF m
<1>4. Printing("scrolled", char, m, x, y, text)
  BY <1>2, <1>3 DEF Printing
<1>5. Typed(char, m, x, y, text)
  BY <1>2 DEF Typed
<1> QED
  BY <1>4, <1>5 DEF m

LEMMA AtScrolled ==
    ASSUME NEW char, NEW memory, NEW x, NEW y, NEW text,
           Typed(char, memory, x, y, text), Printing("scrolled", char, memory, x, y, text)
    PROVE  /\ Typed(char, memory, 0, y, text)
           /\ Printing("cursor", char, memory, 0, y, text)
<1>1. /\ Last(text) = <<>> /\ Last(text) \in Seq(Glyphs) /\ Len(Last(text)) < NUM_COLS
      /\ Shows(memory, text) /\ y = Len(text) - 1
  BY DEF Printing
<1>2. Len(Last(text)) = 0 /\ 0 \in Columns
  BY <1>1 DEF Columns
<1>3. Printing("cursor", char, memory, 0, y, text)
  BY <1>1, <1>2 DEF Printing
<1> QED
  BY <1>2, <1>3 DEF Typed

LEMMA AtEnd ==
    ASSUME NEW char, NEW memory, NEW x, NEW y, NEW text, NEW other,
           Printing("cursor", char, memory, x, y, text)
    PROVE  Printing("idle", other, memory, x, y, text)
  BY DEF Printing

-----------------------------------------------------------------------------
(* The steps of the contexts                                               *)

\* One context prints, undisturbed: text, position and memory belong together.
Ordered ==
    /\ pc \in [Contexts -> Places] /\ c \in [Contexts -> Glyphs]
    /\ OneAtATime /\ CursorFollows /\ cursor \in OnScreen
    /\ Typed(c[Active], video_mem, screen_x, screen_y, page)
    /\ Printing(pc[Active], c[Active], video_mem, screen_x, screen_y, page)

\* A context that is not idle is the active one, and goes on alone.
LEMMA GoesOn ==
    ASSUME Ordered, NEW k \in Contexts, NEW from, NEW to \in Places,
           from # "idle", Go(k, from, to), c'[k] \in Glyphs, c' \in [Contexts -> Glyphs]
    PROVE  /\ Active = k /\ pc[Active] = from
           /\ pc' \in [Contexts -> Places] /\ OneAtATime'
           /\ pc'[Active'] = to
           /\ to # "idle" => Active' = k /\ CursorFollows'
<1>1. pc \in [Contexts -> Places] /\ OneAtATime
  BY DEF Ordered
<1>2. pc[k] = from /\ pc' = [pc EXCEPT ![k] = to]
  BY DEF Go
<1>3. k \in {"process", "handler"} /\ Contexts = {"process", "handler"}
  BY DEF Contexts
<1>4. Active = k /\ pc[Active] = from
  BY <1>1, <1>2, <1>3 DEF Active, OneAtATime, Idle
<1>5. \A j \in Contexts : j # k => pc[j] = "idle"
  BY <1>1, <1>2, <1>3 DEF OneAtATime, Idle
<1>6. /\ pc' \in [Contexts -> Places] /\ pc'[k] = to
      /\ \A j \in Contexts : j # k => pc'[j] = "idle"
  BY <1>1, <1>2, <1>5
<1>7. OneAtATime' /\ pc'[Active'] = to
  BY <1>3, <1>6 DEF OneAtATime, Active, Idle
<1>8. ASSUME to # "idle"
      PROVE  Active' = k /\ CursorFollows'
  BY <1>3, <1>6, <1>8 DEF Active, CursorFollows, Idle
<1> QED
  BY <1>4, <1>6, <1>7, <1>8

\* A statement that leaves the context at another place of putc.
LEMMA StaysActive ==
    ASSUME Ordered, NEW k \in Contexts, NEW from, NEW to \in Places,
           from # "idle", to # "idle", Go(k, from, to), UNCHANGED <<c, cursor>>,
           (/\ Typed(c[k], video_mem, screen_x, screen_y, page)
            /\ Printing(from, c[k], video_mem, screen_x, screen_y, page))
             => /\ Typed(c[k], video_mem', screen_x', screen_y', page')
                /\ Printing(to, c[k], video_mem', screen_x', screen_y', page')
    PROVE  Ordered'
<1>1. /\ c \in [Contexts -> Glyphs] /\ cursor \in OnScreen
      /\ Typed(c[Active], video_mem, screen_x, screen_y, page)
      /\ Printing(pc[Active], c[Active], video_mem, screen_x, screen_y, page)
  BY DEF Ordered
<1>2. c' \in [Contexts -> Glyphs] /\ c'[k] \in Glyphs /\ c'[k] = c[k] /\ cursor' = cursor
  BY <1>1
<1>3. /\ Active = k /\ pc[Active] = from
      /\ pc' \in [Contexts -> Places] /\ OneAtATime'
      /\ pc'[Active'] = to /\ Active' = k /\ CursorFollows'
  BY <1>2, GoesOn
<1>4. /\ Typed(c[k], video_mem', screen_x', screen_y', page')
      /\ Printing(to, c[k], video_mem', screen_x', screen_y', page')
  BY <1>1, <1>3
<1> QED
  BY <1>1, <1>2, <1>3, <1>4 DEF Ordered

LEMMA StatementKeeps ==
    ASSUME Ordered, NEW k \in Contexts, Statement(k)
    PROVE  Ordered'
<1> USE DEF Places
<1>1. CASE WriteCell(k)
  <2>1. /\ Go(k, "cell", "edge") /\ UNCHANGED <<c, cursor>>
        /\ video_mem' = [video_mem EXCEPT ![At(screen_y, screen_x)] = c[k]]
        /\ screen_x' = screen_x /\ screen_y' = screen_y /\ page' = page
    BY <1>1 DEF WriteCell, position
  <2> QED
    BY <2>1, AtCell, StaysActive
<1>2. CASE TestEdge(k)
  <2> DEFINE to == IF (screen_x + 1) % NUM_COLS = 0 THEN "bottom" ELSE "plus_x"
  <2>1. /\ Go(k, "edge", to) /\ UNCHANGED <<c, cursor>> /\ video_mem' = video_mem
        /\ screen_x' = screen_x /\ screen_y' = screen_y /\ page' = page
    BY <1>2 DEF TestEdge, position
  <2>2. (/\ Typed(c[k], video_mem, screen_x, screen_y, page)
         /\ Printing("edge", c[k], video_mem, screen_x, screen_y, page))
          => Printing(to, c[k], video_mem, screen_x, screen_y, page)
    BY AtEdge
  <2>3. to \in Places /\ to # "idle"
    OBVIOUS
  <2> HIDE DEF to
  <2> QED
    BY <2>1, <2>2, <2>3, StaysActive
<1>3. CASE PlusX(k)
  <2>1. /\ Go(k, "plus_x", "mod_x") /\ UNCHANGED <<c, cursor>> /\ video_mem' = video_mem
        /\ screen_x' = screen_x + 1 /\ screen_y' = screen_y /\ page' = page
    BY <1>3 DEF PlusX
  <2> QED
    BY <2>1, AtPlusX, StaysActive
<1>4. CASE ModX(k)
  <2>1. /\ Go(k, "mod_x", "mod_y") /\ UNCHANGED <<c, cursor>> /\ video_mem' = video_mem
        /\ screen_x' = screen_x % NUM_COLS /\ screen_y' = screen_y /\ page' = page
    BY <1>4 DEF ModX
  <2> QED
    BY <2>1, AtMod, StaysActive
<1>5. CASE ModY(k)
  <2>1. /\ Go(k, "mod_y", "cursor") /\ UNCHANGED <<c, cursor>> /\ video_mem' = video_mem
        /\ screen_x' = screen_x /\ page' = page
        /\ screen_y' = (screen_y + (screen_x \div NUM_COLS)) % NUM_ROWS
    BY <1>5 DEF ModY
  <2> QED
    BY <2>1, AtMod, StaysActive
<1>6. CASE TestBottom(k)
  <2> DEFINE to == IF screen_y # NUM_ROWS - 1 THEN "column" ELSE "scroll"
  <2>1. /\ Go(k, "bottom", to) /\ UNCHANGED <<c, cursor>> /\ video_mem' = video_mem
        /\ screen_x' = screen_x /\ screen_y' = screen_y /\ page' = page
    BY <1>6 DEF TestBottom, position
  <2>2. (/\ Typed(c[k], video_mem, screen_x, screen_y, page)
         /\ Printing("bottom", c[k], video_mem, screen_x, screen_y, page))
          => Printing(to, c[k], video_mem, screen_x, screen_y, page)
    BY AtBottom
  <2>3. to \in Places /\ to # "idle"
    OBVIOUS
  <2> HIDE DEF to
  <2> QED
    BY <2>1, <2>2, <2>3, StaysActive
<1>7. CASE ZeroX(k)
  <2>1. /\ Go(k, "column", "row") /\ UNCHANGED <<c, cursor>> /\ video_mem' = video_mem
        /\ screen_x' = 0 /\ screen_y' = screen_y /\ page' = page
    BY <1>7 DEF ZeroX
  <2> QED
    BY <2>1, AtColumn, StaysActive
<1>8. CASE PlusY(k)
  <2>1. /\ Go(k, "row", "cursor") /\ UNCHANGED <<c, cursor>> /\ video_mem' = video_mem
        /\ screen_x' = screen_x /\ screen_y' = screen_y + 1 /\ page' = page
    BY <1>8 DEF PlusY
  <2> QED
    BY <2>1, AtRow, StaysActive
<1>9. CASE Scroll(k)
  <2>1. /\ Go(k, "scroll", "scrolled") /\ UNCHANGED <<c, cursor>>
        /\ video_mem' = MovedUp(video_mem)
        /\ screen_x' = screen_x /\ screen_y' = screen_y /\ page' = page
    BY <1>9 DEF Scroll, position, MovedUp
  <2> QED
    BY <2>1, AtScroll, StaysActive
<1>10. CASE Scrolled(k)
  <2>1. /\ Go(k, "scrolled", "cursor") /\ UNCHANGED <<c, cursor>>
        /\ video_mem' = video_mem
        /\ screen_x' = 0 /\ screen_y' = screen_y /\ page' = page
    BY <1>10 DEF Scrolled
  <2> QED
    BY <2>1, AtScrolled, StaysActive
<1>11. CASE UpdateCursor(k)
  <2>1. /\ Go(k, "cursor", "idle") /\ cursor' = At(screen_y, screen_x)
        /\ c' = [c EXCEPT ![k] = BLANK] /\ video_mem' = video_mem
        /\ screen_x' = screen_x /\ screen_y' = screen_y /\ page' = page
    BY <1>11 DEF UpdateCursor, position
  <2>2. /\ c \in [Contexts -> Glyphs]
        /\ Typed(c[Active], video_mem, screen_x, screen_y, page)
        /\ Printing(pc[Active], c[Active], video_mem, screen_x, screen_y, page)
    BY DEF Ordered
  <2>3. c' \in [Contexts -> Glyphs] /\ c'[k] \in Glyphs
    BY <2>1, <2>2 DEF Glyphs
  <2>4. /\ Active = k /\ pc[Active] = "cursor" /\ pc' \in [Contexts -> Places]
        /\ OneAtATime' /\ pc'[Active'] = "idle"
    BY <2>1, <2>3, GoesOn
  <2>5. c'[Active'] \in Glyphs
    <3>1. Active' \in Contexts
      BY DEF Active, Contexts
    <3> QED
      BY <2>3, <3>1
  <2>6. Typed(c'[Active'], video_mem', screen_x', screen_y', page')
    BY <2>1, <2>2, <2>5 DEF Typed
  <2>7. Printing(pc'[Active'], c'[Active'], video_mem', screen_x', screen_y', page')
    BY <2>1, <2>2, <2>4, AtEnd
  <2>8. cursor' \in OnScreen
    BY <2>1, <2>2, CellOf DEF Typed
  <2>9. CursorFollows'
    BY <2>1 DEF CursorFollows
  <2> QED
    BY <2>3, <2>4, <2>6, <2>7, <2>8, <2>9 DEF Ordered
<1> QED
  BY <1>1, <1>2, <1>3, <1>4, <1>5, <1>6, <1>7, <1>8, <1>9, <1>10, <1>11 DEF Statement

\* Nothing starts while something is printed.
LEMMA StartsAlone ==
    ASSUME Ordered, Idle("process"), NEW k \in Contexts, MayStart(k)
    PROVE  /\ pc = [j \in Contexts |-> "idle"]
           /\ Typed(c[k], video_mem, screen_x, screen_y, page)
           /\ Printing("idle", c[k], video_mem, screen_x, screen_y, page)
<1>1. /\ pc \in [Contexts -> Places] /\ c \in [Contexts -> Glyphs]
      /\ Typed(c[Active], video_mem, screen_x, screen_y, page)
      /\ Printing(pc[Active], c[Active], video_mem, screen_x, screen_y, page)
  BY DEF Ordered
<1>2. pc["process"] = "idle" /\ pc["handler"] = "idle"
  BY DEF MayStart, Runs, Idle, Contexts
<1>3. \A j \in Contexts : pc[j] = "idle"
  BY <1>2 DEF Contexts
<1>4. pc[Active] = "idle"
  BY <1>2 DEF Active
<1>5. Printing("idle", c[k], video_mem, screen_x, screen_y, page)
  BY <1>1, <1>4 DEF Printing
<1>6. Typed(c[k], video_mem, screen_x, screen_y, page)
  BY <1>1 DEF Typed
<1> QED
  BY <1>1, <1>3, <1>5, <1>6

\* A context that starts is the active one.
LEMMA Started ==
    ASSUME Ordered, NEW k \in Contexts, NEW to \in Places, to # "idle",
           pc = [j \in Contexts |-> "idle"], pc' = [pc EXCEPT ![k] = to],
           c' \in [Contexts -> Glyphs], cursor' = cursor,
           Typed(c'[k], video_mem', screen_x', screen_y', page'),
           Printing(to, c'[k], video_mem', screen_x', screen_y', page')
    PROVE  Ordered'
<1>1. cursor' \in OnScreen
  BY DEF Ordered
<1>2. /\ pc' \in [Contexts -> Places] /\ pc'[k] = to
      /\ \A j \in Contexts : j # k => pc'[j] = "idle"
  BY DEF Places
<1>3. k \in {"process", "handler"} /\ Contexts = {"process", "handler"}
  BY DEF Contexts
<1>4. OneAtATime' /\ Active' = k /\ CursorFollows'
  BY <1>2, <1>3 DEF OneAtATime, Active, Idle, CursorFollows
<1>5. pc'[Active'] = to
  BY <1>2, <1>4
<1> QED
  BY <1>1, <1>2, <1>4, <1>5 DEF Ordered

LEMMA PutcKeeps ==
    ASSUME Ordered, Idle("process"), NEW k \in Contexts, NEW char \in Chars,
           Putc(k, char)
    PROVE  Ordered'
<1>1. /\ MayStart(k) /\ pc' = [pc EXCEPT ![k] = "cell"]
      /\ c' = [c EXCEPT ![k] = char] /\ page' = Printed(page, char)
      /\ video_mem' = video_mem /\ screen_x' = screen_x /\ screen_y' = screen_y
      /\ cursor' = cursor
  BY DEF Putc, position
<1>2. /\ pc = [j \in Contexts |-> "idle"]
      /\ Typed(c[k], video_mem, screen_x, screen_y, page)
      /\ Printing("idle", c[k], video_mem, screen_x, screen_y, page)
  BY <1>1, StartsAlone
<1>3. c \in [Contexts -> Glyphs] /\ char \in Glyphs
  BY DEF Ordered, Glyphs
<1>4. c' \in [Contexts -> Glyphs] /\ c'[k] = char
  BY <1>1, <1>3
<1>5. /\ Typed(char, video_mem, screen_x, screen_y, Printed(page, char))
      /\ Printing("cell", char, video_mem, screen_x, screen_y, Printed(page, char))
  BY <1>2, <1>3, AtStart
<1>6. "cell" \in Places /\ "cell" # "idle"
  BY DEF Places
<1> QED
  BY <1>1, <1>2, <1>4, <1>5, <1>6, Started

LEMMA NewLineKeeps ==
    ASSUME Ordered, Idle("process"), NewLine
    PROVE  Ordered'
<1>1. /\ MayStart("process") /\ pc' = [pc EXCEPT !["process"] = "bottom"]
      /\ c' = c /\ page' = NextLine(page) /\ video_mem' = video_mem
      /\ screen_x' = screen_x /\ screen_y' = screen_y /\ cursor' = cursor
  BY DEF NewLine, position
<1>2. "process" \in Contexts /\ "bottom" \in Places /\ "bottom" # "idle"
  BY DEF Contexts, Places
<1>3. /\ pc = [j \in Contexts |-> "idle"]
      /\ Typed(c["process"], video_mem, screen_x, screen_y, page)
      /\ Printing("idle", c["process"], video_mem, screen_x, screen_y, page)
  BY <1>1, <1>2, StartsAlone
<1>4. c' \in [Contexts -> Glyphs]
  BY <1>1 DEF Ordered
<1>5. /\ Typed(c["process"], video_mem, screen_x, screen_y, NextLine(page))
      /\ Printing("bottom", c["process"], video_mem, screen_x, screen_y, NextLine(page))
  BY <1>3, AtNewLine
<1> QED
  BY <1>1, <1>2, <1>3, <1>4, <1>5, Started

\* change_line(-1): the place before the cursor, which may end the line above.
LEMMA Erasing ==
    ASSUME NEW char, NEW memory, NEW x, NEW y, NEW text,
           Typed(char, memory, x, y, text), Printing("idle", char, memory, x, y, text),
           NEW m, NEW x2, NEW y2,
           x = 0 /\ y = 0 => m = memory /\ x2 = x /\ y2 = y,
           ~(x = 0 /\ y = 0) => /\ m = [memory EXCEPT ![At(y, x) - 1] = BLANK]
                                /\ x2 = (IF x = 0 THEN NUM_COLS ELSE x) - 1
                                /\ y2 = IF x = 0 THEN y - 1 ELSE y
    PROVE  /\ Typed(char, m, x2, y2, Erased(text))
           /\ Printing("idle", char, m, x2, y2, Erased(text))
<1> DEFINE q == Erased(text)
<1>1. /\ text \in Texts /\ Fits(text) /\ Last(text) \in Seq(Glyphs)
      /\ Len(Last(text)) < NUM_COLS /\ Shows(memory, text)
      /\ x = Len(Last(text)) /\ y = Len(text) - 1
  BY DEF Typed, Printing
<1>2. char \in Glyphs /\ memory \in Memories /\ x \in Columns /\ y \in Rows
  BY DEF Typed
<1>3. x \in 0 .. NUM_COLS - 1 /\ y \in 0 .. NUM_ROWS - 1
  BY <1>2 DEF Columns, Rows
<1>4. BLANK \in Glyphs
  BY DEF Glyphs
<1>5. memory \in Memories /\ Shows(memory, text) /\ y \in Rows
  BY <1>1, <1>2
<1>6. SUFFICES /\ q \in Texts /\ Fits(q) /\ Len(Last(q)) < NUM_COLS
               /\ m \in Memories /\ Shows(m, q)
               /\ x2 \in Columns /\ y2 \in Rows
               /\ x2 = Len(Last(q)) /\ y2 = Len(q) - 1
  <2> HIDE DEF q
  <2>1. Last(q) \in Seq(Glyphs)
    BY <1>6, LastIsLine
  <2>2. Typed(char, m, x2, y2, q)
    BY <1>2, <1>6 DEF Typed
  <2>3. Printing("idle", char, m, x2, y2, q)
    BY <1>6, <2>1 DEF Printing
  <2> QED
    BY <2>2, <2>3 DEF q
<1>7. CASE Last(text) # <<>>
  <2> HIDE DEF q
  <2>1. /\ q \in Texts /\ Fits(q) /\ Len(q) = Len(text)
        /\ Len(Last(text)) > 0 /\ Len(Last(q)) = Len(Last(text)) - 1
    BY <1>1, <1>7, ErasedInLine DEF q
  <2>2. Put(text, q, y, x - 1, BLANK)
    BY <1>1, <1>7, ErasedInLine DEF q
  <2>3. /\ x # 0 /\ x - 1 \in Columns /\ x2 = x - 1 /\ y2 = y
        /\ m = [memory EXCEPT ![At(y, x) - 1] = BLANK]
    BY <1>1, <1>3, <2>1 DEF Columns
  <2>4. At(y, x) - 1 = At(y, x - 1)
    BY <1>3 DEF At
  <2>5. m = [memory EXCEPT ![At(y, x - 1)] = BLANK]
    BY <2>3, <2>4
  <2>6. m \in Memories /\ Shows(m, q)
    BY <1>4, <1>5, <2>2, <2>3, <2>5, OneCell
  <2> QED
    BY <1>1, <1>2, <1>3, <2>1, <2>3, <2>6
<1>8. CASE Last(text) = <<>> /\ Len(text) = 1
  <2>1. q = text
    BY <1>8 DEF Erased
  <2>2. x = 0 /\ y = 0
    BY <1>1, <1>8
  <2>3. m = memory /\ x2 = x /\ y2 = y
    BY <2>2
  <2> QED
    BY <1>1, <1>2, <2>1, <2>3
<1>9. CASE Last(text) = <<>> /\ Len(text) # 1
  <2> HIDE DEF q
  <2>1. /\ q \in Texts /\ Fits(q) /\ Len(q) = Len(text) - 1
        /\ Len(Last(q)) = NUM_COLS - 1
    BY <1>1, <1>9, ErasedAbove DEF q
  <2>2. Put(text, q, Len(text) - 2, NUM_COLS - 1, BLANK)
    BY <1>1, <1>9, ErasedAbove DEF q
  <2>3. x = 0 /\ y # 0 /\ Len(text) \in Nat
    BY <1>1, <1>9 DEF Fits
  <2>4. y - 1 = Len(text) - 2
    BY <1>1, <2>3
  <2>5. Put(text, q, y - 1, NUM_COLS - 1, BLANK)
    BY <2>2, <2>4
  <2>6. /\ NUM_COLS - 1 \in Columns /\ y - 1 \in Rows /\ x2 = NUM_COLS - 1 /\ y2 = y - 1
        /\ m = [memory EXCEPT ![At(y, x) - 1] = BLANK]
    BY <1>3, <2>3 DEF Columns, Rows
  <2>7. At(y, x) - 1 = At(y - 1, NUM_COLS - 1)
    BY <1>3, <2>3 DEF At
  <2>8. m = [memory EXCEPT ![At(y - 1, NUM_COLS - 1)] = BLANK]
    BY <2>6, <2>7
  <2>9. m \in Memories /\ Shows(m, q)
    <3> DEFINE row == y - 1
               column == NUM_COLS - 1
    <3>1. /\ row \in Rows /\ column \in Columns /\ Put(text, q, row, column, BLANK)
          /\ m = [memory EXCEPT ![At(row, column)] = BLANK]
      BY <2>5, <2>6, <2>8
    <3> HIDE DEF row, column
    <3> QED
      BY <1>4, <1>5, <3>1, OneCell
  <2>10. y2 = Len(q) - 1 /\ Len(Last(q)) < NUM_COLS
    BY <2>1, <2>3, <2>4, <2>6
  <2> QED
    BY <2>1, <2>6, <2>9, <2>10
<1> QED
  BY <1>7, <1>8, <1>9

\* A handler that comes and goes in one step.
LEMMA Unseen ==
    ASSUME Ordered, pc = [j \in Contexts |-> "idle"], UNCHANGED <<pc, c>>,
           cursor' = At(screen_y', screen_x'),
           Typed(c["handler"], video_mem', screen_x', screen_y', page'),
           Printing("idle", c["handler"], video_mem', screen_x', screen_y', page')
    PROVE  Ordered'
<1>1. pc \in [Contexts -> Places] /\ c \in [Contexts -> Glyphs] /\ OneAtATime
  BY DEF Ordered
<1>2. Active' \in Contexts
  BY DEF Active, Contexts
<1>3. c'[Active'] \in Glyphs /\ pc'[Active'] = "idle"
  BY <1>1, <1>2
<1>4. Typed(c'[Active'], video_mem', screen_x', screen_y', page')
  BY <1>3 DEF Typed
<1>5. Printing(pc'[Active'], c'[Active'], video_mem', screen_x', screen_y', page')
  BY <1>3 DEF Printing
<1>6. cursor' \in OnScreen
  BY CellOf DEF Typed
<1>7. CursorFollows'
  BY DEF CursorFollows
<1>8. OneAtATime'
  BY <1>1 DEF OneAtATime, Idle
<1> QED
  BY <1>1, <1>4, <1>5, <1>6, <1>7, <1>8 DEF Ordered

LEMMA BackspaceKeeps ==
    ASSUME Ordered, Idle("process"), Backspace
    PROVE  Ordered'
<1>1. /\ MayStart("handler") /\ UNCHANGED <<pc, c>> /\ cursor' = At(screen_y', screen_x')
      /\ page' = Erased(page)
  BY DEF Backspace
<1>2. "handler" \in Contexts
  BY DEF Contexts
<1>3. /\ pc = [j \in Contexts |-> "idle"]
      /\ Typed(c["handler"], video_mem, screen_x, screen_y, page)
      /\ Printing("idle", c["handler"], video_mem, screen_x, screen_y, page)
  BY <1>1, <1>2, StartsAlone
<1>4. /\ screen_x = 0 /\ screen_y = 0 =>
           video_mem' = video_mem /\ screen_x' = screen_x /\ screen_y' = screen_y
      /\ ~(screen_x = 0 /\ screen_y = 0) =>
           /\ video_mem' = [video_mem EXCEPT ![At(screen_y, screen_x) - 1] = BLANK]
           /\ screen_x' = (IF screen_x = 0 THEN NUM_COLS ELSE screen_x) - 1
           /\ screen_y' = IF screen_x = 0 THEN screen_y - 1 ELSE screen_y
  BY DEF Backspace, position
<1>5. /\ Typed(c["handler"], video_mem', screen_x', screen_y', Erased(page))
      /\ Printing("idle", c["handler"], video_mem', screen_x', screen_y', Erased(page))
  BY <1>3, <1>4, Erasing
<1> QED
  BY <1>1, <1>3, <1>5, Unseen

-----------------------------------------------------------------------------
(* What holds even when a key was handled amid output                      *)

\* Between the two statements of putc a column may be one too far.
Ahead(k) == IF pc[k] = "mod_x" THEN 1 ELSE 0

Wide ==
    /\ video_mem \in Memories
    /\ screen_x \in Nat /\ screen_y \in Nat /\ cursor \in Nat
    /\ screen_x <= NUM_COLS - 1 + Ahead("process") + Ahead("handler")
    /\ pc \in [Contexts -> Places] /\ c \in [Contexts -> Glyphs]
    /\ page \in Texts /\ Fits(page) /\ Len(Last(page)) < NUM_COLS
    /\ disturbed \in {"never", "before", "now"}

LEMMA AtNat ==
    ASSUME NEW y \in Nat, NEW x \in Nat
    PROVE  At(y, x) \in Nat
<1>1. NUM_COLS * y \in Nat
  OBVIOUS
<1> DEFINE row == NUM_COLS * y
<1> HIDE DEF row
<1>2. row \in Nat => row + x \in Nat
  OBVIOUS
<1> QED
  BY <1>1, <1>2 DEF At, row

\* A statement that moves the column no further.
LEMMA WideGoes ==
    ASSUME Wide, NEW k \in Contexts, NEW from, NEW to \in Places,
           from # "mod_x", to # "mod_x", Go(k, from, to),
           video_mem' \in Memories, c' \in [Contexts -> Glyphs], page' = page,
           screen_x' \in Nat, screen_x' <= screen_x, screen_y' \in Nat, cursor' \in Nat
    PROVE  Wide'
<1>1. /\ pc[k] = from /\ pc' = [pc EXCEPT ![k] = to] /\ disturbed' = disturbed
      /\ pc \in [Contexts -> Places] /\ Contexts = {"process", "handler"}
  BY DEF Go, Wide, Contexts
<1>2. /\ pc' \in [Contexts -> Places]
      /\ \A j \in Contexts : pc'[j] = "mod_x" <=> pc[j] = "mod_x"
  BY <1>1
<1>3. Ahead("process")' = Ahead("process") /\ Ahead("handler")' = Ahead("handler")
  BY <1>1, <1>2 DEF Ahead
<1>4. Ahead("process") \in {0, 1} /\ Ahead("handler") \in {0, 1}
  BY DEF Ahead
<1>5. screen_x' <= NUM_COLS - 1 + Ahead("process")' + Ahead("handler")'
  BY <1>3, <1>4 DEF Wide
<1> QED
  BY <1>1, <1>2, <1>5 DEF Wide

LEMMA WideCell ==
    ASSUME Wide, NEW k \in Contexts, WriteCell(k)
    PROVE  Wide'
<1>1. /\ Go(k, "cell", "edge") /\ UNCHANGED <<c, cursor, page>>
      /\ video_mem' = [video_mem EXCEPT ![At(screen_y, screen_x)] = c[k]]
      /\ screen_x' = screen_x /\ screen_y' = screen_y
  BY DEF WriteCell, position
<1>2. /\ video_mem \in [Cells -> Glyphs] /\ c \in [Contexts -> Glyphs]
      /\ screen_x \in Nat /\ screen_y \in Nat /\ cursor \in Nat
  BY DEF Wide, Memories
<1>3. c[k] \in Glyphs
  BY <1>2
<1>4. video_mem' \in Memories
  BY <1>1, <1>2, <1>3 DEF Memories
<1>5. "edge" \in Places /\ "cell" # "mod_x" /\ "edge" # "mod_x"
  BY DEF Places
<1>6. /\ c' \in [Contexts -> Glyphs] /\ page' = page /\ cursor' \in Nat
      /\ screen_x' \in Nat /\ screen_x' <= screen_x /\ screen_y' \in Nat
  BY <1>1, <1>2
<1>7. Go(k, "cell", "edge")
  BY <1>1
<1> QED
  BY <1>4, <1>5, <1>6, <1>7, WideGoes

LEMMA WideScroll ==
    ASSUME Wide, NEW k \in Contexts, Scroll(k)
    PROVE  Wide'
<1>1. /\ Go(k, "scroll", "scrolled") /\ UNCHANGED <<c, cursor, page>>
      /\ video_mem' = MovedUp(video_mem)
      /\ screen_x' = screen_x /\ screen_y' = screen_y
  BY DEF Scroll, position, MovedUp
<1>2. /\ video_mem \in Memories /\ c \in [Contexts -> Glyphs]
      /\ screen_x \in Nat /\ screen_y \in Nat /\ cursor \in Nat
  BY DEF Wide
<1>3. ASSUME NEW n \in Cells, n < At(NUM_ROWS - 1, 0)
      PROVE  video_mem[n + NUM_COLS] \in Glyphs
  BY <1>2, <1>3, ScrollStays DEF Memories
<1>4. MovedUp(video_mem) \in Memories
  BY <1>2, <1>3 DEF Memories, MovedUp, Glyphs
<1>5. "scrolled" \in Places
  BY DEF Places
<1> QED
  BY <1>1, <1>2, <1>4, <1>5, WideGoes

LEMMA WidePlusX ==
    ASSUME Wide, NEW k \in Contexts, PlusX(k)
    PROVE  Wide'
<1>1. /\ pc[k] = "plus_x" /\ pc' = [pc EXCEPT ![k] = "mod_x"]
      /\ screen_x' = screen_x + 1 /\ screen_x \in Nat
      /\ UNCHANGED <<video_mem, screen_y, cursor, c, page, disturbed>>
  BY DEF PlusX, Go, Wide
<1>2. /\ pc \in [Contexts -> Places] /\ "mod_x" \in Places
      /\ Contexts = {"process", "handler"}
  BY DEF Wide, Contexts, Places
<1>3. /\ pc' \in [Contexts -> Places] /\ pc'[k] = "mod_x"
      /\ \A j \in Contexts : j # k => pc'[j] = pc[j]
  BY <1>1, <1>2
<1>4. Ahead("process") \in {0, 1} /\ Ahead("handler") \in {0, 1}
  BY DEF Ahead
<1>5. Ahead("process")' + Ahead("handler")' = Ahead("process") + Ahead("handler") + 1
  BY <1>1, <1>2, <1>3 DEF Ahead
<1>6. Ahead("process")' \in {0, 1} /\ Ahead("handler")' \in {0, 1}
  BY DEF Ahead
<1>7. screen_x' <= NUM_COLS - 1 + Ahead("process")' + Ahead("handler")'
  BY <1>1, <1>4, <1>5, <1>6 DEF Wide
<1> QED
  BY <1>1, <1>3, <1>7 DEF Wide

LEMMA WideModX ==
    ASSUME Wide, NEW k \in Contexts, ModX(k)
    PROVE  Wide'
<1>1. /\ pc' = [pc EXCEPT ![k] = "mod_y"]
      /\ screen_x' = screen_x % NUM_COLS /\ screen_x \in Nat
      /\ UNCHANGED <<video_mem, screen_y, cursor, c, page, disturbed>>
  BY DEF ModX, Go, Wide
<1>2. pc \in [Contexts -> Places] /\ "mod_y" \in Places
  BY DEF Wide, Places
<1>3. pc' \in [Contexts -> Places]
  BY <1>1, <1>2
<1>4. screen_x' \in 0 .. NUM_COLS - 1
  BY <1>1, SMTT(30)
<1>5. Ahead("process")' \in {0, 1} /\ Ahead("handler")' \in {0, 1}
  BY DEF Ahead
<1>6. screen_x' <= NUM_COLS - 1 + Ahead("process")' + Ahead("handler")'
  BY <1>4, <1>5
<1> QED
  BY <1>1, <1>3, <1>4, <1>6 DEF Wide

LEMMA WideModY ==
    ASSUME Wide, NEW k \in Contexts, ModY(k)
    PROVE  Wide'
<1>1. /\ Go(k, "mod_y", "cursor") /\ UNCHANGED <<video_mem, c, cursor, page>>
      /\ screen_x' = screen_x
      /\ screen_y' = (screen_y + (screen_x \div NUM_COLS)) % NUM_ROWS
  BY DEF ModY
<1>2. /\ video_mem \in Memories /\ c \in [Contexts -> Glyphs]
      /\ screen_x \in Nat /\ screen_y \in Nat /\ cursor \in Nat
  BY DEF Wide
<1>3. screen_x \div NUM_COLS \in Nat
  BY <1>2, SMTT(30)
<1> DEFINE rows == screen_x \div NUM_COLS
<1> HIDE DEF rows
<1>4. rows \in Nat => (screen_y + rows) % NUM_ROWS \in Nat
  BY <1>2, SMTT(30)
<1>5. screen_y' \in Nat
  BY <1>1, <1>3, <1>4 DEF rows
<1>6. "cursor" \in Places
  BY DEF Places
<1> QED
  BY <1>1, <1>2, <1>5, <1>6, WideGoes

LEMMA WideCursor ==
    ASSUME Wide, NEW k \in Contexts, UpdateCursor(k)
    PROVE  Wide'
<1>1. /\ Go(k, "cursor", "idle") /\ UNCHANGED <<video_mem, page>>
      /\ cursor' = At(screen_y, screen_x) /\ c' = [c EXCEPT ![k] = BLANK]
      /\ screen_x' = screen_x /\ screen_y' = screen_y
  BY DEF UpdateCursor, position
<1>2. /\ video_mem \in Memories /\ c \in [Contexts -> Glyphs]
      /\ screen_x \in Nat /\ screen_y \in Nat
  BY DEF Wide
<1>3. cursor' \in Nat /\ c' \in [Contexts -> Glyphs] /\ "idle" \in Places
  BY <1>1, <1>2, AtNat DEF Glyphs, Places
<1> QED
  BY <1>1, <1>2, <1>3, WideGoes

LEMMA WideStatement ==
    ASSUME Wide, NEW k \in Contexts, Statement(k)
    PROVE  Wide'
<1>1. /\ video_mem \in Memories /\ c \in [Contexts -> Glyphs]
      /\ screen_x \in Nat /\ screen_y \in Nat /\ cursor \in Nat
  BY DEF Wide
<1>2. CASE WriteCell(k)
  BY <1>2, WideCell
<1>3. CASE PlusX(k)
  BY <1>3, WidePlusX
<1>4. CASE ModX(k)
  BY <1>4, WideModX
<1>5. CASE ModY(k)
  BY <1>5, WideModY
<1>6. CASE Scroll(k)
  BY <1>6, WideScroll
<1>7. CASE UpdateCursor(k)
  BY <1>7, WideCursor
<1>8. CASE TestEdge(k)
  <2> DEFINE to == IF (screen_x + 1) % NUM_COLS = 0 THEN "bottom" ELSE "plus_x"
  <2>1. /\ Go(k, "edge", to) /\ UNCHANGED <<video_mem, c, cursor, page>>
        /\ screen_x' = screen_x /\ screen_y' = screen_y
    BY <1>8 DEF TestEdge, position
  <2>2. to \in Places /\ to # "mod_x"
    BY DEF Places
  <2> HIDE DEF to
  <2> QED
    BY <1>1, <2>1, <2>2, WideGoes
<1>9. CASE TestBottom(k)
  <2> DEFINE to == IF screen_y # NUM_ROWS - 1 THEN "column" ELSE "scroll"
  <2>1. /\ Go(k, "bottom", to) /\ UNCHANGED <<video_mem, c, cursor, page>>
        /\ screen_x' = screen_x /\ screen_y' = screen_y
    BY <1>9 DEF TestBottom, position
  <2>2. to \in Places /\ to # "mod_x"
    BY DEF Places
  <2> HIDE DEF to
  <2> QED
    BY <1>1, <2>1, <2>2, WideGoes
<1>10. CASE ZeroX(k)
  <2>1. /\ Go(k, "column", "row") /\ UNCHANGED <<video_mem, c, cursor, page>>
        /\ screen_x' = 0 /\ screen_y' = screen_y /\ "row" \in Places
    BY <1>10 DEF ZeroX, Places
  <2>2. screen_x' \in Nat /\ screen_x' <= screen_x
    BY <1>1, <2>1
  <2> QED
    BY <1>1, <2>1, <2>2, WideGoes
<1>11. CASE PlusY(k)
  <2>1. /\ Go(k, "row", "cursor") /\ UNCHANGED <<video_mem, c, cursor, page>>
        /\ screen_x' = screen_x /\ screen_y' = screen_y + 1 /\ "cursor" \in Places
    BY <1>11 DEF PlusY, Places
  <2>2. screen_y' \in Nat
    BY <1>1, <2>1
  <2> QED
    BY <1>1, <2>1, <2>2, WideGoes
<1>12. CASE Scrolled(k)
  <2>1. /\ Go(k, "scrolled", "cursor") /\ UNCHANGED <<video_mem, c, cursor, page>>
        /\ screen_x' = 0 /\ screen_y' = screen_y /\ "cursor" \in Places
    BY <1>12 DEF Scrolled, Places
  <2>2. screen_x' \in Nat /\ screen_x' <= screen_x
    BY <1>1, <2>1
  <2> QED
    BY <1>1, <2>1, <2>2, WideGoes
<1> QED
  BY <1>2, <1>3, <1>4, <1>5, <1>6, <1>7, <1>8, <1>9, <1>10, <1>11, <1>12 DEF Statement

\* A context at the start of putc or change_line.
LEMMA WideStarts ==
    ASSUME Wide, NEW k \in Contexts, Idle(k), Draws(k), NEW to \in Places, to # "mod_x",
           pc' = [pc EXCEPT ![k] = to], c' \in [Contexts -> Glyphs],
           UNCHANGED <<video_mem, position, cursor>>,
           page' \in Texts, Fits(page'), Len(Last(page')) < NUM_COLS
    PROVE  Wide'
<1>1. /\ pc[k] = "idle" /\ disturbed' \in {"never", "before", "now"}
      /\ pc \in [Contexts -> Places] /\ Contexts = {"process", "handler"}
      /\ screen_x' = screen_x /\ screen_y' = screen_y /\ video_mem' = video_mem
      /\ cursor' = cursor
  BY DEF Idle, Draws, Wide, Contexts, position
<1>2. /\ pc' \in [Contexts -> Places]
      /\ \A j \in Contexts : pc'[j] = "mod_x" <=> pc[j] = "mod_x"
  BY <1>1
<1>3. Ahead("process")' = Ahead("process") /\ Ahead("handler")' = Ahead("handler")
  BY <1>1, <1>2 DEF Ahead
<1> QED
  BY <1>1, <1>2, <1>3 DEF Wide, Fits

\* A handler that comes and goes in one step, and leaves the column in a row.
LEMMA WideHandler ==
    ASSUME Wide, UNCHANGED <<pc, c>>, video_mem' \in Memories,
           screen_x' \in Nat, screen_y' \in Nat,
           screen_x' <= screen_x \/ screen_x' <= NUM_COLS - 1,
           cursor' = At(screen_y', screen_x'),
           page' \in Texts, Fits(page'), Len(Last(page')) < NUM_COLS,
           disturbed' \in {"never", "before", "now"}
    PROVE  Wide'
<1>1. Ahead("process")' = Ahead("process") /\ Ahead("handler")' = Ahead("handler")
  BY DEF Ahead
<1>2. Ahead("process") \in {0, 1} /\ Ahead("handler") \in {0, 1} /\ screen_x \in Nat
  BY DEF Ahead, Wide
<1>3. screen_x <= NUM_COLS - 1 + Ahead("process") + Ahead("handler")
  BY DEF Wide
<1>4. screen_x' <= NUM_COLS - 1 + Ahead("process") + Ahead("handler")
  BY <1>2, <1>3
<1>5. cursor' \in Nat
  BY AtNat
<1> QED
  BY <1>1, <1>4, <1>5 DEF Wide, Fits

LEMMA WideBackspace ==
    ASSUME Wide, Backspace
    PROVE  Wide'
<1>1. /\ video_mem \in [Cells -> Glyphs] /\ screen_x \in Nat /\ screen_y \in Nat
      /\ page \in Texts /\ Fits(page) /\ Len(Last(page)) < NUM_COLS
      /\ disturbed \in {"never", "before", "now"}
  BY DEF Wide, Memories
<1>2. /\ UNCHANGED <<pc, c>> /\ cursor' = At(screen_y', screen_x')
      /\ page' = Erased(page) /\ disturbed' \in {"never", "before", "now"}
  BY <1>1 DEF Backspace, Draws
<1>3. page' \in Texts /\ Fits(page') /\ Len(Last(page')) < NUM_COLS
  BY <1>1, <1>2, ErasedFits
<1>4. /\ video_mem' \in Memories /\ screen_x' \in Nat /\ screen_y' \in Nat
      /\ screen_x' <= screen_x \/ screen_x' <= NUM_COLS - 1
  <2>1. CASE screen_x = 0 /\ screen_y = 0
    BY <1>1, <2>1 DEF Backspace, position, Memories
  <2>2. CASE ~(screen_x = 0 /\ screen_y = 0)
    <3>1. /\ video_mem' = [video_mem EXCEPT ![At(screen_y, screen_x) - 1] = BLANK]
          /\ screen_x' = (IF screen_x = 0 THEN NUM_COLS ELSE screen_x) - 1
          /\ screen_y' = IF screen_x = 0 THEN screen_y - 1 ELSE screen_y
      BY <2>2 DEF Backspace
    <3>2. video_mem' \in Memories
      BY <1>1, <3>1 DEF Memories, Glyphs
    <3>3. /\ screen_x' \in Nat /\ screen_y' \in Nat
          /\ screen_x' <= screen_x \/ screen_x' <= NUM_COLS - 1
      BY <1>1, <2>2, <3>1
    <3> QED
      BY <3>2, <3>3
  <2> QED
    BY <2>1, <2>2
<1> QED
  BY <1>2, <1>3, <1>4, WideHandler

\* clean_screen, whatever was on the screen.
LEMMA Cleaned ==
    ASSUME Wide, CleanScreen
    PROVE  /\ video_mem' \in Memories /\ Shows(video_mem', page')
           /\ screen_x' = 0 /\ screen_y' = 0 /\ 0 \in Columns /\ 0 \in Rows
           /\ cursor' = 0 /\ At(0, 0) = 0 /\ 0 \in OnScreen
           /\ page' \in Texts /\ Len(page') = 1 /\ Last(page') = <<>>
           /\ Last(page') \in Seq(Glyphs) /\ Len(Last(page')) = 0
<1>1. /\ cursor' = 0 /\ screen_x' = 0 /\ screen_y' = 0 /\ page' = << <<>> >>
      /\ video_mem' = [n \in Cells |-> IF n \in OnScreen THEN BLANK ELSE video_mem[n]]
      /\ video_mem \in Memories
  BY DEF CleanScreen, Wide
<1>2. video_mem' \in Memories /\ Shows(video_mem', << <<>> >>)
  BY <1>1, NoCell
<1>3. /\ << <<>> >> \in Texts /\ Len(<< <<>> >>) = 1 /\ Last(<< <<>> >>) = <<>>
      /\ <<>> \in Seq(Glyphs) /\ Len(<<>>) = 0
  BY DEF Texts, Last
<1>4. 0 \in Columns /\ 0 \in Rows /\ At(0, 0) = 0
  BY DEF Columns, Rows, At
<1>5. 0 \in OnScreen
  BY <1>4, CellOf
<1> QED
  BY <1>1, <1>2, <1>3, <1>4, <1>5

LEMMA WideClean ==
    ASSUME Wide, CleanScreen
    PROVE  Wide'
<1>1. UNCHANGED <<pc, c>> /\ disturbed' \in {"never", "before", "now"}
  BY DEF CleanScreen
<1>2. /\ video_mem' \in Memories /\ screen_x' = 0 /\ screen_y' = 0
      /\ cursor' = 0 /\ At(0, 0) = 0
      /\ page' \in Texts /\ Len(page') = 1 /\ Len(Last(page')) = 0
  BY Cleaned
<1>3. /\ cursor' = At(screen_y', screen_x')
      /\ screen_x' \in Nat /\ screen_y' \in Nat /\ screen_x' <= NUM_COLS - 1
  BY <1>2
<1>4. Fits(page') /\ Len(Last(page')) < NUM_COLS
  BY <1>2 DEF Fits
<1> QED
  BY <1>1, <1>2, <1>3, <1>4, WideHandler

LEMMA WideStays == Wide /\ [Next]_vars => Wide'
<1> SUFFICES ASSUME Wide, [Next]_vars
             PROVE  Wide'
  OBVIOUS
<1>1. /\ page \in Texts /\ Fits(page) /\ Len(Last(page)) < NUM_COLS
      /\ c \in [Contexts -> Glyphs]
  BY DEF Wide
<1>2. ASSUME NEW k \in Contexts, NEW char \in Chars, Putc(k, char)
      PROVE  Wide'
  <2>1. /\ Idle(k) /\ Draws(k) /\ pc' = [pc EXCEPT ![k] = "cell"]
        /\ c' = [c EXCEPT ![k] = char] /\ page' = Printed(page, char)
        /\ UNCHANGED <<video_mem, position, cursor>>
    BY <1>2 DEF Putc, MayStart
  <2>2. char \in Glyphs /\ "cell" \in Places
    BY DEF Glyphs, Places
  <2>3. page' \in Texts /\ Fits(page') /\ Len(Last(page')) < NUM_COLS
    BY <1>1, <2>1, <2>2, PrintedFits
  <2>4. c' \in [Contexts -> Glyphs]
    BY <1>1, <2>1, <2>2
  <2> QED
    BY <2>1, <2>2, <2>3, <2>4, WideStarts
<1>3. CASE NewLine
  <2>1. /\ Idle("process") /\ Draws("process")
        /\ pc' = [pc EXCEPT !["process"] = "bottom"]
        /\ c' = c /\ page' = NextLine(page)
        /\ UNCHANGED <<video_mem, position, cursor>>
    BY <1>3 DEF NewLine, MayStart
  <2>2. "process" \in Contexts /\ "bottom" \in Places
    BY DEF Contexts, Places
  <2>3. page' \in Texts /\ Fits(page') /\ Last(page') = <<>> /\ Len(<<>>) = 0
    BY <1>1, <2>1, NextLineFits
  <2>4. Len(Last(page')) < NUM_COLS
    BY <2>3
  <2> QED
    BY <1>1, <2>1, <2>2, <2>3, <2>4, WideStarts
<1>4. ASSUME NEW k \in Contexts, Statement(k)
      PROVE  Wide'
  BY <1>4, WideStatement
<1>5. CASE Backspace
  BY <1>5, WideBackspace
<1>6. CASE CleanScreen
  BY <1>6, WideClean
<1>7. CASE UNCHANGED vars
  BY <1>7 DEF vars, position, Wide, Ahead, Fits
<1> QED
  BY <1>2, <1>3, <1>4, <1>5, <1>6, <1>7 DEF Next

\* Between two calls clean_screen puts text, position and memory in order.
LEMMA CleanScreenMends ==
    ASSUME Wide, Idle("process"), CleanScreen
    PROVE  Ordered'
<1>1. UNCHANGED <<pc, c>> /\ pc["handler"] = "idle" /\ pc["process"] = "idle"
  BY DEF CleanScreen, MayStart, Idle
<1>2. pc' \in [Contexts -> Places] /\ c' \in [Contexts -> Glyphs]
  BY <1>1 DEF Wide
<1>3. pc'[Active'] = "idle" /\ c'[Active'] \in Glyphs
  <2>1. Active' \in Contexts /\ pc'[Active'] = "idle"
    BY <1>1 DEF Active, Contexts
  <2> QED
    BY <1>2, <2>1
<1>4. /\ video_mem' \in Memories /\ Shows(video_mem', page')
      /\ screen_x' = 0 /\ screen_y' = 0 /\ 0 \in Columns /\ 0 \in Rows
      /\ cursor' = At(screen_y', screen_x') /\ cursor' \in OnScreen
      /\ page' \in Texts /\ Len(page') = 1 /\ Last(page') = <<>>
      /\ Last(page') \in Seq(Glyphs) /\ Len(Last(page')) = 0
  BY Cleaned
<1>5. Typed(c'[Active'], video_mem', screen_x', screen_y', page')
  BY <1>3, <1>4 DEF Typed, Fits
<1>6. Printing(pc'[Active'], c'[Active'], video_mem', screen_x', screen_y', page')
  BY <1>3, <1>4 DEF Printing
<1>7. OneAtATime'
  BY <1>1 DEF OneAtATime, Idle
<1>8. CursorFollows'
  BY <1>4 DEF CursorFollows
<1> QED
  BY <1>2, <1>4, <1>5, <1>6, <1>7, <1>8 DEF Ordered

-----------------------------------------------------------------------------
(* What holds of the screen                                                *)

BehindBlank == disturbed = "never" => \A n \in Cells \ OnScreen : video_mem[n] = BLANK

(***************************************************************************)
(* The inductive invariant.  What is Ordered is lost when a key draws amid *)
(* output and comes back with CleanScreen, which needs only what is Wide.  *)
(***************************************************************************)
IInv == Wide /\ BehindBlank /\ (disturbed # "now" => Ordered)

LEMMA Start == Init => IInv
<1> SUFFICES ASSUME Init
             PROVE  IInv
  OBVIOUS
<1>1. /\ video_mem = [n \in Cells |-> BLANK] /\ screen_x = 0 /\ screen_y = 0 /\ cursor = 0
      /\ pc = [k \in Contexts |-> "idle"] /\ c = [k \in Contexts |-> BLANK]
      /\ page = << <<>> >> /\ disturbed = "never"
  BY DEF Init
<1>2. /\ Active \in Contexts /\ BLANK \in Glyphs /\ "idle" \in Places
      /\ 0 \in Rows /\ 0 \in Columns
  BY DEF Active, Contexts, Glyphs, Places, Rows, Columns
<1>3. At(0, 0) = 0 /\ 0 \in OnScreen
  <2>1. At(0, 0) = 0
    BY DEF At
  <2> QED
    BY <1>2, <2>1, CellOf
<1>4. /\ << <<>> >> \in Texts /\ Len(<< <<>> >>) = 1 /\ Last(<< <<>> >>) = <<>>
      /\ <<>> \in Seq(Glyphs) /\ Len(<<>>) = 0
  BY DEF Texts, Last
<1>5. \A y \in Rows, x \in Columns : CharAt(<< <<>> >>, y, x) = BLANK
  BY DEF CharAt, Rows, Columns
<1>6. video_mem \in Memories /\ Shows(video_mem, page)
  BY <1>1, <1>2, <1>5, CellOf DEF Memories, Shows, Rows, Columns
<1>7. Typed(c[Active], video_mem, screen_x, screen_y, page)
  BY <1>1, <1>2, <1>4, <1>6 DEF Typed, Fits
<1>8. Printing(pc[Active], c[Active], video_mem, screen_x, screen_y, page)
  BY <1>1, <1>2, <1>4, <1>6 DEF Printing
<1>9. OneAtATime /\ CursorFollows
  BY <1>1, <1>3 DEF OneAtATime, CursorFollows, Idle, Contexts
<1>10. pc \in [Contexts -> Places] /\ c \in [Contexts -> Glyphs]
  BY <1>1, <1>2
<1>11. Ordered
  BY <1>1, <1>3, <1>7, <1>8, <1>9, <1>10 DEF Ordered
<1>12. Ahead("process") = 0 /\ Ahead("handler") = 0
  BY <1>1 DEF Ahead, Contexts
<1>13. Wide
  BY <1>1, <1>4, <1>6, <1>10, <1>12 DEF Wide, Fits
<1>14. BehindBlank
  BY <1>1 DEF BehindBlank
<1> QED
  BY <1>11, <1>13, <1>14 DEF IInv

\* While nothing is disturbed every write goes to the screen.
LEMMA NothingBehind ==
    ASSUME IInv, [Next]_vars
    PROVE  BehindBlank'
<1> SUFFICES ASSUME disturbed' = "never", NEW n \in Cells \ OnScreen
             PROVE  video_mem'[n] = BLANK
  BY DEF BehindBlank
<1>1. disturbed = "never"
  BY DEF Next, Putc, NewLine, Draws, Statement, Go, WriteCell, TestEdge, PlusX, ModX,
         ModY, TestBottom, ZeroX, PlusY, Scroll, Scrolled, UpdateCursor, Backspace,
         CleanScreen, vars
<1>2. /\ video_mem[n] = BLANK /\ video_mem \in [Cells -> Glyphs]
      /\ screen_x \in Columns /\ screen_y \in Rows
  BY <1>1 DEF IInv, BehindBlank, Ordered, Typed, Memories
<1>3. screen_x \in 0 .. NUM_COLS - 1 /\ screen_y \in 0 .. NUM_ROWS - 1
  BY <1>2 DEF Columns, Rows
<1>4. ASSUME NEW k \in Contexts, WriteCell(k)
      PROVE  video_mem'[n] = BLANK
  <2>1. At(screen_y, screen_x) \in OnScreen
    BY <1>2, CellOf
  <2>2. video_mem' = [video_mem EXCEPT ![At(screen_y, screen_x)] = c[k]]
    BY <1>4 DEF WriteCell
  <2> QED
    BY <1>2, <2>1, <2>2
<1>5. ASSUME NEW k \in Contexts, Scroll(k)
      PROVE  video_mem'[n] = BLANK
  <2>1. ~(n < At(NUM_ROWS - 1, 0))
    BY Behind
  <2>2. video_mem' = [i \in Cells |->
                        IF i < At(NUM_ROWS - 1, 0) THEN video_mem[i + NUM_COLS]
                        ELSE IF i \in OnScreen THEN BLANK ELSE video_mem[i]]
    BY <1>5 DEF Scroll
  <2> QED
    BY <1>2, <2>1, <2>2
<1>6. CASE Backspace
  <2>1. CASE screen_x = 0 /\ screen_y = 0
    BY <1>2, <1>6, <2>1 DEF Backspace
  <2>2. CASE ~(screen_x = 0 /\ screen_y = 0)
    <3>1. video_mem' = [video_mem EXCEPT ![At(screen_y, screen_x) - 1] = BLANK]
      BY <1>6, <2>2 DEF Backspace
    <3>2. At(screen_y, screen_x) - 1 \in OnScreen
      <4>1. CASE screen_x # 0
        <5>1. screen_x - 1 \in Columns
          BY <1>3, <4>1 DEF Columns
        <5>2. At(screen_y, screen_x) - 1 = At(screen_y, screen_x - 1)
          BY <1>3 DEF At
        <5> QED
          BY <1>2, <5>1, <5>2, CellOf
      <4>2. CASE screen_x = 0
        <5>1. NUM_COLS - 1 \in Columns /\ screen_y - 1 \in Rows
          BY <1>3, <2>2, <4>2 DEF Columns, Rows
        <5>2. At(screen_y, screen_x) - 1 = At(screen_y - 1, NUM_COLS - 1)
          BY <1>3, <4>2 DEF At
        <5> QED
          BY <5>1, <5>2, CellOf
      <4> QED
        BY <4>1, <4>2
    <3> QED
      BY <1>2, <3>1, <3>2
  <2> QED
    BY <2>1, <2>2
<1>7. CASE CleanScreen
  BY <1>2, <1>7 DEF CleanScreen
<1>8. CASE UNCHANGED video_mem
  BY <1>2, <1>8
<1> QED
  BY <1>4, <1>5, <1>6, <1>7, <1>8
     DEF Next, Putc, NewLine, Statement, TestEdge, PlusX, ModX, ModY, TestBottom,
         ZeroX, PlusY, Scrolled, UpdateCursor, vars

LEMMA Stuttering == Ordered /\ UNCHANGED vars => Ordered'
<1> SUFFICES ASSUME Ordered, UNCHANGED vars
             PROVE  Ordered'
  OBVIOUS
<1>1. Active' = Active /\ OneAtATime' = OneAtATime /\ CursorFollows' = CursorFollows
  BY DEF vars, position, Active, OneAtATime, CursorFollows, Idle
<1> QED
  BY <1>1 DEF Ordered, vars, position

LEMMA EachStep == IInv /\ [Next]_vars => IInv'
<1> SUFFICES ASSUME IInv, [Next]_vars
             PROVE  IInv'
  OBVIOUS
<1>1. Wide /\ BehindBlank /\ (disturbed # "now" => Ordered)
  BY DEF IInv
<1>2. Wide' /\ BehindBlank'
  BY <1>1, WideStays, NothingBehind
<1>3. ASSUME disturbed' # "now"
      PROVE  Ordered'
  <2>1. ASSUME NEW k \in Contexts, NEW char \in Chars, Putc(k, char)
        PROVE  Ordered'
    <3>1. disturbed # "now" /\ Idle("process")
      BY <1>3, <2>1 DEF Putc, Draws, MayStart, Contexts
    <3> QED
      BY <1>1, <2>1, <3>1, PutcKeeps
  <2>2. CASE NewLine
    <3>1. disturbed # "now" /\ Idle("process")
      BY <1>3, <2>2 DEF NewLine, Draws, MayStart
    <3> QED
      BY <1>1, <2>2, <3>1, NewLineKeeps
  <2>3. ASSUME NEW k \in Contexts, Statement(k)
        PROVE  Ordered'
    <3>1. disturbed # "now"
      BY <1>3, <2>3
         DEF Statement, Go, WriteCell, TestEdge, PlusX, ModX, ModY, TestBottom, ZeroX,
             PlusY, Scroll, Scrolled, UpdateCursor
    <3> QED
      BY <1>1, <2>3, <3>1, StatementKeeps
  <2>4. CASE Backspace
    <3>1. disturbed # "now" /\ Idle("process")
      BY <1>3, <2>4 DEF Backspace, Draws
    <3> QED
      BY <1>1, <2>4, <3>1, BackspaceKeeps
  <2>5. CASE CleanScreen
    <3>1. Idle("process")
      BY <1>3, <2>5 DEF CleanScreen
    <3> QED
      BY <1>1, <2>5, <3>1, CleanScreenMends
  <2>6. CASE UNCHANGED vars
    <3>1. disturbed # "now"
      BY <1>3, <2>6 DEF vars
    <3> QED
      BY <1>1, <2>6, <3>1, Stuttering
  <2> QED
    BY <2>1, <2>2, <2>3, <2>4, <2>5, <2>6 DEF Next
<1> QED
  BY <1>2, <1>3 DEF IInv

LEMMA Always == Spec => []IInv
  BY Start, EachStep, PTL DEF Spec

\* What the lines say of a place is what Shown says.
LEMMA Reads == IInv => ShowsText
<1> SUFFICES ASSUME IInv, \A k \in Contexts : Idle(k)
             PROVE  /\ disturbed # "now" =>
                         /\ \A y \in 0 .. NUM_ROWS - 1, x \in 0 .. NUM_COLS - 1 :
                               video_mem[At(y, x)] = Shown(y, x)
                         /\ screen_y = Len(page) - 1 /\ screen_x = Len(Last(page))
                         /\ cursor = At(screen_y, screen_x)
                    /\ BehindBlank
  BY DEF ShowsText, BehindBlank
<1>1. SUFFICES ASSUME disturbed # "now"
               PROVE  /\ \A y \in 0 .. NUM_ROWS - 1, x \in 0 .. NUM_COLS - 1 :
                            video_mem[At(y, x)] = Shown(y, x)
                      /\ screen_y = Len(page) - 1 /\ screen_x = Len(Last(page))
                      /\ cursor = At(screen_y, screen_x)
  BY DEF IInv
<1>2. /\ Printing(pc[Active], c[Active], video_mem, screen_x, screen_y, page)
      /\ cursor = At(screen_y, screen_x)
  BY <1>1 DEF IInv, Ordered, CursorFollows
<1>3. pc[Active] = "idle"
  BY DEF Active, Contexts, Idle
<1>4. /\ Shows(video_mem, page)
      /\ screen_y = Len(page) - 1 /\ screen_x = Len(Last(page))
  BY <1>2, <1>3 DEF Printing
<1> QED
  BY <1>2, <1>4 DEF Shows, Shown, CharAt

(***************************************************************************)
(* Whenever keys are handled, the column stays within two of the row, and  *)
(* until one draws amid output of the process, and again after the next    *)
(* clean_screen between two calls, position and cursor are on the screen.  *)
(***************************************************************************)
THEOREM TypeCorrect == Spec => []TypeOK
<1>1. IInv => TypeOK
  <2> SUFFICES ASSUME IInv
               PROVE  TypeOK
    OBVIOUS
  <2>1. Wide /\ (disturbed # "now" => Ordered)
    BY DEF IInv
  <2>2. Ahead("process") \in {0, 1} /\ Ahead("handler") \in {0, 1}
    BY DEF Ahead
  <2>3. screen_x \in 0 .. NUM_COLS + 1
    BY <2>1, <2>2 DEF Wide
  <2>4. disturbed # "now" =>
          screen_x < NUM_COLS /\ screen_y < NUM_ROWS /\ cursor \in OnScreen
    BY <2>1 DEF Ordered, Typed, Columns, Rows
  <2> QED
    BY <2>1, <2>3, <2>4 DEF TypeOK, Wide, Memories, Glyphs, Texts, Fits
<1> QED
  BY <1>1, Always, PTL

(***************************************************************************)
(* Whenever putc, change_line and clean_screen are done, the screen shows  *)
(* the last lines of the text and the cursor stands behind them, unless    *)
(* since the last clean_screen between two calls a key has drawn amid      *)
(* output of the process.                                                  *)
(***************************************************************************)
THEOREM TextIsShown == Spec => []ShowsText
  BY Reads, Always, PTL
=============================================================================
