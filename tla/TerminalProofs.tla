--------------------------- MODULE TerminalProofs ---------------------------
(***************************************************************************)
(* What terminal_read hands over, whichever keys are handled between its   *)
(* accesses: nothing twice, nothing out of order, a line nobody disturbed  *)
(* complete, and one ENTER for each return.  For every size of the buffer, *)
(* of a line and of a tab, and any number of keys.                         *)
(***************************************************************************)
EXTENDS Terminal, SequenceTheorems, TLAPS

\* The first cell terminal_read has yet to copy; none is left at "reset".
First ==
    IF pc \in {"test", "copy"} THEN i
    ELSE IF pc = "wipe" THEN i + 1
    ELSE IF pc = "reset" THEN Limit + 1
    ELSE 0

\* The cells that a read, this one or the next, is still to hand over.
Waiting == {c \in Cells : First <= c /\ c < global_keyboard_index}

LoopBounds ==
    /\ pc \in {"wait", "clear", "length", "newline"} => i = 0 /\ byte_read = 0
    /\ pc = "test" => byte_read \in {i, i + 1}
    /\ pc = "copy" => i < Limit /\ byte_read \in {i, i + 1}
    /\ pc = "wipe" => i < Limit /\ byte_read \in {i + 1, i + 2}

FlagSeen == pc = "clear" => keyboard_flag = 1

\* A character tested for is there to be copied, or was erased since.
TestedOrErased ==
    pc = "copy" => i < global_keyboard_index \/ keyboard_buffer[i] = NUL

\* What waits was typed after all that was delivered, in the order it is in.
WaitingInOrder ==
    /\ \A c \in Waiting : keyboard_buffer[c] \in 1 .. typed
    /\ \A c, d \in Waiting : c < d => keyboard_buffer[c] < keyboard_buffer[d]
    /\ \A m \in DOMAIN delivered :
          /\ delivered[m] <= typed
          /\ \A c \in Waiting : delivered[m] < keyboard_buffer[c]

\* The line on the screen is the line in the buffer, where it still is.
LineInBuffer ==
    /\ Len(line) = global_keyboard_index
    /\ \A c \in Waiting : keyboard_buffer[c] = line[c + 1]

Newlines == IF global_keyboard_index = NUM_COLS THEN 0 ELSE 1

\* A read nobody disturbed has copied the line up to where it is.
CopiedSoFar ==
    ~disturbed =>
      /\ pc = "newline" => global_keyboard_index # NUM_COLS
      /\ pc \in {"test", "copy", "wipe", "reset"} =>
           LET copied == IF pc = "wipe" THEN i + 1 ELSE i
           IN  /\ copied <= global_keyboard_index
               /\ pc \in {"copy", "wipe"} => i < global_keyboard_index
               /\ pc = "reset" => i = global_keyboard_index
               /\ byte_read = copied + Newlines
               /\ \A c \in 0 .. copied - 1 : kb_buf[c] = line[c + 1]
               /\ Newlines = 1 => kb_buf[global_keyboard_index] = NEWLINE

Counts == TypeOK /\ LoopBounds /\ FlagSeen /\ EnterPerRead
Order == TestedOrErased /\ WaitingInOrder /\ DeliveredInOrder
IInv == Counts /\ Order /\ LineInBuffer /\ CopiedSoFar

USE SizeAssumption

-----------------------------------------------------------------------------
(* The line and what was delivered, as sequences                           *)

LEMMA FrontIs ==
    ASSUME NEW S, NEW s \in Seq(S), s # <<>>
    PROVE  /\ Front(s) \in Seq(S) /\ Len(Front(s)) = Len(s) - 1
           /\ \A k \in 1 .. Len(s) - 1 : Front(s)[k] = s[k]
<1>1. Len(s) \in Nat \ {0} /\ Len(s) - 1 \in Int /\ 1 \in Int
  BY EmptySeq, LenProperties
<1>2. \A k \in 1 .. Len(s) - 1 : s[k] \in S
  BY <1>1, ElementOfSeq
<1> DEFINE n == Len(s) - 1
<1>3. Front(s) = SubSeq(s, 1, n) /\ n \in Nat /\ n = Len(s) - 1
  BY <1>1 DEF Front
<1>4. \A k \in 1 .. n : s[k] \in S
  BY <1>2
<1> HIDE DEF n
<1>5. /\ SubSeq(s, 1, n) \in Seq(S)
      /\ Len(SubSeq(s, 1, n)) = IF 1 <= n THEN n - 1 + 1 ELSE 0
      /\ \A k \in 1 .. n - 1 + 1 : SubSeq(s, 1, n)[k] = s[1 + k - 1]
  BY <1>1, <1>3, <1>4, SubSeqProperties
<1>6. n - 1 + 1 = n /\ \A k \in 1 .. n : 1 + k - 1 = k
  BY <1>3
<1> QED
  BY <1>3, <1>5, <1>6

\* The characters of n keys, behind those typed before.
LEMMA NewCharacters ==
    ASSUME NEW n \in Nat, NEW t \in Nat, t + n <= MaxTyped
    PROVE  /\ [k \in 1 .. n |-> t + k] \in Seq(Typed)
           /\ Len([k \in 1 .. n |-> t + k]) = n
<1>1. [k \in 1 .. n |-> t + k] \in [1 .. n -> Typed]
  BY DEF Typed
<1>2. [k \in 1 .. n |-> t + k] \in Seq(Typed)
  BY <1>1, SeqDef
<1> QED
  BY <1>1, <1>2, LenProperties

\* What Put makes of the line.
LEMMA PutLine ==
    ASSUME TypeOK, NEW n \in Nat, Put(n)
    PROVE  /\ line' \in Seq(Typed) /\ Len(line') = Len(line) + n
           /\ \A k \in 1 .. Len(line) : line'[k] = line[k]
           /\ \A k \in Len(line) + 1 .. Len(line) + n :
                 line'[k] = typed + (k - Len(line))
<1> DEFINE new == [k \in 1 .. n |-> typed + k]
<1>1. typed \in Nat /\ typed + n <= MaxTyped /\ line \in Seq(Typed)
  BY DEF TypeOK, Put
<1>2. new \in Seq(Typed) /\ Len(new) = n
  BY <1>1, NewCharacters
<1>3. line' = line \o new
  BY DEF Put
<1>4. \A k \in 1 .. n : new[k] = typed + k
  OBVIOUS
<1>5. Len(line) \in Nat
  BY <1>1, LenProperties
<1> HIDE DEF new
<1>6. /\ line \o new \in Seq(Typed)
      /\ Len(line \o new) = Len(line) + n
      /\ \A k \in 1 .. Len(line) + n :
            (line \o new)[k] = IF k <= Len(line) THEN line[k] ELSE new[k - Len(line)]
  BY <1>1, <1>2, ConcatProperties
<1> QED
  BY <1>3, <1>4, <1>5, <1>6

-----------------------------------------------------------------------------
(* Types, bounds and the flag                                              *)

LEMMA InitInv == Init => IInv
<1> SUFFICES ASSUME Init PROVE IInv
  OBVIOUS
<1>1. line \in Seq(Typed) /\ delivered \in Seq(Typed) /\ Len(line) = 0
      /\ DOMAIN delivered = {}
  BY EmptySeq DEF Init
<1>2. disturbed \in BOOLEAN
  BY DEF Init
<1>3. Counts
  BY <1>1, <1>2 DEF Init, Counts, TypeOK, LoopBounds, FlagSeen, EnterPerRead,
     Positions, Cells, Limit
<1>4. Waiting = {}
  BY DEF Init, Waiting, First, Cells, Limit
<1>5. Order
  BY <1>1, <1>4 DEF Init, Order, TestedOrErased, WaitingInOrder, DeliveredInOrder
<1>6. LineInBuffer /\ CopiedSoFar
  BY <1>1, <1>4 DEF Init, LineInBuffer, CopiedSoFar
<1> QED
  BY <1>3, <1>5, <1>6 DEF IInv

LEMMA PutCounts ==
    ASSUME Counts, NEW n \in Nat \ {0}, Put(n), global_keyboard_index + n <= Limit
    PROVE  Counts'
<1> USE DEF Counts
<1>1. line' \in Seq(Typed)
  BY PutLine
<1>2. keyboard_buffer' \in [Cells -> Typed \cup {NUL}]
  <2>1. ASSUME NEW c \in Cells,
               c \in global_keyboard_index .. global_keyboard_index + n - 1
        PROVE  typed + 1 + (c - global_keyboard_index) \in Typed
    BY <2>1 DEF Put, TypeOK, Typed, Cells, Limit
  <2> QED
    BY <2>1 DEF Put, TypeOK
<1>3. disturbed' \in BOOLEAN
  BY DEF Put, Interrupt, TypeOK, Reading
<1>4. /\ UNCHANGED <<keyboard_flag, local, enters, reads, delivered>>
      /\ global_keyboard_index' = global_keyboard_index + n
      /\ typed' = typed + n /\ typed + n <= MaxTyped
  BY DEF Put
<1>5. TypeOK'
  BY <1>1, <1>2, <1>3, <1>4 DEF TypeOK, local, Limit
<1> QED
  BY <1>4, <1>5 DEF LoopBounds, FlagSeen, EnterPerRead, local

LEMMA CountsStep == Counts /\ [Next]_vars => Counts'
<1> SUFFICES ASSUME Counts, [Next]_vars PROVE Counts'
  OBVIOUS
<1> USE DEF Counts, LoopBounds, FlagSeen, EnterPerRead, Goto, Limit, Cells, Positions
<1>1. CASE KeyChar
  BY <1>1, PutCounts DEF KeyChar, TypeOK
<1>2. CASE KeyTab
  BY <1>2, PutCounts DEF KeyTab, TypeOK
<1>3. CASE KeyBackspace
  <2>1. line' \in Seq(Typed)
    BY <1>3, FrontIs, EmptySeq DEF KeyBackspace, TypeOK
  <2>2. keyboard_buffer' \in [Cells -> Typed \cup {NUL}]
    BY <1>3 DEF KeyBackspace, TypeOK
  <2>3. disturbed' \in BOOLEAN
    BY <1>3 DEF KeyBackspace, Interrupt, TypeOK, Reading
  <2>4. TypeOK'
    BY <1>3, <2>1, <2>2, <2>3 DEF KeyBackspace, TypeOK, local
  <2> QED
    BY <1>3, <2>4 DEF KeyBackspace, local
<1>4. CASE KeyEnter
  <2>1. disturbed' \in BOOLEAN
    BY <1>4 DEF KeyEnter, Interrupt, TypeOK, Reading
  <2>2. TypeOK'
    BY <1>4, <2>1 DEF KeyEnter, TypeOK, local
  <2> QED
    BY <1>4, <2>2 DEF KeyEnter, local, TypeOK
<1>5. CASE ReadStart
  <2>1. disturbed' \in BOOLEAN
    BY <1>5 DEF ReadStart
  <2> QED
    BY <1>5, <2>1 DEF ReadStart, shared, TypeOK
<1>6. CASE ReadWait
  BY <1>6 DEF ReadWait, shared, history, TypeOK
<1>7. CASE ReadClear
  BY <1>7 DEF ReadClear, history, TypeOK
<1>8. CASE ReadLength
  BY <1>8 DEF ReadLength, shared, history, TypeOK
<1>9. CASE ReadNewline
  BY <1>9 DEF ReadNewline, shared, history, TypeOK
<1>10. CASE ReadTest
  BY <1>10 DEF ReadTest, shared, history, TypeOK
<1>11. CASE ReadCopy
  <2>1. keyboard_buffer[i] \in Typed \cup {NUL}
    BY DEF TypeOK
  <2>2. delivered' \in Seq(Typed)
    BY <1>11, <2>1 DEF ReadCopy, TypeOK
  <2>3. kb_buf' \in [Cells -> Typed \cup {NUL, NEWLINE, STALE}]
    BY <1>11, <2>1 DEF ReadCopy, TypeOK
  <2>4. TypeOK'
    BY <1>11, <2>2, <2>3 DEF ReadCopy, shared, TypeOK
  <2> QED
    BY <1>11, <2>4 DEF ReadCopy, shared, TypeOK
<1>12. CASE ReadWipe
  BY <1>12 DEF ReadWipe, history, TypeOK
<1>13. CASE ReadReturn
  <2>1. line' \in Seq(Typed)
    BY <1>13, EmptySeq DEF ReadReturn
  <2> QED
    BY <1>13, <2>1 DEF ReadReturn, TypeOK
<1>14. CASE UNCHANGED vars
  BY <1>14 DEF vars, shared, local, history, TypeOK
<1> QED
  BY <1>1, <1>2, <1>3, <1>4, <1>5, <1>6, <1>7, <1>8, <1>9, <1>10, <1>11, <1>12,
     <1>13, <1>14 DEF Next, Keyboard, Reader

-----------------------------------------------------------------------------
(* The order of what is delivered                                          *)

\* What Put makes of a cell that waits: it is as before, or one of the new.
LEMMA PutCells ==
    ASSUME Counts, NEW n \in Nat \ {0}, Put(n), global_keyboard_index + n <= Limit
    PROVE  /\ First' = First
           /\ \A c \in Waiting' :
                \/ /\ c \in Waiting /\ c < global_keyboard_index
                   /\ keyboard_buffer'[c] = keyboard_buffer[c]
                \/ /\ c >= global_keyboard_index /\ c < global_keyboard_index + n
                   /\ keyboard_buffer'[c] = typed + 1 + (c - global_keyboard_index)
<1>1. /\ UNCHANGED local /\ global_keyboard_index' = global_keyboard_index + n
      /\ keyboard_buffer' =
           [c \in Cells |->
              IF c \in global_keyboard_index .. global_keyboard_index + n - 1
              THEN typed + 1 + (c - global_keyboard_index)
              ELSE keyboard_buffer[c]]
  BY DEF Put
<1>2. First' = First
  BY <1>1 DEF First, local
<1>3. global_keyboard_index \in Int
  BY DEF Counts, TypeOK, Limit
<1>4. ASSUME NEW c \in Waiting'
      PROVE  \/ /\ c \in Waiting /\ c < global_keyboard_index
                /\ keyboard_buffer'[c] = keyboard_buffer[c]
             \/ /\ c >= global_keyboard_index /\ c < global_keyboard_index + n
                /\ keyboard_buffer'[c] = typed + 1 + (c - global_keyboard_index)
  <2>1. /\ c \in Cells /\ c \in Int
        /\ First <= c /\ c < global_keyboard_index + n
    BY <1>1, <1>2 DEF Waiting, Cells, Limit
  <2>2. CASE c < global_keyboard_index
    BY <1>1, <1>3, <2>1, <2>2 DEF Waiting
  <2>3. CASE c >= global_keyboard_index
    BY <1>1, <1>3, <2>1, <2>3
  <2> QED
    BY <1>3, <2>1, <2>2, <2>3
<1> QED
  BY <1>2, <1>4

LEMMA PutOrder ==
    ASSUME Counts, Order, NEW n \in Nat \ {0}, Put(n),
           global_keyboard_index + n <= Limit
    PROVE  Order'
<1> USE DEF Order
<1>1. /\ UNCHANGED <<local, delivered>> /\ typed' = typed + n
      /\ typed \in Nat /\ global_keyboard_index \in Nat
      /\ global_keyboard_index' = global_keyboard_index + n
  BY DEF Put, Counts, TypeOK, Limit
<1>2. \A c \in Waiting' :
         \/ /\ c \in Waiting /\ c < global_keyboard_index
            /\ keyboard_buffer'[c] = keyboard_buffer[c]
         \/ /\ c >= global_keyboard_index /\ c < global_keyboard_index + n
            /\ keyboard_buffer'[c] = typed + 1 + (c - global_keyboard_index)
  BY PutCells
<1>3. \A c \in Waiting' : c \in Int
  BY DEF Waiting, Cells, Limit
<1>4. \A c \in Waiting' : keyboard_buffer'[c] \in 1 .. typed'
  BY <1>1, <1>2, <1>3 DEF WaitingInOrder
<1>5. \A c, d \in Waiting' : c < d => keyboard_buffer'[c] < keyboard_buffer'[d]
  BY <1>1, <1>2, <1>3 DEF WaitingInOrder
<1>6. ASSUME NEW m \in DOMAIN delivered
      PROVE  /\ delivered[m] <= typed'
             /\ \A c \in Waiting' : delivered[m] < keyboard_buffer'[c]
  <2>1. delivered[m] \in Int
    BY DEF Counts, TypeOK, Typed
  <2> QED
    BY <1>1, <1>2, <1>3, <2>1 DEF WaitingInOrder
<1>7. TestedOrErased'
  <2> SUFFICES ASSUME pc = "copy", ~(i < global_keyboard_index + n)
               PROVE  keyboard_buffer'[i] = NUL
    BY <1>1 DEF TestedOrErased, local
  <2>1. i \in Cells /\ i \in Int /\ ~(i < global_keyboard_index)
    BY <1>1 DEF Counts, TypeOK, Limit, Cells
  <2>2. i \notin global_keyboard_index .. global_keyboard_index + n - 1
    BY <1>1, <2>1
  <2> QED
    BY <2>1, <2>2 DEF Put, TestedOrErased
<1> QED
  BY <1>1, <1>4, <1>5, <1>6, <1>7 DEF WaitingInOrder, DeliveredInOrder

\* A step that types and delivers nothing, and whose cells that still wait
\* are as they were.
LEMMA QuietOrder ==
    ASSUME Order, UNCHANGED <<typed, delivered>>,
           Waiting' \subseteq Waiting,
           \A c \in Waiting' : keyboard_buffer'[c] = keyboard_buffer[c],
           TestedOrErased'
    PROVE  Order'
  BY DEF Order, WaitingInOrder, DeliveredInOrder

LEMMA OrderStep == Counts /\ Order /\ [Next]_vars => Order'
<1> SUFFICES ASSUME Counts, Order, [Next]_vars PROVE Order'
  OBVIOUS
<1> USE DEF Limit, Cells, Goto
<1>1. CASE KeyChar
  BY <1>1, PutOrder DEF KeyChar, Counts, TypeOK
<1>2. CASE KeyTab
  BY <1>2, PutOrder DEF KeyTab, Counts, TypeOK
<1>3. CASE KeyBackspace
  <2>1. /\ UNCHANGED <<pc, i, typed, delivered>>
        /\ global_keyboard_index' = global_keyboard_index - 1
        /\ keyboard_buffer' = [keyboard_buffer EXCEPT
                                 ![global_keyboard_index - 1] = NUL]
    BY <1>3 DEF KeyBackspace, local
  <2>2. /\ global_keyboard_index \in Nat /\ keyboard_buffer \in [Cells -> Typed \cup {NUL}]
        /\ i \in Cells
    BY DEF Counts, TypeOK
  <2>3. First' = First
    BY <2>1 DEF First
  <2>4. Waiting' \subseteq Waiting
    BY <2>1, <2>2, <2>3 DEF Waiting
  <2>5. ASSUME NEW c \in Waiting' PROVE keyboard_buffer'[c] = keyboard_buffer[c]
    <3>1. c \in Cells /\ c < global_keyboard_index - 1
      BY <2>1 DEF Waiting
    <3> QED
      BY <2>1, <2>2, <3>1
  <2>6. TestedOrErased'
    <3> SUFFICES ASSUME pc = "copy", ~(i < global_keyboard_index - 1)
                 PROVE  keyboard_buffer'[i] = NUL
      BY <2>1 DEF TestedOrErased
    <3>1. i < global_keyboard_index \/ keyboard_buffer[i] = NUL
      BY DEF Order, TestedOrErased
    <3>2. i = global_keyboard_index - 1 \/ keyboard_buffer[i] = NUL
      BY <2>2, <3>1
    <3> QED
      BY <2>1, <2>2, <3>2
  <2> QED
    BY <2>1, <2>4, <2>5, <2>6, QuietOrder
<1>4. CASE KeyEnter
  <2>1. Waiting' = Waiting /\ TestedOrErased'
    BY <1>4 DEF KeyEnter, local, Waiting, First, Order, TestedOrErased
  <2> QED
    BY <1>4, <2>1, QuietOrder DEF KeyEnter
<1>5. CASE ReadStart
  <2>1. Waiting' = Waiting /\ TestedOrErased'
    BY <1>5 DEF ReadStart, shared, Waiting, First, TestedOrErased
  <2> QED
    BY <1>5, <2>1, QuietOrder DEF ReadStart, shared
<1>6. CASE ReadWait \/ ReadClear \/ ReadNewline
  <2>1. i = 0 \/ ~ReadNewline
    BY DEF Counts, LoopBounds, ReadNewline
  <2>2. Waiting' = Waiting /\ TestedOrErased'
    BY <1>6, <2>1 DEF ReadWait, ReadClear, ReadNewline, shared, Waiting, First, TestedOrErased
  <2> QED
    BY <1>6, <2>2, QuietOrder DEF ReadWait, ReadClear, ReadNewline, shared, history
<1>7. CASE ReadLength
  <2>1. i = 0
    BY <1>7 DEF Counts, LoopBounds, ReadLength
  <2>2. Waiting' = Waiting /\ TestedOrErased'
    BY <1>7, <2>1 DEF ReadLength, shared, Waiting, First, TestedOrErased
  <2> QED
    BY <1>7, <2>2, QuietOrder DEF ReadLength, shared, history
<1>8. CASE ReadTest
  <2>1. Waiting' \subseteq Waiting /\ TestedOrErased'
    <3>1. CASE i < global_keyboard_index
      BY <1>8, <3>1 DEF ReadTest, shared, Waiting, First, TestedOrErased
    <3>2. CASE ~(i < global_keyboard_index)
      BY <1>8, <3>2 DEF ReadTest, shared, Waiting, First, TestedOrErased, Counts, TypeOK
    <3> QED
      BY <3>1, <3>2
  <2> QED
    BY <1>8, <2>1, QuietOrder DEF ReadTest, shared, history
<1>9. CASE ReadCopy
  <2>1. /\ UNCHANGED <<keyboard_buffer, global_keyboard_index, typed, i>>
        /\ pc = "copy" /\ pc' = "wipe" /\ i \in Cells /\ i \in Nat
        /\ delivered \in Seq(Typed)
    BY <1>9 DEF ReadCopy, shared, Counts, TypeOK
  <2>2. Waiting' = Waiting \ {i}
    BY <2>1 DEF Waiting, First
  <2>3. TestedOrErased'
    BY <2>1 DEF TestedOrErased
  <2>4. CASE keyboard_buffer[i] = NUL
    BY <1>9, <2>1, <2>2, <2>3, <2>4, QuietOrder DEF ReadCopy
  <2>5. CASE keyboard_buffer[i] # NUL
    <3>1. i \in Waiting
      BY <2>1, <2>5 DEF Order, TestedOrErased, Waiting, First
    <3>2. keyboard_buffer[i] \in 1 .. typed
      BY <3>1 DEF Order, WaitingInOrder
    <3>3. delivered' = Append(delivered, keyboard_buffer[i]) /\ Len(delivered) \in Nat
      BY <1>9, <2>1, <2>5, LenProperties DEF ReadCopy
    <3>4. /\ DOMAIN delivered = 1 .. Len(delivered)
          /\ DOMAIN delivered' = 1 .. Len(delivered) + 1
          /\ \A m \in 1 .. Len(delivered) : delivered'[m] = delivered[m]
          /\ delivered'[Len(delivered) + 1] = keyboard_buffer[i]
      BY <2>1, <3>3
    <3>5. \A c \in Waiting' : i < c
      BY <2>1 DEF Waiting, First
    <3>6. \A m \in DOMAIN delivered' :
             /\ delivered'[m] <= typed'
             /\ \A c \in Waiting' : delivered'[m] < keyboard_buffer'[c]
      BY <2>1, <2>2, <3>1, <3>2, <3>3, <3>4, <3>5 DEF Order, WaitingInOrder
    <3>7. ASSUME NEW m \in DOMAIN delivered', NEW n \in DOMAIN delivered', m < n
          PROVE  delivered'[m] < delivered'[n]
      <4>1. CASE n = Len(delivered) + 1
        BY <3>1, <3>3, <3>4, <3>7, <4>1 DEF Order, WaitingInOrder
      <4>2. CASE n # Len(delivered) + 1
        BY <3>3, <3>4, <3>7, <4>2 DEF Order, DeliveredInOrder
      <4> QED
        BY <4>1, <4>2
    <3>8. WaitingInOrder'
      BY <2>1, <2>2, <3>6 DEF Order, WaitingInOrder
    <3> QED
      BY <2>3, <3>7, <3>8 DEF Order, DeliveredInOrder
  <2> QED
    BY <2>4, <2>5
<1>10. CASE ReadWipe
  <2>1. /\ UNCHANGED <<global_keyboard_index, typed, delivered>>
        /\ pc = "wipe" /\ pc' = "test" /\ i' = i + 1 /\ i \in Nat
        /\ keyboard_buffer' = [keyboard_buffer EXCEPT ![i] = NUL]
        /\ keyboard_buffer \in [Cells -> Typed \cup {NUL}]
    BY <1>10 DEF ReadWipe, history, Counts, TypeOK
  <2>2. Waiting' = Waiting /\ \A c \in Waiting : c \in Cells /\ c # i
    BY <2>1 DEF Waiting, First
  <2>3. TestedOrErased'
    BY <2>1 DEF TestedOrErased
  <2> QED
    BY <2>1, <2>2, <2>3, QuietOrder
<1>11. CASE ReadReturn
  <2>1. Waiting' = {} /\ TestedOrErased'
    BY <1>11 DEF ReadReturn, Waiting, First, TestedOrErased
  <2> QED
    BY <1>11, <2>1, QuietOrder DEF ReadReturn
<1>12. CASE UNCHANGED vars
  <2>1. Waiting' = Waiting /\ TestedOrErased'
    BY <1>12 DEF vars, shared, local, history, Waiting, First, Order, TestedOrErased
  <2> QED
    BY <1>12, <2>1, QuietOrder DEF vars, shared, history
<1> QED
  BY <1>1, <1>2, <1>3, <1>4, <1>5, <1>6, <1>7, <1>8, <1>9, <1>10, <1>11, <1>12
  DEF Next, Keyboard, Reader

-----------------------------------------------------------------------------
(* The line                                                                *)

Line == LineInBuffer /\ CopiedSoFar

\* A key disturbs whatever read has begun.
LEMMA KeyDisturbs ==
    ASSUME Interrupt, UNCHANGED pc
    PROVE  CopiedSoFar'
  BY DEF Interrupt, Reading, CopiedSoFar

LEMMA PutInBuffer ==
    ASSUME Counts, LineInBuffer, NEW n \in Nat \ {0}, Put(n),
           global_keyboard_index + n <= Limit
    PROVE  LineInBuffer'
<1>1. global_keyboard_index' = global_keyboard_index + n
      /\ global_keyboard_index \in Nat /\ Len(line) = global_keyboard_index
  BY DEF Put, Counts, TypeOK, Limit, LineInBuffer
<1>2. /\ Len(line') = Len(line) + n
      /\ \A k \in 1 .. Len(line) : line'[k] = line[k]
      /\ \A k \in Len(line) + 1 .. Len(line) + n :
            line'[k] = typed + (k - Len(line))
  BY PutLine DEF Counts
<1>3. ASSUME NEW c \in Waiting' PROVE keyboard_buffer'[c] = line'[c + 1]
  <2>1. c \in Nat /\ typed \in Nat
    BY DEF Waiting, Cells, Limit, Counts, TypeOK
  <2>2. CASE /\ c \in Waiting /\ c < global_keyboard_index
             /\ keyboard_buffer'[c] = keyboard_buffer[c]
    <3>1. c + 1 \in 1 .. Len(line)
      BY <1>1, <2>1, <2>2
    <3> QED
      BY <1>2, <2>2, <3>1 DEF LineInBuffer
  <2>3. CASE /\ c >= global_keyboard_index /\ c < global_keyboard_index + n
             /\ keyboard_buffer'[c] = typed + 1 + (c - global_keyboard_index)
    <3>1. c + 1 \in Len(line) + 1 .. Len(line) + n
      BY <1>1, <2>1, <2>3
    <3> QED
      BY <1>1, <1>2, <2>1, <2>3, <3>1
  <2> QED
    BY <2>2, <2>3, PutCells
<1> QED
  BY <1>1, <1>2, <1>3 DEF LineInBuffer

\* A step that leaves the line alone, and the cells that still wait.
LEMMA QuietInBuffer ==
    ASSUME LineInBuffer, UNCHANGED <<line, global_keyboard_index>>,
           Waiting' \subseteq Waiting,
           \A c \in Waiting' : keyboard_buffer'[c] = keyboard_buffer[c]
    PROVE  LineInBuffer'
  BY DEF LineInBuffer

LEMMA LineStep == Counts /\ Line /\ [Next]_vars => Line'
<1> SUFFICES ASSUME Counts, Line, [Next]_vars PROVE Line'
  OBVIOUS
<1> USE DEF Line, Limit, Cells, Goto
<1>1. CASE KeyChar
  <2>1. LineInBuffer'
    BY <1>1, PutInBuffer DEF KeyChar, Counts, TypeOK
  <2> QED
    BY <1>1, <2>1, KeyDisturbs DEF KeyChar, Put, local
<1>2. CASE KeyTab
  <2>1. LineInBuffer'
    BY <1>2, PutInBuffer DEF KeyTab, Counts, TypeOK
  <2> QED
    BY <1>2, <2>1, KeyDisturbs DEF KeyTab, Put, local
<1>3. CASE KeyBackspace
  <2>1. /\ UNCHANGED <<pc, i>> /\ global_keyboard_index \in Nat \ {0}
        /\ global_keyboard_index' = global_keyboard_index - 1
        /\ keyboard_buffer' = [keyboard_buffer EXCEPT
                                 ![global_keyboard_index - 1] = NUL]
        /\ keyboard_buffer \in [Cells -> Typed \cup {NUL}]
        /\ line \in Seq(Typed) /\ Len(line) = global_keyboard_index
    BY <1>3 DEF KeyBackspace, local, Counts, TypeOK, LineInBuffer
  <2>2. line # <<>>
    BY <2>1, EmptySeq
  <2>3. /\ line' = Front(line) /\ Len(line') = Len(line) - 1
        /\ \A k \in 1 .. Len(line) - 1 : line'[k] = line[k]
    BY <1>3, <2>1, <2>2, FrontIs DEF KeyBackspace
  <2>4. ASSUME NEW c \in Waiting' PROVE keyboard_buffer'[c] = line'[c + 1]
    <3>1. c \in Waiting /\ c \in Cells /\ c < global_keyboard_index - 1
      BY <2>1 DEF Waiting, First
    <3>2. c + 1 \in 1 .. Len(line) - 1
      BY <2>1, <3>1
    <3> QED
      BY <2>1, <2>3, <3>1, <3>2 DEF LineInBuffer
  <2>5. LineInBuffer'
    BY <2>1, <2>3, <2>4 DEF LineInBuffer
  <2> QED
    BY <1>3, <2>1, <2>5, KeyDisturbs DEF KeyBackspace
<1>4. CASE KeyEnter
  <2>1. Waiting' = Waiting
    BY <1>4 DEF KeyEnter, local, Waiting, First
  <2>2. LineInBuffer'
    BY <1>4, <2>1, QuietInBuffer DEF KeyEnter
  <2> QED
    BY <1>4, <2>2, KeyDisturbs DEF KeyEnter, local
<1>5. CASE ReadStart
  <2>1. Waiting' = Waiting
    BY <1>5 DEF ReadStart, shared, Waiting, First
  <2>2. LineInBuffer'
    BY <1>5, <2>1, QuietInBuffer DEF ReadStart, shared
  <2> QED
    BY <1>5, <2>2 DEF ReadStart, CopiedSoFar
<1>6. CASE ReadWait \/ ReadClear
  <2>1. Waiting' = Waiting
    BY <1>6 DEF ReadWait, ReadClear, shared, Waiting, First
  <2>2. LineInBuffer'
    BY <1>6, <2>1, QuietInBuffer DEF ReadWait, ReadClear, shared, history
  <2> QED
    BY <1>6, <2>2 DEF ReadWait, ReadClear, CopiedSoFar
<1>7. CASE ReadLength
  <2>1. i = 0 /\ byte_read = 0
    BY <1>7 DEF Counts, LoopBounds, ReadLength
  <2>2. Waiting' = Waiting
    BY <1>7, <2>1 DEF ReadLength, shared, Waiting, First
  <2>3. LineInBuffer'
    BY <1>7, <2>2, QuietInBuffer DEF ReadLength, shared, history
  <2>4. CopiedSoFar'
    BY <1>7, <2>1 DEF ReadLength, shared, history, CopiedSoFar, Newlines, Counts, TypeOK
  <2> QED
    BY <2>3, <2>4
<1>8. CASE ReadNewline
  <2>1. i = 0 /\ byte_read = 0
    BY <1>8 DEF Counts, LoopBounds, ReadNewline
  <2>2. Waiting' = Waiting
    BY <1>8, <2>1 DEF ReadNewline, shared, Waiting, First
  <2>3. LineInBuffer'
    BY <1>8, <2>2, QuietInBuffer DEF ReadNewline, shared, history
  <2>4. CopiedSoFar'
    BY <1>8, <2>1 DEF ReadNewline, shared, history, CopiedSoFar, Newlines, Counts, TypeOK
  <2> QED
    BY <2>3, <2>4
<1>9. CASE ReadTest
  <2>1. /\ UNCHANGED <<shared, i, byte_read, kb_buf, history>>
        /\ pc = "test"
        /\ pc' = IF i < global_keyboard_index THEN "copy" ELSE "reset"
        /\ i \in Nat /\ global_keyboard_index \in Nat
    BY <1>9 DEF ReadTest, Counts, TypeOK
  <2>2. Waiting' \subseteq Waiting
    BY <2>1 DEF Waiting, First, shared
  <2>3. LineInBuffer'
    BY <2>1, <2>2, QuietInBuffer DEF shared, history
  <2>4. CopiedSoFar'
    BY <2>1 DEF CopiedSoFar, shared, history, Newlines
  <2> QED
    BY <2>3, <2>4
<1>10. CASE ReadCopy
  <2>1. /\ UNCHANGED <<shared, i, line, disturbed>>
        /\ pc = "copy" /\ pc' = "wipe"
        /\ kb_buf' = [kb_buf EXCEPT ![i] = keyboard_buffer[i]]
        /\ byte_read' = byte_read + 1
        /\ i \in Cells /\ i \in Nat /\ byte_read \in Nat
        /\ kb_buf \in [Cells -> Typed \cup {NUL, NEWLINE, STALE}]
        /\ global_keyboard_index \in Cells
    BY <1>10 DEF ReadCopy, Counts, TypeOK
  <2>2. Waiting' \subseteq Waiting
    BY <2>1 DEF Waiting, First, shared
  <2>3. LineInBuffer'
    BY <2>1, <2>2, QuietInBuffer DEF shared
  <2>4. CopiedSoFar'
    <3> SUFFICES ASSUME ~disturbed
                 PROVE  /\ i + 1 <= global_keyboard_index
                        /\ byte_read' = i + 1 + Newlines
                        /\ \A c \in 0 .. i : kb_buf'[c] = line[c + 1]
                        /\ Newlines = 1 => kb_buf'[global_keyboard_index] = NEWLINE
      BY <2>1 DEF CopiedSoFar, shared, Newlines
    <3>1. /\ i < global_keyboard_index /\ byte_read = i + Newlines
          /\ \A c \in 0 .. i - 1 : kb_buf[c] = line[c + 1]
          /\ Newlines = 1 => kb_buf[global_keyboard_index] = NEWLINE
      BY <2>1 DEF CopiedSoFar
    <3>2. keyboard_buffer[i] = line[i + 1]
      BY <2>1, <3>1 DEF LineInBuffer, Waiting, First
    <3>3. \A c \in 0 .. i : kb_buf'[c] = line[c + 1]
      BY <2>1, <3>1, <3>2
    <3>4. kb_buf'[global_keyboard_index] = kb_buf[global_keyboard_index]
      BY <2>1, <3>1
    <3> QED
      BY <2>1, <3>1, <3>3, <3>4 DEF Newlines
  <2> QED
    BY <2>3, <2>4
<1>11. CASE ReadWipe
  <2>1. /\ UNCHANGED <<global_keyboard_index, byte_read, kb_buf, line, disturbed>>
        /\ pc = "wipe" /\ pc' = "test" /\ i' = i + 1 /\ i \in Nat
        /\ keyboard_buffer' = [keyboard_buffer EXCEPT ![i] = NUL]
        /\ keyboard_buffer \in [Cells -> Typed \cup {NUL}]
    BY <1>11 DEF ReadWipe, history, Counts, TypeOK
  <2>2. Waiting' = Waiting /\ \A c \in Waiting : c \in Cells /\ c # i
    BY <2>1 DEF Waiting, First
  <2>3. LineInBuffer'
    BY <2>1, <2>2, QuietInBuffer
  <2>4. CopiedSoFar'
    BY <2>1 DEF CopiedSoFar, Newlines
  <2> QED
    BY <2>3, <2>4
<1>12. CASE ReadReturn
  <2>1. Waiting' = {}
    BY <1>12 DEF ReadReturn, Waiting, First
  <2>2. LineInBuffer'
    BY <1>12, <2>1, EmptySeq DEF ReadReturn, LineInBuffer
  <2> QED
    BY <1>12, <2>2 DEF ReadReturn, CopiedSoFar
<1>13. CASE UNCHANGED vars
  <2>1. Waiting' = Waiting
    BY <1>13 DEF vars, shared, local, Waiting, First
  <2>2. LineInBuffer'
    BY <1>13, <2>1, QuietInBuffer DEF vars, shared, history
  <2> QED
    BY <1>13, <2>2 DEF vars, shared, local, history, CopiedSoFar, Newlines
<1> QED
  BY <1>1, <1>2, <1>3, <1>4, <1>5, <1>6, <1>7, <1>8, <1>9, <1>10, <1>11, <1>12,
     <1>13 DEF Next, Keyboard, Reader

-----------------------------------------------------------------------------
(* The properties                                                          *)

LEMMA Invariance == Spec => []IInv
<1>1. IInv /\ [Next]_vars => IInv'
  BY CountsStep, OrderStep, LineStep DEF IInv, Line
<1> QED
  BY <1>1, InitInv, PTL DEF Spec

(***************************************************************************)
(* The handler keeps to the keyboard buffer, a tab at its end included, and*)
(* terminal_read to the caller's, whatever arrives in between (keyboard.c).*)
(***************************************************************************)
THEOREM TypeCorrect == Spec => []TypeOK
<1>1. IInv => TypeOK
  BY DEF IInv, Counts
<1> QED
  BY <1>1, Invariance, PTL

(***************************************************************************)
(* No return of terminal_read without an ENTER of its own: the flag that   *)
(* one ENTER raises is taken down before the line is copied.               *)
(***************************************************************************)
THEOREM OneEnterPerRead == Spec => []EnterPerRead
<1>1. IInv => EnterPerRead
  BY DEF IInv, Counts
<1> QED
  BY <1>1, Invariance, PTL

(***************************************************************************)
(* No character is delivered twice and none before one typed earlier,      *)
(* however keys and the accesses of terminal_read interleave.              *)
(***************************************************************************)
THEOREM InOrder == Spec => []DeliveredInOrder
<1>1. IInv => DeliveredInOrder
  BY DEF IInv, Order
<1> QED
  BY <1>1, Invariance, PTL

(***************************************************************************)
(* A read that no key disturbed hands over the line on the screen, with    *)
(* its newline, whatever disturbed reads have left in the buffer before.   *)
(***************************************************************************)
THEOREM WholeLine == Spec => []CompleteLine
<1>1. IInv => CompleteLine
  <2> SUFFICES ASSUME IInv, pc = "reset", ~disturbed
               PROVE  LET n == Len(line)
                          newline == IF n = NUM_COLS THEN 0 ELSE 1
                      IN  /\ byte_read = n + newline
                          /\ \A k \in 1 .. n : kb_buf[k - 1] = line[k]
                          /\ newline = 1 => kb_buf[n] = NEWLINE
    BY DEF CompleteLine
  <2>1. Len(line) = global_keyboard_index /\ global_keyboard_index \in Nat
    BY DEF IInv, LineInBuffer, Counts, TypeOK, Limit
  <2>2. /\ i = global_keyboard_index /\ byte_read = i + Newlines
        /\ \A c \in 0 .. i - 1 : kb_buf[c] = line[c + 1]
        /\ Newlines = 1 => kb_buf[global_keyboard_index] = NEWLINE
    BY DEF IInv, CopiedSoFar
  <2>3. ASSUME NEW k \in 1 .. Len(line) PROVE kb_buf[k - 1] = line[k]
    <3>1. k - 1 \in 0 .. i - 1 /\ (k - 1) + 1 = k
      BY <2>1, <2>2
    <3> QED
      BY <2>2, <3>1
  <2> QED
    BY <2>1, <2>2, <2>3 DEF Newlines
<1> QED
  BY <1>1, Invariance, PTL
=============================================================================
