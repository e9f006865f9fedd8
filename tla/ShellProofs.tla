---------------------------- MODULE ShellProofs ----------------------------
(***************************************************************************)
(* From the line typed to the program and its argument, for every set of   *)
(* characters, every length of lines, names and arguments, and every       *)
(* directory: whatever longer lines and other programs left in the shell's *)
(* buffer and in args, a command whose line is fresh gets what was typed.  *)
(***************************************************************************)
EXTENDS Shell, SequenceTheorems, WellFoundedInduction, TLAPS

\* The line is at the front of the buffer, and nothing that was never written
\* to is more than NUL.
LineInPlace ==
    /\ line \in Lines /\ longest \in 0 .. LineMax
    /\ buf \in [Cells -> Characters \cup {NUL}]
    /\ \A k \in 1 .. Len(line) : buf[k - 1] = line[k]
    /\ buf[Len(line)] = NUL
    /\ \A c \in Cells : c > Len(line) /\ c > longest => buf[c] = NUL

\* What execute has put in args is there until the child ends.
ArgsOfChild ==
    pc = "child" =>
      /\ Executable(buf, TRUE) /\ args = NewArgs(Arg(buf))
      /\ got # NotAsked => \E n \in Counts :
            got = Asked(IF args[0] = NUL THEN NoArgument ELSE Handed(n), n)

\* The shell is back at once when execute refuses, with the buffer as it was.
RefusedByExecute ==
    pc = "read" /\ said = "no such command" =>
      \/ ~\E found \in BOOLEAN : Executable(buf, found)
      \/ Executable(buf, FALSE)

\* A line begins with nothing asked for.
AskedByChild == pc = "line" => got = NotAsked

IInv ==
    /\ TypeOK /\ LineInPlace /\ AskedByChild /\ ArgsOfChild /\ RefusedByExecute

-----------------------------------------------------------------------------
(* Scanning memory                                                         *)

LEMMA Least ==
    ASSUME NEW T \in SUBSET Nat, T # {}
    PROVE  \E x \in T : \A y \in T : x <= y
<1> DEFINE R == {ss \in Nat \X Nat : ss[1] < ss[2]}
<1>1. IsWellFoundedOn(R, Nat)
  BY NatLessThanWellFounded, Zenon DEF OpToRel
<1> HIDE DEF R
<1>2. PICK x \in T : \A y \in T : ~ (<<y, x>> \in R)
  BY <1>1, WFMin
<1>3. \A y \in T : <<y, x>> \in R <=> y < x
  BY DEF R
<1>4. \A y \in T : y \in Nat
  OBVIOUS
<1>5. ASSUME NEW y \in T
      PROVE  x <= y
  <2>1. x \in Nat /\ y \in Nat /\ ~(y < x)
    BY <1>2, <1>3, <1>4
  <2> QED
    BY <2>1
<1> QED
  BY <1>5

\* A scan ends where the first of the characters it stops at is.
LEMMA ScanEnds ==
    ASSUME NEW memory, NEW N \in Nat, DOMAIN memory = 0 .. N, NEW from \in Nat,
           NEW stops, NEW i \in from .. N, memory[i] \in stops
    PROVE  /\ EndOf(memory, from, stops) \in from .. i
           /\ memory[EndOf(memory, from, stops)] \in stops
           /\ \A j \in from .. EndOf(memory, from, stops) - 1 : memory[j] \notin stops
<1> DEFINE T == {k \in 0 .. N : k >= from /\ memory[k] \in stops}
<1>1. T \in SUBSET Nat
  OBVIOUS
<1>2. i \in T
  OBVIOUS
<1>3. PICK x \in T : \A y \in T : x <= y
  BY <1>1, <1>2, Least
<1>4. x \in 0 .. N /\ x >= from /\ memory[x] \in stops
  OBVIOUS
<1>5. ASSUME NEW j \in from .. x - 1
      PROVE  memory[j] \notin stops
  <2>1. j \in 0 .. N /\ j >= from /\ ~(x <= j)
    BY <1>4
  <2> QED
    BY <1>3, <2>1
<1> HIDE DEF T
<1> DEFINE Stop(k) == /\ k >= from /\ memory[k] \in stops
                      /\ \A j \in from .. k - 1 : memory[j] \notin stops
           e == CHOOSE k \in 0 .. N : Stop(k)
<1>6. Stop(x)
  BY <1>4, <1>5
<1>7. EndOf(memory, from, stops) = e
  BY DEF EndOf
<1> HIDE DEF Stop
<1>8. e \in 0 .. N /\ Stop(e)
  BY <1>4, <1>6
<1> HIDE DEF e
<1>9. /\ e >= from /\ memory[e] \in stops
      /\ \A j \in from .. e - 1 : memory[j] \notin stops
  BY <1>8 DEF Stop
<1>10. e <= i
  <2> SUFFICES ASSUME ~(e <= i) PROVE FALSE
    OBVIOUS
  <2>1. i \in from .. e - 1
    BY <1>8
  <2> QED
    BY <1>9, <2>1
<1> QED
  BY <1>7, <1>8, <1>9, <1>10

LEMMA ScanEndsAt ==
    ASSUME NEW memory, NEW N \in Nat, DOMAIN memory = 0 .. N, NEW from \in Nat,
           NEW stops, NEW i \in from .. N, memory[i] \in stops,
           \A j \in from .. i - 1 : memory[j] \notin stops
    PROVE  EndOf(memory, from, stops) = i
<1> DEFINE e == EndOf(memory, from, stops)
<1>1. e \in from .. i /\ memory[e] \in stops
  BY ScanEnds
<1> HIDE DEF e
<1>2. e < i => e \in from .. i - 1
  BY <1>1
<1>3. e = i
  BY <1>1, <1>2
<1> QED
  BY <1>3 DEF e

Reads(memory, from, m, t) == \A k \in 1 .. m : t[k] = memory[from + k - 1]

LEMMA BetweenIs ==
    ASSUME NEW memory, NEW from \in Nat, NEW m \in Nat,
           NEW t \in Seq(Characters), Len(t) = m, Reads(memory, from, m, t)
    PROVE  Between(memory, from, from + m) = t
<1>1. (from + m) - from = m
  OBVIOUS
<1>2. Between(memory, from, from + m) = [k \in 1 .. m |-> memory[from + k - 1]]
  BY <1>1, Zenon DEF Between
<1>3. t = [k \in 1 .. m |-> t[k]]
  BY LenProperties
<1> QED
  BY <1>2, <1>3 DEF Reads

-----------------------------------------------------------------------------
(* Characters and sizes                                                    *)

LEMMA Sizes ==
    /\ LineMax \in Nat /\ MAX_BUFFER_UPPER \in Nat /\ MAX_BUFFER_UPPER >= LineMax
    /\ SIZE_OF_NAME \in Nat /\ ARG_UPPER \in Nat
    /\ ARG_NUM \in Nat /\ ARG_NUM > ARG_UPPER + 1
    /\ \A n \in Counts : n \in 1 .. ARG_NUM
<1>1. Counts \subseteq 1 .. ARG_NUM
  BY ShellAssumption, Zenon DEF ShellAssumption
<1> QED
  BY <1>1, ShellAssumption, Zenon DEF ShellAssumption

LEMMA Marks ==
    /\ NUL \notin Characters /\ NEWLINE \notin Characters /\ NUL # NEWLINE
    /\ BLANK \in Characters /\ NUL # BLANK /\ NEWLINE # BLANK
    /\ Chars = Characters \cup {NUL, NEWLINE}
<1>1. Letters \cap {BLANK, NUL, NEWLINE} = {}
  BY ShellAssumption, Zenon DEF ShellAssumption
<1>2. NUL # NEWLINE /\ NUL # BLANK /\ NEWLINE # BLANK
  BY DEF NUL, NEWLINE, BLANK
<1> QED
  BY <1>1, <1>2 DEF Characters, Chars

LEMMA LineIsSeq ==
    ASSUME NEW l \in Lines
    PROVE  /\ l \in Seq(Characters) /\ Len(l) \in 0 .. LineMax
           /\ \A k \in 1 .. Len(l) : l[k] \in Characters
<1>1. PICK m \in 0 .. LineMax : l \in [1 .. m -> Characters]
  BY DEF Lines, BoundedSeq, SeqOf
<1>2. m \in Nat
  BY Sizes
<1>3. l \in Seq(Characters) /\ Len(l) = m
  BY <1>1, <1>2, SeqDef, LenProperties
<1> QED
  BY <1>1, <1>3

\* Room behind the line for all that a scan looks at.
LEMMA Room ==
    /\ Cells = 0 .. LineMax + ARG_UPPER + 3 /\ LineMax + ARG_UPPER + 3 \in Nat
    /\ \A n \in 0 .. LineMax : n \in Cells /\ n + 1 \in Cells
  BY Sizes DEF Cells

-----------------------------------------------------------------------------
(* The words of the line and where execute finds them                      *)

\* What lies in the buffer where the line is.
LEMMA Cell ==
    ASSUME LineInPlace, NEW j \in Nat, j < Len(line)
    PROVE  /\ j \in Cells /\ buf[j] = line[j + 1]
           /\ buf[j] \in Characters /\ buf[j] # NUL /\ buf[j] \in Chars
<1>1. line \in Lines /\ \A k \in 1 .. Len(line) : buf[k - 1] = line[k]
  BY DEF LineInPlace
<1>2. Len(line) \in 0 .. LineMax /\ \A k \in 1 .. Len(line) : line[k] \in Characters
  BY <1>1, LineIsSeq
<1>3. j + 1 \in 1 .. Len(line) /\ (j + 1) - 1 = j /\ j \in 0 .. LineMax
  BY <1>2, Sizes
<1>4. buf[j] = line[j + 1] /\ line[j + 1] \in Characters
  BY <1>1, <1>2, <1>3
<1> QED
  BY <1>3, <1>4, Room, Marks

LEMMA End ==
    ASSUME LineInPlace
    PROVE  /\ Len(line) \in 0 .. LineMax /\ Len(line) \in Nat /\ Len(line) \in Cells
           /\ buf[Len(line)] = NUL /\ DOMAIN buf = Cells
           /\ line \in Seq(Characters)
<1>1. line \in Lines /\ buf[Len(line)] = NUL /\ DOMAIN buf = Cells
  BY DEF LineInPlace
<1>2. Len(line) \in 0 .. LineMax /\ line \in Seq(Characters)
  BY <1>1, LineIsSeq
<1> QED
  BY <1>1, <1>2, Room, Sizes

LEMMA BlanksAre ==
    ASSUME line \in Lines
    PROVE  /\ Blanks \in 0 .. Len(line)
           /\ \A k \in 1 .. Blanks : line[k] = BLANK
           /\ Blanks < Len(line) => line[Blanks + 1] # BLANK
<1>1. line \in Seq(Characters) /\ Len(line) \in 0 .. LineMax
  BY LineIsSeq
<1>2. PICK n \in Nat : n = Len(line) /\ DOMAIN line = 1 .. n
  BY <1>1, LenProperties, Sizes
<1>3. CASE \A k \in DOMAIN line : line[k] = BLANK
  <2>1. Blanks = n
    BY <1>2, <1>3 DEF Blanks
  <2> QED
    BY <1>2, <1>3, <2>1
<1>4. CASE ~ \A k \in DOMAIN line : line[k] = BLANK
  <2> DEFINE T == {k \in 1 .. n : line[k] # BLANK}
             FirstWord(k) == line[k] # BLANK /\ \A j \in 1 .. k - 1 : line[j] = BLANK
             first == CHOOSE k \in DOMAIN line : FirstWord(k)
  <2>1. T \in SUBSET Nat
    OBVIOUS
  <2>2. T # {}
    BY <1>2, <1>4
  <2>3. PICK x \in T : \A y \in T : x <= y
    BY <2>1, <2>2, Least
  <2>4. x \in 1 .. n /\ line[x] # BLANK
    OBVIOUS
  <2>5. ASSUME NEW j \in 1 .. x - 1
        PROVE  line[j] = BLANK
    <3>1. j \in 1 .. n /\ ~(x <= j)
      BY <2>4
    <3> QED
      BY <2>3, <3>1
  <2>6. x \in DOMAIN line /\ FirstWord(x)
    BY <1>2, <2>4, <2>5
  <2>7. Blanks = first - 1
    BY <1>4 DEF Blanks
  <2> HIDE DEF FirstWord, T
  <2>8. first \in DOMAIN line /\ FirstWord(first)
    BY <2>6
  <2> HIDE DEF first
  <2>9. /\ first \in 1 .. n /\ line[first] # BLANK
        /\ \A j \in 1 .. first - 1 : line[j] = BLANK
    BY <1>2, <2>8 DEF FirstWord
  <2>10. Blanks + 1 = first /\ Blanks \in 0 .. n
    BY <2>7, <2>9
  <2> QED
    BY <1>2, <2>7, <2>9, <2>10
<1> QED
  BY <1>3, <1>4

LEMMA NameStartIs ==
    ASSUME LineInPlace
    PROVE  NameStart(buf) = Blanks /\ Blanks \in 0 .. Len(line)
<1>1. line \in Lines
  BY DEF LineInPlace
<1>2. PICK n \in Nat : n = Len(line)
  BY End
<1>3. PICK b \in 0 .. n : b = Blanks
  BY <1>1, <1>2, BlanksAre
<1>4. \A k \in 1 .. b : line[k] = BLANK
  BY <1>1, <1>3, BlanksAre
<1>5. \A j \in 0 .. b - 1 : buf[j] \notin Chars \ {BLANK}
  <2> TAKE j \in 0 .. b - 1
  <2>1. j + 1 \in 1 .. b /\ j \in Nat /\ j < n
    BY <1>3
  <2> QED
    BY <1>2, <1>4, <2>1, Cell
<1>6. buf[b] \in Chars \ {BLANK}
  <2>1. CASE b = n
    BY <1>2, <2>1, End, Marks
  <2>2. CASE b # n
    <3>1. b \in Nat /\ b < n
      BY <1>3, <2>2
    <3>2. line[b + 1] # BLANK
      BY <1>1, <1>2, <1>3, <3>1, BlanksAre
    <3> QED
      BY <1>2, <3>1, <3>2, Cell
  <2> QED
    BY <2>1, <2>2
<1> DEFINE N == LineMax + ARG_UPPER + 3
<1>7. DOMAIN buf = 0 .. N /\ N \in Nat
  BY End, Room
<1>8. n \in 0 .. LineMax
  BY <1>2, End
<1>9. b \in 0 .. N
  BY <1>3, <1>8, Sizes
<1> HIDE DEF N
<1>10. EndOf(buf, 0, Chars \ {BLANK}) = b
  BY <1>5, <1>6, <1>7, <1>9, ScanEndsAt
<1> QED
  BY <1>2, <1>3, <1>10 DEF NameStart

LEMMA FirstBlank ==
    ASSUME NEW t \in Seq(Characters), Contains(t, BLANK),
           NEW p, p = SelectInSeq(t, LAMBDA c : c = BLANK)
    PROVE  /\ p \in 1 .. Len(t) /\ t[p] = BLANK
           /\ \A k \in 1 .. p - 1 : t[k] # BLANK
<1> DEFINE I == {i \in 1 .. Len(t) : t[i] = BLANK}
<1>1. Len(t) \in Nat
  OBVIOUS
<1>2. I # {} /\ I \in SUBSET Nat
  BY <1>1 DEF Contains
<1>3. PICK x \in I : \A y \in I : x <= y
  BY <1>2, Least
<1>4. p = Min(I)
  BY <1>2 DEF SelectInSeq
<1>5. p \in I /\ \A y \in I : p <= y
  BY <1>3, <1>4 DEF Min
<1>6. p \in 1 .. Len(t) /\ t[p] = BLANK
  BY <1>5
<1>7. ASSUME NEW k \in 1 .. p - 1
      PROVE  t[k] # BLANK
  <2>1. k \in 1 .. Len(t) /\ ~(p <= k)
    BY <1>1, <1>6
  <2> QED
    BY <1>5, <2>1
<1> QED
  BY <1>6, <1>7

LEMMA TrimmedIs ==
    ASSUME LineInPlace, NEW n \in Nat, n = Len(line), NEW b, b = Blanks
    PROVE  /\ b \in 0 .. n /\ n \in 0 .. LineMax
           /\ Trimmed \in Seq(Characters) /\ Len(Trimmed) = n - b
           /\ \A k \in 1 .. n - b : Trimmed[k] = line[b + k] /\ Trimmed[k] = buf[b + k - 1]
<1>1. line \in Lines /\ line \in Seq(Characters) /\ n \in 0 .. LineMax
  BY End DEF LineInPlace
<1>2. b \in 0 .. n
  BY <1>1, BlanksAre
<1>3. Trimmed = SubSeq(line, b + 1, n)
  BY DEF Trimmed
<1>4. b + 1 \in 1 .. n + 1 /\ n \in (b + 1) - 1 .. n
  BY <1>2
<1>5. /\ Trimmed \in Seq(Characters) /\ Len(Trimmed) = n - b
      /\ \A k \in 1 .. n - b : Trimmed[k] = line[b + k]
  BY <1>1, <1>2, <1>3
<1>6. ASSUME NEW k \in 1 .. n - b
      PROVE  line[b + k] = buf[b + k - 1]
  <2>1. b + k - 1 \in Nat /\ b + k - 1 < n /\ (b + k - 1) + 1 = b + k
    BY <1>2
  <2>2. buf[b + k - 1] = line[(b + k - 1) + 1]
    BY <2>1, Cell
  <2> QED
    BY <2>1, <2>2
<1> QED
  BY <1>1, <1>2, <1>5, <1>6

\* The name ends at the first blank behind it, or where the line does.
LEMMA NameIs ==
    ASSUME LineInPlace
    PROVE  /\ TypedName \in Seq(Characters) /\ Len(TypedName) \in 0 .. Len(Trimmed)
           /\ \A k \in 1 .. Len(TypedName) :
                 TypedName[k] = Trimmed[k] /\ Trimmed[k] # BLANK
           /\ HasArgument => /\ Len(TypedName) < Len(Trimmed)
                             /\ Trimmed[Len(TypedName) + 1] = BLANK
           /\ ~HasArgument => Len(TypedName) = Len(Trimmed)
<1>1. Trimmed \in Seq(Characters)
  BY TrimmedIs, End
<1>2. PICK m \in Nat : m = Len(Trimmed)
  BY <1>1, LenProperties
<1>3. CASE HasArgument
  <2> DEFINE p == SelectInSeq(Trimmed, LAMBDA c : c = BLANK)
  <2>1. /\ p \in 1 .. m /\ Trimmed[p] = BLANK
        /\ \A k \in 1 .. p - 1 : Trimmed[k] # BLANK
    BY <1>1, <1>2, <1>3, FirstBlank DEF HasArgument
  <2>2. TypedName = SubSeq(Trimmed, 1, p - 1)
    BY <1>3 DEF TypedName
  <2> HIDE DEF p
  <2>3. /\ TypedName \in Seq(Characters) /\ Len(TypedName) = p - 1
        /\ \A k \in 1 .. p - 1 : TypedName[k] = Trimmed[k]
    BY <1>1, <1>2, <2>1, <2>2
  <2>4. (p - 1) + 1 = p /\ p - 1 \in 0 .. m /\ p - 1 < m
    BY <2>1
  <2> QED
    BY <1>2, <1>3, <2>1, <2>3, <2>4
<1>4. CASE ~HasArgument
  <2>1. TypedName = Trimmed
    BY <1>4 DEF TypedName
  <2>2. \A k \in 1 .. m : Trimmed[k] # BLANK
    BY <1>2, <1>4 DEF HasArgument, Contains
  <2> QED
    BY <1>1, <1>2, <1>4, <2>1, <2>2
<1> QED
  BY <1>3, <1>4

LEMMA FileNameIs ==
    ASSUME LineInPlace
    PROVE  /\ NameEnd(buf) = Blanks + Len(TypedName)
           /\ FileName(buf) = TypedName
<1>1. PICK n \in Nat : n = Len(line)
  BY End
<1>2. PICK b : b = Blanks
  OBVIOUS
<1>3. /\ b \in 0 .. n /\ n \in 0 .. LineMax /\ Len(Trimmed) = n - b
      /\ \A k \in 1 .. n - b : Trimmed[k] = buf[b + k - 1]
  BY <1>1, <1>2, TrimmedIs
<1>4. PICK m \in 0 .. n - b : m = Len(TypedName)
  BY <1>3, NameIs
<1>5. /\ TypedName \in Seq(Characters)
      /\ \A k \in 1 .. m : TypedName[k] = Trimmed[k] /\ Trimmed[k] # BLANK
      /\ m < n - b => Trimmed[m + 1] = BLANK
  BY <1>3, <1>4, NameIs
<1>6. \A j \in b .. b + m - 1 : buf[j] \notin {BLANK, NUL}
  <2> TAKE j \in b .. b + m - 1
  <2>1. /\ j \in Nat /\ j < n /\ (j - b + 1) \in 1 .. m /\ (j - b + 1) \in 1 .. n - b
        /\ b + (j - b + 1) - 1 = j
    BY <1>3, <1>4
  <2>2. buf[j] # NUL
    BY <1>1, <2>1, Cell
  <2>3. buf[j] # BLANK
    BY <1>3, <1>5, <2>1
  <2> QED
    BY <2>2, <2>3
<1>7. buf[b + m] \in {BLANK, NUL}
  <2>1. CASE m = n - b
    <3>1. b + m = n
      BY <1>3, <2>1
    <3> QED
      BY <1>1, <3>1, End
  <2>2. CASE m # n - b
    <3>1. m < n - b /\ m + 1 \in 1 .. n - b /\ b + (m + 1) - 1 = b + m
      BY <1>3, <1>4, <2>2
    <3> QED
      BY <1>3, <1>5, <3>1
  <2> QED
    BY <2>1, <2>2
<1> DEFINE N == LineMax + ARG_UPPER + 3
<1>8. DOMAIN buf = 0 .. N /\ N \in Nat
  BY End, Room
<1>9. b + m \in b .. N /\ b \in Nat
  BY <1>3, <1>4, Sizes
<1> HIDE DEF N
<1>10. EndOf(buf, b, {BLANK, NUL}) = b + m
  BY <1>6, <1>7, <1>8, <1>9, ScanEndsAt
<1>11. NameEnd(buf) = b + m /\ NameStart(buf) = b
  BY <1>2, <1>10, NameStartIs DEF NameEnd
<1>12. Reads(buf, b, m, TypedName) /\ Len(TypedName) = m
  BY <1>3, <1>4, <1>5 DEF Reads
<1>13. b \in Nat /\ m \in Nat
  BY <1>3, <1>4
<1>14. FileName(buf) = Between(buf, b, b + m)
  BY <1>11 DEF FileName
<1>15. Between(buf, b, b + m) = TypedName
  BY <1>5, <1>12, <1>13, BetweenIs
<1> QED
  BY <1>2, <1>4, <1>11, <1>14, <1>15

\* The argument begins behind the blank, or, where there is none, behind the
\* NUL that ends the line.
LEMMA ArgStartIs ==
    ASSUME LineInPlace
    PROVE  /\ ArgStart(buf) = Blanks + Len(TypedName) + 1
           /\ HasArgument => ArgStart(buf) <= Len(line)
           /\ ~HasArgument => ArgStart(buf) = Len(line) + 1
           /\ ArgStart(buf) \in 1 .. LineMax + 1
<1>1. PICK n \in Nat : n = Len(line)
  BY End
<1>2. PICK b : b = Blanks
  OBVIOUS
<1>3. b \in 0 .. n /\ n \in 0 .. LineMax /\ Len(Trimmed) = n - b
  BY <1>1, <1>2, TrimmedIs
<1>4. PICK m \in 0 .. n - b : m = Len(TypedName)
  BY <1>3, NameIs
<1>5. (HasArgument => m < n - b) /\ (~HasArgument => m = n - b)
  BY <1>3, <1>4, NameIs
<1>6. ArgStart(buf) = b + m + 1
  BY <1>2, <1>4, FileNameIs DEF ArgStart
<1>7. (HasArgument => b + m + 1 <= n) /\ (~HasArgument => b + m + 1 = n + 1)
  BY <1>3, <1>4, <1>5
<1>8. b + m + 1 \in 1 .. LineMax + 1
  BY <1>3, <1>4, Sizes
<1> QED
  BY <1>1, <1>2, <1>4, <1>6, <1>7, <1>8

\* What execute takes for the argument is what was typed, and is refused only
\* for its length.
LEMMA ArgIs ==
    ASSUME LineInPlace, Fresh
    PROVE  /\ Arg(buf) = TypedArgument /\ TypedArgument \in Seq(Characters)
           /\ ArgFits(buf) <=> Len(TypedArgument) <= ARG_UPPER + 1
<1>1. PICK n \in Nat : n = Len(line)
  BY End
<1>2. PICK b : b = Blanks
  OBVIOUS
<1>3. /\ b \in 0 .. n /\ n \in 0 .. LineMax
      /\ Trimmed \in Seq(Characters) /\ Len(Trimmed) = n - b
      /\ \A k \in 1 .. n - b : Trimmed[k] = buf[b + k - 1]
  BY <1>1, <1>2, TrimmedIs
<1>4. PICK m \in 0 .. n - b : m = Len(TypedName)
  BY <1>3, NameIs
<1>5. PICK a \in 1 .. LineMax + 1 : a = ArgStart(buf)
  BY ArgStartIs
<1>6. a = b + m + 1
  BY <1>2, <1>4, <1>5, ArgStartIs
<1> DEFINE N == LineMax + ARG_UPPER + 3
<1>7. DOMAIN buf = 0 .. N /\ N \in Nat /\ a \in Nat /\ ARG_UPPER \in Nat
  BY End, Room, Sizes
<1>8. a .. a + ARG_UPPER + 1 \subseteq 0 .. N
  BY Sizes
<1> HIDE DEF N
<1>9. CASE HasArgument
  <2>1. a <= n /\ n \in a .. N
    <3>1. a <= n
      BY <1>1, <1>5, <1>9, ArgStartIs
    <3>2. n \in 0 .. N
      BY <1>1, <1>7, End
    <3> QED
      BY <3>1, <3>2
  <2>2. buf[n] = NUL /\ \A j \in a .. n - 1 : buf[j] # NUL
    <3>1. ASSUME NEW j \in a .. n - 1
          PROVE  j \in Nat /\ j < n
      OBVIOUS
    <3> QED
      BY <1>1, <3>1, End, Cell
  <2>3. EndOf(buf, a, {NUL}) = n
    BY <1>7, <2>1, <2>2, ScanEndsAt
  <2> DEFINE len == n - a
  <2>4. len \in Nat /\ a + len = n /\ len = (n - b) - (m + 2) + 1
    BY <1>3, <1>4, <1>6, <2>1
  <2>5. Arg(buf) = Between(buf, a, a + len)
    BY <1>5, <2>3, <2>4 DEF Arg
  <2> HIDE DEF len
  <2>6. TypedArgument = SubSeq(Trimmed, m + 2, n - b)
    BY <1>3, <1>4, <1>9 DEF TypedArgument
  <2>7. /\ TypedArgument \in Seq(Characters) /\ Len(TypedArgument) = len
        /\ \A k \in 1 .. len : TypedArgument[k] = Trimmed[m + 1 + k]
    BY <1>3, <1>4, <2>4, <2>6
  <2>8. ASSUME NEW k \in 1 .. len
        PROVE  TypedArgument[k] = buf[a + k - 1]
    <3>1. m + 1 + k \in 1 .. n - b /\ b + (m + 1 + k) - 1 = a + k - 1
      BY <1>3, <1>4, <1>6, <2>4
    <3>2. Trimmed[m + 1 + k] = buf[b + (m + 1 + k) - 1]
      BY <1>3, <3>1
    <3> QED
      BY <2>7, <3>1, <3>2
  <2>9. Reads(buf, a, len, TypedArgument)
    BY <2>8 DEF Reads
  <2>10. Between(buf, a, a + len) = TypedArgument
    BY <1>7, <2>4, <2>7, <2>9, BetweenIs
  <2>11. ArgFits(buf) <=> n <= a + ARG_UPPER + 1
    <3>1. ASSUME NEW i \in a .. a + ARG_UPPER + 1, buf[i] = NUL
          PROVE  n <= a + ARG_UPPER + 1
      <4>1. i \in a .. n - 1 \/ n <= i
        BY <1>7, <2>1
      <4> QED
        BY <1>7, <2>2, <3>1, <4>1
    <3>2. n <= a + ARG_UPPER + 1 => n \in a .. a + ARG_UPPER + 1
      BY <1>7, <2>1
    <3> QED
      BY <1>5, <2>2, <3>1, <3>2 DEF ArgFits
  <2>12. n <= a + ARG_UPPER + 1 <=> len <= ARG_UPPER + 1
    BY <1>7, <2>4
  <2> QED
    BY <2>5, <2>7, <2>10, <2>11, <2>12
<1>10. CASE ~HasArgument
  <2>1. a = n + 1
    BY <1>1, <1>5, <1>10, ArgStartIs
  <2>2. longest <= n /\ longest \in Nat
    BY <1>1, <1>10, Sizes DEF Fresh, LineInPlace
  <2>3. a \in 0 .. N /\ a \in a .. N /\ a \in a .. a + ARG_UPPER + 1 /\ a + 0 = a
    BY <1>7, <1>8
  <2>4. buf[a] = NUL
    <3>1. a \in Cells /\ a > n /\ a > longest
      BY <1>7, <2>1, <2>2, <2>3, End
    <3> QED
      BY <1>1, <3>1 DEF LineInPlace
  <2>5. EndOf(buf, a, {NUL}) = a
    <3>1. a .. a - 1 = {}
      BY <1>7
    <3> QED
      BY <1>7, <2>3, <2>4, <3>1, ScanEndsAt
  <2>6. Arg(buf) = Between(buf, a, a + 0)
    BY <1>5, <2>3, <2>5 DEF Arg
  <2>7. TypedArgument = <<>> /\ <<>> \in Seq(Characters) /\ Len(<<>>) = 0
    BY <1>10 DEF TypedArgument, NoArgument
  <2>8. Between(buf, a, a + 0) = <<>>
    <3>1. Reads(buf, a, 0, <<>>) /\ 0 \in Nat
      BY DEF Reads
    <3> QED
      BY <1>7, <2>7, <3>1, BetweenIs
  <2>9. ArgFits(buf)
    BY <1>5, <2>3, <2>4 DEF ArgFits
  <2> QED
    BY <1>7, <2>6, <2>7, <2>8, <2>9
<1> QED
  BY <1>9, <1>10

-----------------------------------------------------------------------------
(* From the buffer to args, and from args to the child                     *)

\* Whatever execute takes for the argument when it finds an end to it.
LEMMA ArgInBounds ==
    ASSUME LineInPlace, ArgFits(buf)
    PROVE  Arg(buf) \in Seq(Characters) /\ Len(Arg(buf)) <= ARG_UPPER + 1
<1>1. PICK a \in 1 .. LineMax + 1 : a = ArgStart(buf)
  BY ArgStartIs
<1> DEFINE N == LineMax + ARG_UPPER + 3
<1>2. DOMAIN buf = 0 .. N /\ N \in Nat /\ a \in Nat /\ ARG_UPPER \in Nat
  BY End, Room, Sizes
<1>3. a .. a + ARG_UPPER + 1 \subseteq 0 .. N
  BY Sizes
<1> HIDE DEF N
<1>4. PICK i \in a .. a + ARG_UPPER + 1 : buf[i] = NUL
  BY <1>1 DEF ArgFits
<1>5. i \in a .. N /\ buf[i] \in {NUL}
  BY <1>2, <1>3, <1>4
<1>6. PICK e : e = EndOf(buf, a, {NUL})
  OBVIOUS
<1>7. e \in a .. i /\ \A j \in a .. e - 1 : buf[j] \notin {NUL}
  BY <1>2, <1>5, <1>6, ScanEnds
<1>8. PICK m \in Nat : m = e - a /\ m <= ARG_UPPER + 1
  BY <1>2, <1>4, <1>7
<1>9. ASSUME NEW k \in 1 .. m
      PROVE  buf[a + k - 1] \in Characters
  <2>1. a + k - 1 \in a .. e - 1 /\ a + k - 1 \in 0 .. N
    BY <1>2, <1>5, <1>7, <1>8
  <2>2. buf \in [Cells -> Characters \cup {NUL}] /\ a + k - 1 \in Cells
    BY <1>2, <2>1 DEF LineInPlace
  <2> QED
    BY <1>7, <2>1, <2>2
<1>10. Arg(buf) = [k \in 1 .. m |-> buf[a + k - 1]]
  BY <1>1, <1>6, <1>8, Zenon DEF Arg, Between
<1>11. Arg(buf) \in [1 .. m -> Characters]
  BY <1>9, <1>10
<1>12. Arg(buf) \in Seq(Characters) /\ Len(Arg(buf)) = m
  <2>1. Arg(buf) \in Seq(Characters) /\ DOMAIN Arg(buf) = 1 .. m
    BY <1>8, <1>11
  <2> QED
    BY <1>8, <2>1, LenProperties
<1> QED
  BY <1>8, <1>12

LEMMA NewArgsAre ==
    ASSUME NEW arg \in Seq(Characters)
    PROVE  NewArgs(arg) \in [0 .. ARG_NUM - 1 -> Characters \cup {NUL}]
<1>1. ASSUME NEW c \in 0 .. ARG_NUM - 1
      PROVE  (IF c < Len(arg) THEN arg[c + 1] ELSE NUL) \in Characters \cup {NUL}
  <2>1. PICK n \in Nat : n = Len(arg)
    BY LenProperties
  <2>2. c < n => c + 1 \in 1 .. n
    BY Sizes
  <2>3. c < n => arg[c + 1] \in Characters
    BY <2>1, <2>2, ElementOfSeq
  <2> QED
    BY <2>1, <2>3
<1> QED
  BY <1>1 DEF NewArgs

LEMMA PrefixIs ==
    ASSUME NEW t \in Seq(Characters), NEW n \in Nat,
           NEW p \in Nat, p = IF n < Len(t) THEN n ELSE Len(t)
    PROVE  /\ Prefix(t, n) \in Seq(Characters) /\ Len(Prefix(t, n)) = p
           /\ p <= Len(t) /\ \A k \in 1 .. p : Prefix(t, n)[k] = t[k]
<1>1. Prefix(t, n) = SubSeq(t, 1, p)
  BY DEF Prefix
<1>2. Len(t) \in Nat
  BY LenProperties
<1>3. p <= Len(t)
  BY <1>2
<1> QED
  BY <1>1, <1>2, <1>3

\* The child finds its argument whole, or as much of it as it asked for.
LEMMA HandedIs ==
    ASSUME NEW arg \in Seq(Characters), Len(arg) <= ARG_UPPER + 1,
           args = NewArgs(arg), NEW n \in Counts
    PROVE  /\ (IF args[0] = NUL THEN NoArgument ELSE Handed(n)) = Prefix(arg, n)
           /\ Prefix(arg, n) \in Seq(Characters)
           /\ Len(Prefix(arg, n)) <= ARG_UPPER + 1
<1>1. PICK m \in Nat : m = Len(arg)
  BY LenProperties
<1>2. n \in Nat /\ m <= ARG_UPPER + 1 /\ ARG_UPPER \in Nat
  BY <1>1, Sizes
<1>3. PICK p \in Nat : p = IF n < m THEN n ELSE m
  BY <1>2
<1>4. /\ Prefix(arg, n) \in Seq(Characters) /\ Len(Prefix(arg, n)) = p
      /\ \A k \in 1 .. p : Prefix(arg, n)[k] = arg[k]
  BY <1>1, <1>2, <1>3, PrefixIs
<1>5. p <= m
  BY <1>2, <1>3
<1> DEFINE N == ARG_NUM - 1
<1>6. N \in Nat /\ m \in 0 .. N
  BY <1>2, Sizes
<1>7. DOMAIN args = 0 .. N
  BY DEF NewArgs
<1>8. \A c \in 0 .. N : args[c] = IF c < m THEN arg[c + 1] ELSE NUL
  BY <1>1 DEF NewArgs
<1> HIDE DEF N
<1>9. args[m] = NUL
  BY <1>6, <1>8
<1>10. ASSUME NEW c \in 0 .. m - 1
       PROVE  args[c] = arg[c + 1] /\ args[c] # NUL
  <2>1. c \in 0 .. N /\ c < m /\ c + 1 \in 1 .. m
    BY <1>6
  <2>2. arg[c + 1] \in Characters
    BY <1>1, <2>1, ElementOfSeq
  <2> QED
    BY <1>8, <2>1, <2>2, Marks
<1>11. EndOf(args, 0, {NUL}) = m
  <2>1. args[m] \in {NUL} /\ \A c \in 0 .. m - 1 : args[c] \notin {NUL}
    BY <1>9, <1>10
  <2> QED
    BY <1>6, <1>7, <2>1, ScanEndsAt
<1>12. Handed(n) = Between(args, 0, p)
  BY <1>3, <1>11 DEF Handed
<1>13. Reads(args, 0, p, Prefix(arg, n))
  <2>1. ASSUME NEW k \in 1 .. p
        PROVE  Prefix(arg, n)[k] = args[0 + k - 1]
    <3>1. k - 1 \in 0 .. m - 1 /\ (k - 1) + 1 = k /\ 0 + k - 1 = k - 1
      BY <1>5
    <3> QED
      BY <1>4, <1>10, <3>1
  <2> QED
    BY <2>1 DEF Reads
<1>14. 0 \in Nat /\ 0 + p = p
  OBVIOUS
<1>15. Between(args, 0, 0 + p) = Prefix(arg, n)
  BY <1>4, <1>13, <1>14, BetweenIs
<1>16. Handed(n) = Prefix(arg, n)
  BY <1>12, <1>14, <1>15
<1>17. CASE args[0] = NUL
  <2>1. m = 0
    <3>1. ~(0 \in 0 .. m - 1)
      BY <1>10, <1>17
    <3> QED
      BY <3>1
  <2>2. p = 0
    BY <1>5, <2>1
  <2>3. Prefix(arg, n) = <<>>
    BY <1>4, <2>2, EmptySeq
  <2> QED
    BY <1>4, <1>2, <1>17, <2>2, <2>3 DEF NoArgument
<1>18. CASE args[0] # NUL
  BY <1>2, <1>4, <1>5, <1>16, <1>18
<1> QED
  BY <1>17, <1>18

-----------------------------------------------------------------------------
(* The invariant is inductive                                              *)

LEMMA InitInv == Init => IInv
<1> SUFFICES ASSUME Init PROVE IInv
  OBVIOUS
<1>1. line = <<>> /\ Len(line) = 0 /\ longest = 0 /\ got = NotAsked /\ said = "" /\ pc = "read"
  BY DEF Init
<1>2. buf = [c \in Cells |-> NUL] /\ args = [c \in 0 .. ARG_NUM - 1 |-> NUL]
  BY DEF Init
<1>3. line \in Lines
  <2>1. 0 \in 0 .. LineMax /\ <<>> \in [1 .. 0 -> Characters]
    BY Sizes
  <2> QED
    BY <1>1, <2>1 DEF Lines, BoundedSeq, SeqOf
<1>4. 0 \in 0 .. LineMax /\ 0 \in Cells /\ \A k \in 1 .. 0 : FALSE
  BY Sizes, Room
<1>5. LineInPlace
  BY <1>1, <1>2, <1>3, <1>4 DEF LineInPlace
<1>6. TypeOK
  <2>1. got.nbytes = 0 /\ got.string = <<>>
    <3>1. got = Asked(<<>>, 0)
      BY <1>1, Zenon DEF NotAsked, NoArgument
    <3> QED
      BY <3>1 DEF Asked
  <2>2. Len(got.string) <= ARG_UPPER + 1 /\ got.string \in Seq(Characters)
    BY <2>1, Sizes
  <2> QED
    BY <1>1, <1>2, <1>3, <1>4, <2>1, <2>2, Marks DEF TypeOK, Messages
<1> QED
  BY <1>1, <1>5, <1>6 DEF IInv, AskedByChild, ArgsOfChild, RefusedByExecute

LEMMA ReadLineStep ==
    ASSUME IInv, NEW l \in Lines, ReadLine(l)
    PROVE  IInv'
<1>1. /\ pc' = "line" /\ line' = l /\ got' = NotAsked /\ args' = args /\ said' = said
      /\ longest' = IF Len(line) > longest THEN Len(line) ELSE longest
      /\ buf' = [c \in Cells |-> IF c < Len(l) THEN l[c + 1]
                                 ELSE IF c = Len(l) THEN NUL ELSE buf[c]]
  BY DEF ReadLine
<1>2. Len(l) \in 0 .. LineMax /\ \A k \in 1 .. Len(l) : l[k] \in Characters
  BY LineIsSeq
<1>3. PICK m \in 0 .. LineMax : m = Len(l)
  BY <1>2
<1>4. TypeOK /\ LineInPlace
  BY DEF IInv
<1>5. PICK n \in 0 .. LineMax : n = Len(line)
  BY <1>4, End
<1>6. longest \in 0 .. LineMax
  BY <1>4 DEF TypeOK
<1>7. /\ longest' \in 0 .. LineMax
      /\ \A c \in Nat : c > longest' => c > n /\ c > longest
  BY <1>1, <1>5, <1>6, Sizes
<1>8. \A c \in Cells :
         buf'[c] = IF c < m THEN l[c + 1] ELSE IF c = m THEN NUL ELSE buf[c]
  BY <1>1, <1>3
<1>9. buf' \in [Cells -> Characters \cup {NUL}]
  <2>1. ASSUME NEW c \in Cells
        PROVE  (IF c < m THEN l[c + 1] ELSE IF c = m THEN NUL ELSE buf[c])
                  \in Characters \cup {NUL}
    <3>1. c \in Nat
      BY Room
    <3>2. c < m => c + 1 \in 1 .. m
      BY <1>3, <3>1, Sizes
    <3>3. c < m => l[c + 1] \in Characters
      BY <1>2, <1>3, <3>2
    <3>4. buf[c] \in Characters \cup {NUL}
      BY <1>4 DEF LineInPlace
    <3> QED
      BY <3>3, <3>4
  <2> QED
    BY <1>1, <1>3, <2>1
<1>10. ASSUME NEW k \in 1 .. m
       PROVE  buf'[k - 1] = l[k]
  <2>1. k - 1 \in 0 .. LineMax /\ k - 1 < m /\ (k - 1) + 1 = k
    BY <1>3, Sizes
  <2> QED
    BY <1>8, <2>1, Room
<1>11. buf'[m] = NUL
  <2>1. m \in Cells /\ ~(m < m)
    BY <1>3, Room, Sizes
  <2> QED
    BY <1>8, <2>1
<1>12. ASSUME NEW c \in Cells, c > m, c > longest'
       PROVE  buf'[c] = NUL
  <2>1. c \in Nat /\ ~(c < m) /\ c # m
    BY <1>3, <1>12, Room, Sizes
  <2>2. c > n /\ c > longest
    BY <1>7, <1>12, <2>1
  <2>3. buf[c] = NUL
    BY <1>4, <1>5, <2>2 DEF LineInPlace
  <2> QED
    BY <1>8, <2>1, <2>3
<1>13. LineInPlace'
  BY <1>1, <1>3, <1>7, <1>9, <1>10, <1>11, <1>12 DEF LineInPlace
<1>14. TypeOK'
  <2>1. got'.nbytes = 0 /\ got'.string = <<>> /\ Len(<<>>) = 0 /\ <<>> \in Seq(Characters)
    BY <1>1 DEF NotAsked, Asked, NoArgument
  <2>2. Len(got'.string) <= ARG_UPPER + 1
    BY <2>1, Sizes
  <2>3. buf' \in [Cells -> Chars]
    BY <1>9, Marks
  <2> QED
    BY <1>1, <1>4, <1>7, <2>1, <2>2, <2>3 DEF TypeOK
<1> QED
  BY <1>1, <1>13, <1>14 DEF IInv, AskedByChild, ArgsOfChild, RefusedByExecute

\* The line, the buffer and what was asked for stay.
LEMMA SameLine ==
    ASSUME IInv, UNCHANGED <<buf, history>>
    PROVE  /\ LineInPlace'
           /\ pc' \in {"read", "line", "child"} /\ said' \in Messages
              /\ args' \in [0 .. ARG_NUM - 1 -> Characters \cup {NUL}] => TypeOK'
<1>1. buf' = buf /\ line' = line /\ longest' = longest /\ got' = got
  BY DEF history
<1>2. TypeOK /\ LineInPlace
  BY DEF IInv
<1>3. LineInPlace'
  BY <1>1, <1>2 DEF LineInPlace
<1>4. pc' \in {"read", "line", "child"} /\ said' \in Messages
      /\ args' \in [0 .. ARG_NUM - 1 -> Characters \cup {NUL}] => TypeOK'
  BY <1>1, <1>2 DEF TypeOK
<1> QED
  BY <1>3, <1>4

LEMMA BackAtOnce ==
    ASSUME IInv, ExitShell \/ SkipEmpty
    PROVE  IInv'
<1>1. UNCHANGED <<buf, args, history>> /\ pc' = "read" /\ said' = ""
  BY DEF ExitShell, SkipEmpty
<1>2. args' \in [0 .. ARG_NUM - 1 -> Characters \cup {NUL}]
  BY <1>1 DEF IInv, TypeOK
<1>3. LineInPlace' /\ TypeOK'
  BY <1>1, <1>2, SameLine DEF Messages
<1> QED
  BY <1>1, <1>3 DEF IInv, AskedByChild, ArgsOfChild, RefusedByExecute

LEMMA ReturnsIs ==
    ASSUME NEW rval \in {-2, -1, 0, 256}, Returns(rval)
    PROVE  /\ pc' = "read" /\ said' \in Messages /\ UNCHANGED <<buf, history>>
           /\ said' = "no such command" => rval = -1
<1>1. CASE rval = -1
  BY <1>1 DEF Returns, Messages
<1>2. CASE rval = 256
  BY <1>2 DEF Returns, Messages
<1>3. CASE rval = 0
  BY <1>3 DEF Returns, Messages
<1>4. CASE rval = -2
  BY <1>4 DEF Returns, Messages
<1> QED
  BY <1>1, <1>2, <1>3, <1>4

LEMMA RefusedStep ==
    ASSUME IInv, ExecuteFails \/ ExecuteFull \/ \E rval \in {0, 256} : ChildEnds(rval)
    PROVE  IInv'
<1>1. PICK rval \in {-2, -1, 0, 256} :
         /\ Returns(rval) /\ UNCHANGED args
         /\ rval = -1 => \/ ~\E found \in BOOLEAN : Executable(buf, found)
                         \/ Executable(buf, FALSE)
  <2>1. CASE ExecuteFails
    BY <2>1 DEF ExecuteFails
  <2>2. CASE ExecuteFull
    <3>1. Returns(-2) /\ UNCHANGED args /\ -2 # -1
      BY <2>2 DEF ExecuteFull
    <3> QED
      BY <3>1
  <2>3. CASE \E rval \in {0, 256} : ChildEnds(rval)
    <3>1. PICK rval \in {0, 256} : Returns(rval) /\ UNCHANGED args
      BY <2>3 DEF ChildEnds
    <3>2. rval \in {-2, -1, 0, 256} /\ rval # -1
      OBVIOUS
    <3> QED
      BY <3>1, <3>2
  <2> QED
    BY <2>1, <2>2, <2>3
<1>2. /\ pc' = "read" /\ said' \in Messages /\ UNCHANGED <<buf, history>>
      /\ said' = "no such command" => rval = -1
  BY <1>1, ReturnsIs
<1>3. args' \in [0 .. ARG_NUM - 1 -> Characters \cup {NUL}]
  BY <1>1 DEF IInv, TypeOK
<1>4. LineInPlace' /\ TypeOK'
  BY <1>2, <1>3, SameLine
<1>5. RefusedByExecute'
  BY <1>1, <1>2 DEF RefusedByExecute
<1> QED
  BY <1>2, <1>4, <1>5 DEF IInv, AskedByChild, ArgsOfChild

LEMMA ExecuteStep ==
    ASSUME IInv, Execute
    PROVE  IInv'
<1>1. /\ pc = "line" /\ Executable(buf, TRUE) /\ pc' = "child"
      /\ args' = NewArgs(Arg(buf)) /\ UNCHANGED <<buf, said, history>>
  BY DEF Execute, Command
<1>2. LineInPlace /\ ArgFits(buf)
  BY <1>1 DEF IInv, Executable
<1>3. args' \in [0 .. ARG_NUM - 1 -> Characters \cup {NUL}]
  BY <1>1, <1>2, ArgInBounds, NewArgsAre
<1>4. said' \in Messages
  BY <1>1 DEF IInv, TypeOK
<1>5. LineInPlace' /\ TypeOK'
  BY <1>1, <1>3, <1>4, SameLine
<1>6. got' = NotAsked
  BY <1>1 DEF IInv, AskedByChild, history
<1>7. ArgsOfChild'
  BY <1>1, <1>6 DEF ArgsOfChild
<1> QED
  BY <1>1, <1>5, <1>7 DEF IInv, AskedByChild, RefusedByExecute

LEMMA getargsStep ==
    ASSUME IInv, NEW nbytes \in Counts, getargs(nbytes)
    PROVE  IInv'
<1>1. /\ pc = "child" /\ UNCHANGED <<pc, buf, args, said, line, longest>>
      /\ got' = Asked(IF args[0] = NUL THEN NoArgument ELSE Handed(nbytes), nbytes)
  BY DEF getargs
<1>2. LineInPlace /\ Executable(buf, TRUE) /\ args = NewArgs(Arg(buf)) /\ TypeOK
  BY <1>1 DEF IInv, ArgsOfChild
<1>3. Arg(buf) \in Seq(Characters) /\ Len(Arg(buf)) <= ARG_UPPER + 1
  BY <1>2, ArgInBounds DEF Executable
<1>4. /\ got' = Asked(Prefix(Arg(buf), nbytes), nbytes)
      /\ Prefix(Arg(buf), nbytes) \in Seq(Characters)
      /\ Len(Prefix(Arg(buf), nbytes)) <= ARG_UPPER + 1
  BY <1>1, <1>2, <1>3, HandedIs
<1>5. TypeOK'
  <2>1. got'.nbytes = nbytes /\ got'.string = Prefix(Arg(buf), nbytes)
    BY <1>4 DEF Asked
  <2> QED
    BY <1>1, <1>2, <1>4, <2>1 DEF TypeOK
<1>6. LineInPlace'
  BY <1>1, <1>2 DEF LineInPlace
<1>7. ArgsOfChild'
  BY <1>1, <1>2 DEF ArgsOfChild, Handed
<1> QED
  BY <1>1, <1>5, <1>6, <1>7 DEF IInv, AskedByChild, RefusedByExecute

LEMMA StepInv == IInv /\ [Next]_vars => IInv'
<1> SUFFICES ASSUME IInv, [Next]_vars PROVE IInv'
  OBVIOUS
<1>1. CASE \E l \in Lines : ReadLine(l)
  BY <1>1, ReadLineStep
<1>2. CASE ExitShell \/ SkipEmpty
  BY <1>2, BackAtOnce
<1>3. CASE ExecuteFails \/ ExecuteFull \/ \E rval \in {0, 256} : ChildEnds(rval)
  BY <1>3, RefusedStep
<1>4. CASE Execute
  BY <1>4, ExecuteStep
<1>5. CASE \E nbytes \in Counts : getargs(nbytes)
  BY <1>5, getargsStep
<1>6. CASE UNCHANGED vars
  <2>1. UNCHANGED <<buf, history>> /\ pc' = pc /\ said' = said /\ args' = args
    BY <1>6 DEF vars, history
  <2>2. LineInPlace' /\ TypeOK'
    BY <2>1, SameLine DEF IInv, TypeOK
  <2> QED
    BY <2>1, <2>2 DEF IInv, AskedByChild, ArgsOfChild, RefusedByExecute, Handed, history
<1> QED
  BY <1>1, <1>2, <1>3, <1>4, <1>5, <1>6 DEF Next

LEMMA Invariance == Spec => []IInv
  BY InitInv, StepInv, PTL DEF Spec

-----------------------------------------------------------------------------
(* What the users of the shell are promised                                *)

(***************************************************************************)
(* The shell, its buffer, args and what is handed to a program stay what   *)
(* their declarations say, whatever is typed: an argument too long is      *)
(* refused before it is copied.                                            *)
(***************************************************************************)
THEOREM TypeCorrect == Spec => []TypeOK
<1>1. IInv => TypeOK
  BY DEF IInv
<1> QED
  BY <1>1, Invariance, PTL

(***************************************************************************)
(* getargs gives a program what was typed behind its name, up to the       *)
(* number of bytes it asks for, although neither the shell's buffer nor    *)
(* the slot's args was empty before.                                       *)
(***************************************************************************)
THEOREM ArgumentIsTyped == Spec => []ArgumentAsTyped
<1>1. ASSUME IInv
      PROVE  ArgumentAsTyped
  <2> SUFFICES ASSUME pc = "child", got # NotAsked, Fresh
               PROVE  got.string = Prefix(TypedArgument, got.nbytes)
    BY DEF ArgumentAsTyped
  <2>1. LineInPlace /\ Executable(buf, TRUE) /\ args = NewArgs(Arg(buf))
    BY <1>1 DEF IInv, ArgsOfChild
  <2>2. PICK n \in Counts :
           got = Asked(IF args[0] = NUL THEN NoArgument ELSE Handed(n), n)
    BY <1>1 DEF IInv, ArgsOfChild
  <2>3. Arg(buf) \in Seq(Characters) /\ Len(Arg(buf)) <= ARG_UPPER + 1
    BY <2>1, ArgInBounds DEF Executable
  <2>4. got = Asked(Prefix(Arg(buf), n), n)
    BY <2>1, <2>2, <2>3, HandedIs
  <2>5. Arg(buf) = TypedArgument
    BY <2>1, ArgIs
  <2> QED
    BY <2>4, <2>5 DEF Asked
<1> QED
  BY <1>1, Invariance, PTL

\* What execute asks of a command that was typed as it should be.
LEMMA GoodCommand ==
    ASSUME LineInPlace, Fresh,
           TypedName \in DOMAIN Inode, Content[Inode[TypedName]] = "program",
           ~(Len(TypedName) > SIZE_OF_NAME + 1), ~(Len(TypedArgument) > ARG_UPPER + 1)
    PROVE  Executable(buf, TRUE) /\ ~Executable(buf, FALSE)
<1>1. FileName(buf) = TypedName /\ MagicFound(FileName(buf)) = {TRUE}
  BY FileNameIs DEF MagicFound
<1>2. TypedName \in Seq(Characters) /\ TypedArgument \in Seq(Characters)
  BY NameIs, ArgIs
<1>3. PICK m \in Nat : m = Len(TypedName)
  BY <1>2, LenProperties
<1>4. PICK k \in Nat : k = Len(TypedArgument)
  BY <1>2, LenProperties
<1>5. Blanks \in 0 .. Len(line) /\ Len(line) \in Nat
  BY NameStartIs, End
<1>6. PICK b \in Nat : b = Blanks
  BY <1>5
<1>7. NameEnd(buf) = b + m /\ NameStart(buf) = b
  BY <1>3, <1>6, FileNameIs, NameStartIs
<1>8. b + m + 1 \in 1 .. LineMax + 1
  BY <1>7, ArgStartIs DEF ArgStart
<1>9. NameFits(buf)
  <2>1. b + m - 1 <= MAX_BUFFER_UPPER
    BY <1>8, Sizes
  <2>2. b + m - 1 - b <= SIZE_OF_NAME
    BY <1>3, Sizes
  <2> QED
    BY <1>7, <2>1, <2>2 DEF NameFits
<1>10. ArgFits(buf)
  <2>1. k <= ARG_UPPER + 1
    BY <1>4, Sizes
  <2> QED
    BY <1>4, <2>1, ArgIs
<1> QED
  BY <1>1, <1>9, <1>10 DEF Executable

(***************************************************************************)
(* A name that is in the directory, of a program, with a name and an       *)
(* argument that are short enough, is never answered by "no such command". *)
(***************************************************************************)
THEOREM RefusedRightly == Spec => []RefusedForAReason
<1>1. ASSUME IInv
      PROVE  RefusedForAReason
  <2> DEFINE Reason == \/ TypedName \notin DOMAIN Inode
                       \/ Content[Inode[TypedName]] # "program"
                       \/ Len(TypedName) > SIZE_OF_NAME + 1
                       \/ Len(TypedArgument) > ARG_UPPER + 1
             Refused == said = "no such command" /\ pc = "read"
  <2>1. LineInPlace
    BY <1>1 DEF IInv
  <2>2. Fresh /\ ~Reason => Executable(buf, TRUE) /\ ~Executable(buf, FALSE)
    BY <2>1, GoodCommand
  <2>3. Refused => \/ ~\E found \in BOOLEAN : Executable(buf, found)
                   \/ Executable(buf, FALSE)
    BY <1>1 DEF IInv, RefusedByExecute
  <2>4. RefusedForAReason <=> (Refused /\ Fresh => Reason)
    BY DEF RefusedForAReason
  <2> HIDE DEF Reason, Refused
  <2>5. Executable(buf, TRUE) => \E found \in BOOLEAN : Executable(buf, found)
    OBVIOUS
  <2> QED
    BY <2>2, <2>3, <2>4, <2>5
<1> QED
  BY <1>1, Invariance, PTL
=============================================================================
