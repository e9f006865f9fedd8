------------------------------ MODULE Programs ------------------------------
(***************************************************************************)
(* The user programs that exercise the file system calls, on the kernel's  *)
(* descriptors: syserr, which tests that bad calls are refused, ls, cat    *)
(* and grep (src/syscalls).  The shell in slot 0 starts one at a time, in  *)
(* a slot and with a directory cursor that other programs, which make any  *)
(* calls they like, have used before.                                      *)
(***************************************************************************)
EXTENDS Calls, FiniteSets

CONSTANTS
    AlmostNames,   \* what err_open tries: no name in the directory
    SBUFSIZE, CatBuffer, BUFSIZE,  \* sizes of the buffers of ls, cat and grep
    TextChars,     \* characters of the files grep searches: NEWLINE, and NUL
                   \* where they are programs
    Pattern        \* what grep looks for

NUL == "NUL"
NEWLINE == "NEWLINE"
DotName == <<".">>

ASSUME ProgramsAssumption ==
    /\ AlmostNames \subseteq Seq(STRING) /\ IsFiniteSet(AlmostNames)
    /\ BUFSIZE \in Nat \ {0} /\ SBUFSIZE \in Nat \ {0} /\ CatBuffer \in Nat \ {0}
    /\ NEWLINE \in TextChars
    /\ Pattern \in Seq(TextChars \ {NEWLINE, NUL}) /\ Pattern # <<>>

\* The programs rely on a directory entry "." and on no other of that type, on
\* no file that open takes for a device, and on names no entry has.
ASSUME FileSystemAssumption ==
    /\ \E i \in 1 .. dir_count : Directory[i].filename = DotName
    /\ \A i \in 1 .. dir_count :
          /\ Directory[i].filetype = 1 <=> Directory[i].filename = DotName
          /\ ~IsDevice(Directory[i].filename)
    /\ \A name \in AlmostNames :
          ~IsDevice(name) /\ \A i \in 1 .. dir_count : Directory[i].filename # name

VARIABLES
    client,   \* the program the shell has started
    pc,
    fd,       \* what main opened
    tests,    \* syserr: the tests to come, the one it is at first
    step,     \* the call of that test that is next
    count,    \* and its count of results that matter
    failed,   \* history: the tests that printed FAIL
    listed,   \* history: the names ls wrote
    copied,   \* history: how much of its file cat wrote, in its order, or
              \* Wrong
    file,     \* grep: the descriptor do_one_file opened
    text,     \* what that file holds
    data, last,  \* do_one_file's buffer and how much of it is filled
    printed,  \* history: the lines printed for that file
    blank     \* history: the memory under the buffer held no newline

syserr == <<tests, step, count, failed>>
cat == <<listed, copied>>
grep == <<file, text, data, last, printed, blank>>
locals == <<fd, syserr, cat, grep>>
allvars == <<vars, client, pc, locals>>

Clients == {"none", "other", "syserr", "ls", "cat", "grep"}
Wrong == -1
DataCells == 0 .. BUFSIZE

-----------------------------------------------------------------------------
(* syserr                                                                  *)

At(program, from) == client = program /\ pc = from /\ UNCHANGED client

NEG_FD == -1073741823
BIG_FD == 1073741823
NEG_NUM == -1073741823
BIG_NUM == 1073741823
VIDMAP == 8

Read(f) == [call |-> "read", on |-> f]
Write(f) == [call |-> "write", on |-> f]
CloseFd(f) == [call |-> "close", on |-> f]
Open(name) == [call |-> "open", on |-> name]
Number(n) == [call |-> "number", on |-> n]

\* BIG_FD is behind the last descriptor.
ASSUME BigFdAssumption == MAX_FILE_DESCRIPTOR <= BIG_FD

Others == [k \in 1 .. MAX_FILE_DESCRIPTOR - 2 |-> k + 1]   \* not 0 and 1
Each(Call(_), fds) == [k \in DOMAIN fds |-> Call(fds[k])]

err_neg_fd == <<Read(NEG_FD), Write(NEG_FD), CloseFd(NEG_FD)>>
err_big_fd == <<Read(BIG_FD), Write(BIG_FD), CloseFd(BIG_FD)>>
err_open_lots == [k \in 1 .. MAX_FILE_DESCRIPTOR - 1 |-> Open(DotName)]
                   \o Each(CloseFd, Others)
err_open == SetToSeq({Open(name) : name \in AlmostNames})
err_unopened == <<CloseFd(0), CloseFd(1)>> \o Each(CloseFd, Others)
                   \o Each(Read, Others) \o Each(Write, Others)
err_vidmap == <<Number(VIDMAP), Number(VIDMAP)>>
err_stdin_out == <<Write(0), Read(1)>>
err_syscall_num == <<Number(BIG_NUM), Number(NEG_NUM), Number(0)>>

Tests == <<err_neg_fd, err_big_fd, err_open_lots, err_open, err_unopened,
           err_vidmap, err_stdin_out, err_syscall_num>>
OpenLots == 3

\* err_open_lots counts the opens that fail, the others what does not.
Counts(test, call, result) ==
    IF test = OpenLots THEN call.call = "open" /\ result = -1 ELSE result # -1
Passed(test) == count = IF test = OpenLots THEN 1 ELSE 0

\* The calls ask for 31 bytes.
Do(call, result) ==
    CASE call.call = "read" -> CallRead(call.on, 31, result)
      [] call.call = "write" -> CallWrite(call.on, 31, result)
      [] call.call = "close" -> CallClose(call.on, result)
      [] call.call = "open" -> CallOpen(call.on, result)
      [] OTHER -> CallNumber(call.on, result)

Results == -1 .. 31

\* The user types the number of a test, 0 for all, or what is no number of any.
SyserrAsk ==
    /\ At("syserr", "ask")
    /\ \E result \in LineCounts : CallRead(0, 127, result)
    /\ tests' \in {<<n>> : n \in DOMAIN Tests} \cup {[n \in DOMAIN Tests |-> n], <<>>}
    /\ pc' = IF tests' = <<>> THEN "end" ELSE "test"
    /\ UNCHANGED <<fd, step, count, failed, cat, grep>>

SyserrCall ==
    /\ client = "syserr" /\ tests # <<>> /\ step <= Len(Tests[tests[1]])
    /\ \E result \in Results :
          /\ Do(Tests[tests[1]][step], result)
          /\ count' = count + (IF Counts(tests[1], Tests[tests[1]][step], result)
                               THEN 1 ELSE 0)
    /\ step' = step + 1
    /\ UNCHANGED <<client, pc, fd, tests, failed, cat, grep>>

SyserrVerdict ==
    /\ client = "syserr" /\ tests # <<>> /\ step > Len(Tests[tests[1]])
    /\ failed' = IF Passed(tests[1]) THEN failed ELSE failed \cup {tests[1]}
    /\ tests' = Tail(tests) /\ step' = 1 /\ count' = 0
    /\ pc' = IF Len(tests) = 1 THEN "end" ELSE pc
    /\ UNCHANGED <<vars, client, fd, cat, grep>>

-----------------------------------------------------------------------------
(* ls and cat                                                              *)

\* An open that fails ends the program.
MainOpens(filename) ==
    \E result \in Fds \cup {-1} :
       /\ CallOpen(filename, result)
       /\ fd' = result
       /\ pc' = IF result = -1 THEN "end" ELSE "read"

LsOpen ==
    /\ At("ls", "open") /\ MainOpens(DotName)
    /\ UNCHANGED <<syserr, cat, grep>>

\* The name goes out before the next is read; that changes nothing here.
LsRead ==
    /\ At("ls", "read")
    /\ \E result \in -1 .. SBUFSIZE - 1 :
          /\ CallRead(fd, SBUFSIZE - 1, result)
          /\ pc' = IF result \in {0, -1} THEN "end" ELSE "read"
          /\ listed' = IF result \in {0, -1} THEN listed
                       ELSE Append(listed, Directory[dir_index + 1].filename)
    /\ UNCHANGED <<fd, syserr, copied, grep>>

CatOpen ==
    /\ At("cat", "open")
    /\ \E filename \in Names : MainOpens(filename)
    /\ UNCHANGED <<syserr, cat, grep>>

\* A read that fails ends cat, and what it wrote is a part only.
CatRead ==
    /\ At("cat", "read")
    /\ \E result \in -1 .. CatBuffer + FILENAME_LEN :
          /\ CallRead(fd, CatBuffer, result)
          /\ pc' = CASE result = -1 -> "failed"
                     [] result = 0 -> "end"
                     [] OTHER -> "read"
          /\ copied' = IF result = -1 \/ ~InUse(fd, "regular") THEN copied
                       ELSE IF Mine[fd].file_position = copied THEN copied + result
                       ELSE Wrong
    /\ UNCHANGED <<fd, syserr, listed, grep>>

-----------------------------------------------------------------------------
(* grep                                                                    *)

GrepOpen ==
    /\ At("grep", "open") /\ MainOpens(DotName)
    /\ UNCHANGED <<syserr, cat, grep>>

\* Names that begin with "." are passed over.
GrepRead ==
    /\ At("grep", "read")
    /\ \E result \in -1 .. SBUFSIZE - 1 :
          /\ CallRead(fd, SBUFSIZE - 1, result)
          /\ IF result \in {0, -1}
             THEN pc' = "end" /\ UNCHANGED listed
             ELSE LET name == Directory[dir_index + 1].filename
                  IN  /\ pc' = IF Head(name) = "." THEN "read" ELSE "do_one_file"
                      /\ listed' = <<name>>
    /\ UNCHANGED <<fd, syserr, copied, grep>>

\* Any text of the file's length.
TextsOf(d) ==
    [1 .. (IF d.optable_ptr = "regular" THEN length_of_file[d.inode] ELSE 0)
       -> TextChars]

FileOpens ==
    /\ At("grep", "do_one_file")
    /\ \E result \in Fds \cup {-1} :
          /\ CallOpen(listed[1], result)
          /\ pc' = IF result = -1 THEN "end" ELSE "search"
          /\ file' = result
          /\ IF result = -1 THEN UNCHANGED text
             ELSE text' \in TextsOf(file_array'[current_pid][result])
    /\ last' = 0 /\ printed' = <<>>
    /\ UNCHANGED <<fd, syserr, cat, data, blank>>

LineEnd(d, from, filled) ==
    CHOOSE e \in from .. filled :
       /\ e = filled \/ d[e] = NEWLINE
       /\ \A c \in from .. e - 1 : d[c] # NEWLINE

Piece(d, from, to) == [k \in 1 .. to - from |-> d[from + k - 1]]

Occurs(pattern, s) ==
    \E k \in 0 .. Len(s) - Len(pattern) : SubSeq(s, k + 1, k + Len(pattern)) = pattern

\* fdputs writes as far as the first NUL.
Visible(s) ==
    SubSeq(s, 1, CHOOSE n \in 0 .. Len(s) : /\ n = Len(s) \/ s[n + 1] = NUL
                                           /\ \A k \in 1 .. n : s[k] # NUL)

\* Mutant: so does one that fills the buffer.
WaitsFull(d, line_start, line_end, cnt) == d[line_end] # NEWLINE /\ cnt # 0

\* A line that has no end yet waits for the next read, unless it fills the
\* buffer or the file has no more.
Waits(d, line_start, line_end, cnt) ==
    d[line_end] # NEWLINE /\ cnt # 0 /\ line_start # 0

(***************************************************************************)
(* The inner loop over the lines of what is filled: the lines it prints,   *)
(* the cells it sets to NUL, and where a part of a line starts that waits  *)
(* for the next read, or the end of what is filled.                        *)
(***************************************************************************)
Search(d, filled, cnt) ==
    LET From[line_start \in 0 .. filled] ==
          LET line_end == LineEnd(d, line_start, filled)
              found == Piece(d, line_start, line_end)
          IN  IF Waits(d, line_start, line_end, cnt)
              THEN [lines |-> <<>>, ends |-> {line_end}, part |-> line_start]
              ELSE LET rest == IF line_end + 1 >= filled
                               THEN [lines |-> <<>>, ends |-> {}, part |-> filled]
                               ELSE From[line_end + 1]
                   IN  [lines |-> (IF Occurs(Pattern, found)
                                   THEN <<Visible(found)>> ELSE <<>>) \o rest.lines,
                        ends |-> rest.ends \cup {line_end}, part |-> rest.part]
    IN  From[0]

\* What strcpy takes from there, the NUL included.
UptoNul(d, from, filled) ==
    {c \in DataCells : /\ from < filled /\ from + c <= filled
                       /\ \A k \in from .. from + c - 1 : d[k] # NUL}

\* Mutant: one character of the part is lost.
MovedShort(d, from, filled) ==
    [c \in DataCells |-> IF from > 0 /\ from + c + 1 <= filled THEN d[from + c + 1]
                         ELSE d[c]]

\* strcpy of the part down to the start, as far as the first NUL; nothing when
\* all was searched.
Moved(d, from, filled) ==
    [c \in DataCells |-> IF c \in UptoNul(d, from, filled) THEN d[from + c] ELSE d[c]]

\* cnt characters of the text s from pos, read behind what waits; and NUL where
\* lines end.
Filled(d, s, from, cnt, pos) ==
    [c \in DataCells |-> IF c \in from .. from + cnt - 1
                         THEN s[pos + 1 + c - from] ELSE d[c]]
Ended(d, ends) == [c \in DataCells |-> IF c \in ends THEN NUL ELSE d[c]]

\* One turn of the outer loop of do_one_file.
FileReads ==
    /\ At("grep", "search")
    /\ \E cnt \in -1 .. BUFSIZE :
          /\ CallRead(file, BUFSIZE - last, cnt)
          /\ pc' = CASE cnt = -1 -> "end" [] cnt = 0 -> "close" [] OTHER -> "search"
          /\ IF cnt = -1 THEN UNCHANGED <<data, last, printed>>
             ELSE LET filled == last + cnt
                      read == Filled(data, text, last, cnt, Mine[file].file_position)
                      result == Search(read, filled, cnt)
                  IN  /\ data' = Moved(Ended(read, result.ends), result.part, filled)
                      /\ last' = filled - result.part
                      /\ printed' = printed \o result.lines
    /\ UNCHANGED <<fd, syserr, cat, file, text, blank>>

FileCloses ==
    /\ At("grep", "close")
    /\ \E result \in {0, -1} :
          /\ CallClose(file, result)
          /\ pc' = IF result = -1 THEN "end" ELSE "read"
    /\ text' = <<>> /\ printed' = <<>>
    /\ UNCHANGED <<fd, syserr, cat, file, data, last, blank>>

-----------------------------------------------------------------------------
(* The shell, the other programs, and all together                         *)

NoLocals ==
    /\ fd' = -1
    /\ tests' = <<>> /\ step' = 1 /\ count' = 0 /\ failed' = {}
    /\ listed' = <<>> /\ copied' = 0
    /\ file' = -1 /\ text' = <<>> /\ last' = 0 /\ printed' = <<>>

PInit ==
    /\ Init
    /\ client = "none" /\ pc = "open"
    /\ fd = -1
    /\ tests = <<>> /\ step = 1 /\ count = 0 /\ failed = {}
    /\ listed = <<>> /\ copied = 0
    /\ file = -1 /\ text = <<>> /\ last = 0 /\ printed = <<>>
    /\ data = [c \in DataCells |-> NUL] /\ blank = TRUE

Boot ==
    /\ current_pid = -1 /\ Execute
    /\ UNCHANGED <<client, pc, locals>>

\* grep's buffer lies on memory of the stack.
Start(program) ==
    /\ current_pid = 0 /\ Execute
    /\ client' = program /\ fd' = -1
    /\ pc' = IF program = "syserr" THEN "ask" ELSE "open"
    /\ \E garbage \in IF program = "grep" THEN TextChars \cup {NUL} ELSE {NUL} :
          /\ data' = [c \in DataCells |-> garbage]
          /\ blank' = (garbage # NEWLINE)
    /\ UNCHANGED <<syserr, cat, file, text, last, printed>>

Other ==
    /\ client = "other"
    /\ \/ \E filename \in Names : OpenStandard(filename) \/ OpenFile(filename)
                                  \/ OpenDir(filename)
       \/ \E f \in Fds : Close(f) \/ DirReadName(f)
       \/ \E f \in Fds, nbytes \in Requests :
             \E result \in {-1} \cup 0 .. nbytes : FileRead(f, nbytes, result)
    /\ UNCHANGED <<client, pc, locals>>

\* main returns, or an exception ends the other program.
Ends ==
    /\ client = "other" \/ (client # "none" /\ pc \in {"end", "failed"})
    /\ Halt
    /\ client' = "none" /\ pc' = "open"
    /\ NoLocals
    /\ data' = [c \in DataCells |-> NUL] /\ blank' = TRUE

Client ==
    \/ SyserrCall \/ SyserrVerdict
    \/ LsOpen \/ LsRead
    \/ CatOpen \/ CatRead
    \/ GrepOpen \/ GrepRead \/ FileOpens \/ FileReads \/ FileCloses
    \/ client # "other" /\ Ends

PNext ==
    \/ Boot \/ \E p \in Clients \ {"none"} : Start(p)
    \/ Other \/ Ends \/ SyserrAsk \/ Client

(***************************************************************************)
(* A program that runs goes on; nothing makes the shell start one or the   *)
(* user type a line, and of the other programs nothing is known.  That a   *)
(* read of the clock returns, and when it does not, is shown in Rtc.       *)
(***************************************************************************)
PSpec == PInit /\ [][PNext]_allvars /\ WF_allvars(Client)

-----------------------------------------------------------------------------
(* What must hold                                                          *)

PTypeOK ==
    /\ TypeOK
    /\ client \in Clients
    /\ pc \in {"open", "ask", "test", "read", "do_one_file", "search", "close", "end",
               "failed"}
    /\ fd \in Fds \cup {-1} /\ file \in Fds \cup {-1}
    /\ step \in Nat /\ count \in Nat /\ failed \subseteq DOMAIN Tests
    /\ copied \in Nat \cup {Wrong}
    /\ data \in [DataCells -> TextChars \cup {NUL}]
    /\ last \in 0 .. BUFSIZE /\ (pc = "search" => last < BUFSIZE)

(***************************************************************************)
(* "prints PASS if behavior is EXPECTED" (ece391syserr.c): no test of      *)
(* syserr fails, alone or after the others, whatever earlier programs did  *)
(* to the slot it runs in.                                                 *)
(***************************************************************************)
SyserrPasses == failed = {}

(***************************************************************************)
(* ls writes every name once, in the order of the directory, wherever the  *)
(* cursor had been left; cat writes the bytes of a file in their order,    *)
(* each once, and all of them unless a read failed.                        *)
(***************************************************************************)
WritesWhatIsThere ==
    /\ client = "ls" =>
         /\ \A k \in DOMAIN listed : listed[k] = Directory[k].filename
         /\ pc = "end" => Len(listed) = dir_count
    /\ client = "cat" =>
         /\ copied # Wrong
         /\ pc = "end" /\ fd # -1 /\ InUse(fd, "regular") =>
              copied = length_of_file[Mine[fd].inode]

\* The lines of a text: where they end, what is in front of an end, and whether
\* each of them fits into the buffer of grep.
LineEnds(s) == {k \in DOMAIN s : s[k] = NEWLINE} \cup {Len(s) + 1}

LineBefore(s, k) ==
    LET start == CHOOSE a \in 0 .. k - 1 :
                    /\ a = 0 \/ s[a] = NEWLINE
                    /\ \A i \in a + 1 .. k - 1 : s[i] # NEWLINE
    IN  SubSeq(s, start + 1, k - 1)

Short(s) == \A k \in LineEnds(s) : Len(LineBefore(s, k)) <= BUFSIZE

\* The lines to be printed of those that end at k or before it, for each k.
Matching(s) ==
    LET Upto[k \in 0 .. Len(s) + 1] ==
          IF k = 0 THEN <<>>
          ELSE Upto[k - 1] \o
                 IF k \in LineEnds(s) /\ Occurs(Pattern, LineBefore(s, k))
                 THEN <<LineBefore(s, k)>> ELSE <<>>
    IN  Upto

\* A program is full of NUL, a text has none.
NoNul(s) == \A k \in DOMAIN s : s[k] # NUL

(***************************************************************************)
(* grep prints the lines of a text that contain what it looks for, in      *)
(* their order, however the reads cut the file and whatever it searched    *)
(* before, as long as no line is longer than the buffer and the byte       *)
(* behind it happened to be no newline.  A program is no text: lines that  *)
(* hold a NUL are cut off there, when they are printed and when they wait  *)
(* for the next read, and what contains the pattern is lost.               *)
(***************************************************************************)
GrepPrintsMatches ==
    client = "grep" /\ pc = "close" /\ blank /\ Short(text) /\ NoNul(text) =>
      printed = Matching(text)[Len(text) + 1]

\* syserr waits for a number, or cat copies the terminal, which has no end.
WaitsForUser ==
    \/ client = "syserr" /\ pc = "ask"
    \/ client = "cat" /\ pc = "read" /\ fd = 0

(***************************************************************************)
(* Every program comes to its end, unless it waits for what the user types:*)
(* none that reads files or directories repeats itself for ever.           *)
(***************************************************************************)
ProgramsEnd ==
    client \notin {"none", "other"} ~> client = "none" \/ WaitsForUser
=============================================================================
