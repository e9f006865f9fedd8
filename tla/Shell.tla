------------------------------- MODULE Shell -------------------------------
(***************************************************************************)
(* From a line on the keyboard to a program and its argument: the shell's  *)
(* loop (ece391shell.c), the parsing of the command and the check of the   *)
(* file in execute, and getargs (systemcall.c).                            *)
(*                                                                         *)
(* The shell's buffer is memory on its stack.  It is written up to the end *)
(* of the line that was read, and what lies behind stays from longer lines *)
(* before, also those of a shell that ran in the same place earlier.  A    *)
(* line is what terminal_read hands over when no key disturbs it, which is *)
(* shown in Terminal; how processes come and go is in Process.             *)
(***************************************************************************)
EXTENDS Integers, Sequences, SequencesExt

CONSTANTS
    Letters,           \* characters of lines, without the blank
    LineMax,           \* characters terminal_read can deliver: 127
    MAX_BUFFER_UPPER,  \* last index of a name's characters: 127
    SIZE_OF_NAME,      \* last index of fname that is filled: 31
    ARG_UPPER,         \* last index of arg that is filled: 31
    ARG_NUM,           \* size of arg and of a PCB's args: 1024
    Inode,             \* of each name in the directory; 0 for "." and "rtc"
    Content,           \* of each inode: "program", "other", or "short" for a
                       \* file of less than four bytes
    Exit,              \* the name "exit"
    Counts             \* the nbytes programs pass to getargs

BLANK == " "
NUL == "NUL"
NEWLINE == "NEWLINE"
Characters == Letters \cup {BLANK}
Chars == Characters \cup {NUL, NEWLINE}
Lines == BoundedSeq(Characters, LineMax)

ASSUME ShellAssumption ==
    /\ Letters \cap {BLANK, NUL, NEWLINE} = {}
    /\ LineMax \in Nat /\ MAX_BUFFER_UPPER \in Nat /\ MAX_BUFFER_UPPER >= LineMax
    /\ SIZE_OF_NAME \in Nat /\ ARG_UPPER \in Nat
    /\ ARG_NUM \in Nat /\ ARG_NUM > ARG_UPPER + 1
    /\ DOMAIN Inode \subseteq Seq(Letters)
    /\ \A name \in DOMAIN Inode : Inode[name] \in DOMAIN Content
    /\ Exit \in Seq(Letters)
    /\ Counts \subseteq 1 .. ARG_NUM

\* As far as a parse of a line and what lies behind it can get.
Cells == 0 .. LineMax + ARG_UPPER + 3

VARIABLES
    pc,       \* "read", "line" before the shell looks at it, "child"
    buf,      \* the shell's buffer
    args,     \* in the PCB of the slot above the shell
    said,     \* what the shell printed last
    line,     \* history: the line read last
    longest,  \* history: the length of the longest line before that
    got       \* history: what getargs gave the child, and for how many bytes

history == <<line, longest, got>>
vars == <<pc, buf, args, said, history>>

NoArgument == <<>>
Asked(string, n) == [nbytes |-> n, string |-> string]
NotAsked == Asked(NoArgument, 0)
Messages == {"", "no such command", "program terminated by exception",
             "program terminated abnormally"}

TypeOK ==
    /\ pc \in {"read", "line", "child"}
    /\ buf \in [Cells -> Chars]
    /\ args \in [0 .. ARG_NUM - 1 -> Characters \cup {NUL}]
    /\ said \in Messages
    /\ line \in Lines /\ longest \in 0 .. LineMax
    /\ got.nbytes \in Counts \cup {0}
    /\ got.string \in Seq(Characters) /\ Len(got.string) <= ARG_UPPER + 1

\* The stack of the first shell is memory nobody has used.
Init ==
    /\ pc = "read"
    /\ buf = [c \in Cells |-> NUL]
    /\ args = [c \in 0 .. ARG_NUM - 1 |-> NUL]
    /\ said = ""
    /\ line = <<>> /\ longest = 0
    /\ got = NotAsked

-----------------------------------------------------------------------------
(* The shell                                                               *)

\* What is in memory from a place up to the first of some characters.
EndOf(memory, from, stops) ==
    CHOOSE i \in DOMAIN memory :
       /\ i >= from /\ memory[i] \in stops
       /\ \A j \in from .. i - 1 : memory[j] \notin stops

Between(memory, from, to) == [k \in 1 .. to - from |-> memory[from + k - 1]]
String(memory) == Between(memory, 0, EndOf(memory, 0, {NUL}))

\* Mutant: the newline is left in place.
ReadWholeLine(l) ==
    /\ pc = "read" /\ pc' = "line"
    /\ buf' = [c \in Cells |-> IF c < Len(l) THEN l[c + 1]
                               ELSE IF c = Len(l) THEN NEWLINE
                               ELSE IF c = Len(l) + 1 THEN NUL ELSE buf[c]]
    /\ line' = l
    /\ longest' = IF Len(line) > longest THEN Len(line) ELSE longest
    /\ got' = NotAsked
    /\ UNCHANGED <<args, said>>

\* terminal_read puts a newline behind the line, and the shell a NUL over it.
ReadLine(l) ==
    /\ pc = "read" /\ pc' = "line"
    /\ buf' = [c \in Cells |-> IF c < Len(l) THEN l[c + 1]
                               ELSE IF c = Len(l) THEN NUL ELSE buf[c]]
    /\ line' = l
    /\ longest' = IF Len(line) > longest THEN Len(line) ELSE longest
    /\ got' = NotAsked
    /\ UNCHANGED <<args, said>>

\* "exit" ends main, and halt starts a new shell where the old one was.
ExitShell ==
    /\ pc = "line" /\ String(buf) = Exit
    /\ pc' = "read" /\ said' = ""
    /\ UNCHANGED <<buf, args, history>>

SkipEmpty ==
    /\ pc = "line" /\ buf[0] = NUL
    /\ pc' = "read" /\ said' = ""
    /\ UNCHANGED <<buf, args, history>>

Returns(rval) ==
    /\ pc' = "read"
    /\ said' = CASE rval = -1 -> "no such command"
                 [] rval = 256 -> "program terminated by exception"
                 [] rval = 0 -> ""
                 [] OTHER -> "program terminated abnormally"
    /\ UNCHANGED <<buf, history>>

-----------------------------------------------------------------------------
(* execute                                                                 *)

NameStart(command) == EndOf(command, 0, Chars \ {BLANK})
NameEnd(command) == EndOf(command, NameStart(command), {BLANK, NUL})

\* Mutant: one place less for a name.
NameFitsTight(command) ==
    /\ NameEnd(command) - 1 <= MAX_BUFFER_UPPER
    /\ NameEnd(command) - 1 - NameStart(command) < SIZE_OF_NAME

NameFits(command) ==
    /\ NameEnd(command) - 1 <= MAX_BUFFER_UPPER
    /\ NameEnd(command) - 1 - NameStart(command) <= SIZE_OF_NAME

FileName(command) == Between(command, NameStart(command), NameEnd(command))

\* Mutant: the space is taken for the start of the argument.
ArgStartAtSpace(command) == NameEnd(command)

\* The character behind the name is skipped, space or not.
ArgStart(command) == NameEnd(command) + 1

\* An argument must end within its bound; there is no other end to the scan.
ArgFits(command) ==
    \E i \in ArgStart(command) .. ArgStart(command) + ARG_UPPER + 1 :
       command[i] = NUL

Arg(command) ==
    Between(command, ArgStart(command), EndOf(command, ArgStart(command), {NUL}))

\* The magic number is looked for in the file of the entry's inode, whatever
\* the entry's type is.  Of a short file only a part is read, and the rest of
\* the four bytes is what was on the stack.
MagicFound(name) ==
    CASE Content[Inode[name]] = "program" -> {TRUE}
      [] Content[Inode[name]] = "short" -> {TRUE, FALSE}
      [] OTHER -> {FALSE}

Executable(command, found) ==
    /\ NameFits(command) /\ ArgFits(command)
    /\ FileName(command) \in DOMAIN Inode
    /\ found \in MagicFound(FileName(command))

Command == pc = "line" /\ buf[0] # NUL /\ String(buf) # Exit

ExecuteFails ==
    /\ Command
    /\ \/ ~\E found \in BOOLEAN : Executable(buf, found)
       \/ Executable(buf, FALSE)
    /\ Returns(-1)
    /\ UNCHANGED args

\* "The processes reach maximum!"
ExecuteFull ==
    /\ Command /\ Executable(buf, TRUE)
    /\ Returns(-2)
    /\ UNCHANGED args

\* Mutant: args is filled as far as the argument goes.
CopyArgument(arg) ==
    [c \in 0 .. ARG_NUM - 1 |-> IF c < Len(arg) THEN arg[c + 1] ELSE args[c]]

\* arg was cleared, and all of it is copied.
NewArgs(arg) ==
    [c \in 0 .. ARG_NUM - 1 |-> IF c < Len(arg) THEN arg[c + 1] ELSE NUL]

Execute ==
    /\ Command /\ Executable(buf, TRUE)
    /\ pc' = "child"
    /\ args' = NewArgs(Arg(buf))
    /\ UNCHANGED <<buf, said, history>>

-----------------------------------------------------------------------------
(* The program the shell started                                           *)

\* The child reads what it is given up to a NUL, if there is one in it.
Handed(nbytes) ==
    LET length == EndOf(args, 0, {NUL})
    IN  Between(args, 0, IF nbytes < length THEN nbytes ELSE length)

getargs(nbytes) ==
    /\ pc = "child"
    /\ got' = Asked(IF args[0] = NUL THEN NoArgument   \* -1
                    ELSE Handed(nbytes), nbytes)
    /\ UNCHANGED <<pc, buf, args, said, line, longest>>

\* halt hands the shell 0 or 256.
ChildEnds(rval) == pc = "child" /\ Returns(rval) /\ UNCHANGED args

Next ==
    \/ \E l \in Lines : ReadLine(l)
    \/ ExitShell
    \/ SkipEmpty
    \/ ExecuteFails
    \/ ExecuteFull
    \/ Execute
    \/ \E nbytes \in Counts : getargs(nbytes)
    \/ \E rval \in {0, 256} : ChildEnds(rval)

Spec == Init /\ [][Next]_vars

-----------------------------------------------------------------------------
(* What must hold                                                          *)

\* The words of the line as the user sees them.
Blanks == IF \A k \in DOMAIN line : line[k] = BLANK THEN Len(line)
          ELSE (CHOOSE k \in DOMAIN line :
                   line[k] # BLANK /\ \A j \in 1 .. k - 1 : line[j] = BLANK) - 1
Trimmed == SubSeq(line, Blanks + 1, Len(line))
HasArgument == Contains(Trimmed, BLANK)
TypedName == IF HasArgument THEN SubSeq(Trimmed, 1, SelectInSeq(Trimmed,
                                           LAMBDA c : c = BLANK) - 1)
             ELSE Trimmed
TypedArgument == IF HasArgument
                 THEN SubSeq(Trimmed, Len(TypedName) + 2, Len(Trimmed))
                 ELSE NoArgument

Prefix(s, n) == SubSeq(s, 1, IF n < Len(s) THEN n ELSE Len(s))

(***************************************************************************)
(* A command with a space behind its name has as its argument just what    *)
(* was typed behind that space; one without has none, as long as no longer *)
(* line was read before.  It is the argument getargs hands out, whatever   *)
(* earlier programs in the same slot were given.                           *)
(***************************************************************************)
Fresh == HasArgument \/ longest <= Len(line)

ArgumentAsTyped ==
    pc = "child" /\ got # NotAsked /\ Fresh =>
       got.string = Prefix(TypedArgument, got.nbytes)

(***************************************************************************)
(* "no such command" is the answer to such a line only when there is no    *)
(* such program, or a name or argument has more than 32 characters.        *)
(***************************************************************************)
RefusedForAReason ==
    said = "no such command" /\ pc = "read" /\ Fresh =>
       \/ TypedName \notin DOMAIN Inode
       \/ Content[Inode[TypedName]] # "program"
       \/ Len(TypedName) > SIZE_OF_NAME + 1
       \/ Len(TypedArgument) > ARG_UPPER + 1

-----------------------------------------------------------------------------
(* What the repository says and the code does not do                       *)

(***************************************************************************)
(* "skip the first space" (systemcall.c, execute): what is skipped behind  *)
(* the name is a space, so a command typed without one has no argument.    *)
(***************************************************************************)
NoArgumentUnlessTyped ==
    pc = "child" /\ got # NotAsked /\ ~HasArgument => got.string = NoArgument
=============================================================================
