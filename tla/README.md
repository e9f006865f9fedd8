# Models and proofs of the kernel in `src/student-distrib`

The repository is a small teaching kernel for the x86: one processor, one
terminal, up to six user programs of which one runs and the others wait for it.
This directory holds TLA+ models of its parts, TLC configurations that check
them on small instances, and proofs, checked by TLAPS, of what matters most for
every instance. Paths below are relative to `src/student-distrib` unless they
start with `src/`.

## The system

| component | code | state | operations |
|---|---|---|---|
| process management | `systemcall.c` (execute, halt, getargs), `idt.c`, `kernel.c` | `process_table`, `current_pid`, the PCBs at the foot of the kernel stacks, `tss.esp0`, entry 32 of the page directory and its TLB copy, the frames saved on kernel stacks | execute, halt, exceptions, getargs |
| file descriptors | `systemcall.c` (open, close, read, write), `systemcall.h` | `file_array` of each PCB | open, close, dispatch of read and write, what execute and halt reset |
| file system | `file_sys.c` | the read-only image, `dir_index` | read_data, lookup by name and by index, file_read, dir_open, dir_read |
| terminal and keyboard | `keyboard.c` | `keyboard_buffer`, `global_keyboard_index`, `keyboard_flag`, shift/caps/ctrl status | the interrupt handler, terminal_read, terminal_write |
| screen | `lib.c` (putc, scrolling, change_line, clean_screen) | video memory, `screen_x`, `screen_y`, the hardware cursor | output, echo, erasure, clearing |
| real-time clock | `rtc.c` | `RTC_interrupt`, `time_counter`, `virtual_frequency`, the chip's index port and register A | tick handler, RTC_open, RTC_read, RTC_write |
| interrupt controller, gates | `i8259.c`, `idt.c`, `key_sd.S`, `kernel.c` (entry) | masks, requests, in-service bits, the interrupt flag, the stack of handlers | init, enable, EOI, entry to and return from a handler |
| system call wrapper | `systemcall_wrapper.S` | the saved registers | number check, dispatch, return |
| paging | `page.c` | page directory and table | page_init; the user entry is changed by execute and halt |
| command parsing | `systemcall.c` (first part of execute, getargs), `src/syscalls/ece391shell.c` | the shell's buffer, `args` of a PCB | the shell's loop, name and argument scan, magic number check |
| user programs | `src/syscalls`, `src/fish` | their buffers and descriptors | syserr, ls, cat, grep and the shell; demos |
| boot, library, kernel tests | `boot.S`, `x86_desc.*`, `kernel.c`, `lib.c`, `tests.c` | - | - |

How they interact. User programs enter the kernel through `int 0x80`
(`systemcall_wrapper.S`), on the kernel stack `tss.esp0` points to; the PCB of
the caller is found by masking `esp` (open, close, read, write, getargs) or
from `current_pid` (halt). `open` picks one of five operation tables and puts it
in a descriptor; `read`, `write` and `close` call through it into the terminal, the clock
and the file system. execute saves a frame on the caller's kernel stack, and
halt jumps back into it. Two interrupt handlers share global variables
with the system calls: the keyboard handler with terminal_read and, through
its echo, with every output on the screen; the clock handler with the RTC driver.

What is hard about it:

* **No locks.** Every gate of the IDT is a trap gate (`idt.c:27`), so interrupts
  stay on in system calls and in handlers; nothing but execute and halt disables them. A handler may run
  between any two accesses terminal_read, putc or the RTC driver make, and may itself be interrupted once it has sent its EOI.
* **Edges.** A request that comes while its line is masked or in service must not be lost: a byte or a tick that is
  never read makes no second edge (`i8259.c`, `kernel.c:160`).
* **Memory that is not cleared**: the shell's buffer from line to line (`src/syscalls/ece391shell.c`), the buffers of
  execute and grep on the stack, `args` of a slot from program to program.
* **Partial resets.** PCBs and kernel stacks are reused by position. execute, halt,
  open and close each assign some of the fields of a descriptor, and halt stops
  at the first one that is free.
* **Five notions of the running process** (`current_pid`, `tss.esp0`, page directory, TLB,
  the registers in the CPU), each moved by a statement of its own.
* **Waiting by spinning** (`keyboard.c:279`, `rtc.c:124`) on flags only a handler sets.
* **Arithmetic at boundaries**: block borders, the 80th column, the last line, counters
  compared and reduced against a ratio that rounds down.

What makes each part correct:

* processes: the programs form a call stack, and everything a waiting process needs
  to go on is intact when it is resumed;
* descriptors: whatever a slot was used for before, a program sees handles of its own;
* files: a read returns the bytes of the file the request covers, or fails for a reason;
* terminal: no character is delivered twice or out of order, a read ends once ENTER was pressed, and
  a line nobody touched while it was read arrives complete;
* screen: it shows the last lines of the text, as long as no key draws amid output and again after the next ctrl-l;
* clock: the signal comes after exactly 1024/f ticks, and a read returns, at the frequencies for which the driver is made; what the others do is
  known and does not outlast the next change of the frequency, except where the handler divides by zero;
* interrupts: no handler sees its variables change, every line is ended by its own handler, no edge is lost unless a divide error took the clock's handler away, and
  a key gives what it was pressed for;
* commands: a program gets the name and the argument that were typed, and is refused only for a reason;
* programs: syserr's tests pass, ls, cat and, of files without NUL, grep write what the disk holds, and each of them ends or waits for the terminal.

## The modules

| module | what it is |
|---|---|
| `ProcStack` | abstract: the programs of the machine as one call stack |
| `Process` | execute, halt, exceptions, getargs, and the descriptor flags halt's loop looks at; implements `ProcStack` |
| `ProcessProofs` | its invariants and its refinement of `ProcStack`, proved |
| `Handles` | abstract: what open, close, read and write promise |
| `Descriptors`, `MCDescriptors` | the file arrays of the PCBs, lookup, file and directory operations; implements `Handles` |
| `DescriptorsProofs` | its invariants, its refinement of `Handles`, and what `Programs` builds on it, proved; EXTENDS `Programs` |
| `ReadData` | the copying loop of read_data, one iteration a step |
| `ReadDataProofs` | its correctness, proved |
| `Terminal` | the keyboard handler against terminal_read |
| `TerminalProofs` | its safety, proved |
| `Screen` | putc and its helpers, in a process and in the keyboard handler |
| `ScreenProofs` | when the screen shows the text, proved for keys at any moment |
| `Rtc`, `MCRtc` | the tick handler against the RTC driver |
| `RtcProofs` | that the virtual clock keeps time, proved |
| `Keys` | what a scan code does: status of shift, caps and ctrl, the tables, the order of the tests |
| `Interrupts` | entry(), the controllers, gates and handlers, for keys and ticks at any moment; EXTENDS `Keys` |
| `InterruptsProofs` | its safety, proved |
| `Shell`, `MCShell` | the shell's buffer, the parsing and file check of execute, getargs |
| `ShellProofs` | that arguments are those typed and refusals have a reason, proved |
| `Calls` | open, close, read and write as a program sees them, results included; EXTENDS `Descriptors` |
| `Programs`, `MCPrograms` | syserr, ls, cat and grep on these calls |

`PROJECT.json` maps every definition to the lines it stands for. The choices behind them:

**Process.** A system call up to its return is one step: only one process runs, and no
interrupt handler touches this state. `Load` is the part of execute
behind the search for a slot, which halt of the bottom shell enters too
(`HaltShell`). `kstack[s]` says whose user registers the top of kernel stack *s* holds
and `frame` which kernel stack the saved esp/ebp point into, so that
"halt returns to the parent" is not assumed: `HaltToParent` sets the registers to whatever
lies on that stack. `AfterClosing` is the close loop, with its overrun
behind a full array: there `saved_esp`, which nothing initialises, lies where the next
`flags` would be. Names and arguments are values; a command is one that loads or one
that does not.

**Descriptors.** It takes from `Process` that the slots in use are `0..current_pid` and that a call
finds its own PCB. `Fresh` and `Closed` are the resets of execute and halt, field by
field. `ReadData` (the operator) is what the module `ReadData` shows of read_data.
`lister` and `names` are history, for the property on directory listings.
Names are sequences of characters, as lookup compares them: `SameName` is a strncmp over at most `FILENAME_LEN`
of them after the lengths were found equal.

**ReadData.** A byte is known by its place (block, index); the table has one more entry, for the
word behind it that the loop may look at, and one block number stands for all that are out of range.

**Terminal.** Each access of terminal_read to a shared variable is a step, the handler is one
step: the process does not run meanwhile and the next key is not delivered before EOI.
Characters are numbered as they are typed.

**Screen.** Each statement of putc that touches the position is a step in either context; the copying
loop of scrolling is one. `page` is history: the text that should be seen; `disturbed` says whether a key has drawn amid output of the process, and whether
the screen has been cleaned between two calls since. Memory goes on behind the screen, as the writes below the last line do; `Below` bounds how far down
output may start. A cell's colour byte never changes and is left out.

**Rtc.** One access of the driver is a step, the handler is one. Division and remainder are C's. `divider` says whether
register A still runs the chip; `TickArrives` is the only assumption on the hardware. `mistimed` marks the one way in which an earlier frequency outlasts
a change: RTC_open has reset the counter, and before it sets the frequency ticks are counted under one that has no period.

**Keys and Interrupts.** A character is its key and whether it is the upper one of the two on the cap. A handler is a frame on a stack with the
place it has reached: its body, its first EOI, for the clock the second, and its return; `Deliver` enters one between any
two such steps whenever the controllers allow it. `entry()` is followed call by call, with interrupts off until `sti`, and keys and ticks may come
before it. The controllers, the keyboard controller and the clock chip are external (their entries in `PROJECT.json` say so) and do what
their data sheets say: edges, priorities, `ICW1` forgetting edges. What the two handlers do to their drivers' variables is in `Terminal` and `Rtc`; that these may take a
handler for one step is what `NotReentered` says. Of the clock's handler what decides whether it divides by zero is kept: programs change `virtual_frequency` at any
time, and at 0 or beyond the base the handler ends in the gate of the divide error and in halt (`DivideError`, `INT_0`), which abandons the kernel stack: the handlers on it are gone, and
no EOI is sent. `lost` is history.

**Shell.** `buf` is the shell's 128 bytes of stack; a line overwrites the front of it and leaves the rest. execute scans it from the front as memory, not as
a string. `line` and `longest` are history.

**Calls and Programs.** `Calls` gives each operation of `Descriptors` its result, adds the calls that are refused, and those with a number the
wrapper does not know. In `Programs` one program at a time runs above the shell, each of its calls a step; syserr's tests are data (`Tests`: what is called, on what,
and which results count as a failure), as they are eight sequences of calls with a verdict. `Other` is any program: it
makes any calls and leaves the slot and the directory cursor as it likes. grep's buffer is modelled with the line ends it overwrites, the part it
moves down, which strcpy ends at the first NUL, and the byte behind what was read; fdputs writes as far as the first NUL. grep searches every file of the directory, programs too, so the characters of
a file include NUL. `SyserrAsk` waits for a line and takes any; cat may be asked for `stdin`, which is the terminal.

## The runs

| run | instance | what it shows |
|---|---|---|
| `ProcessCore` | 3 slots, 4 descriptors, 2 programs, 1 bad command, 2 arguments, 3 statuses; 7 555 states | types; slots in use are a prefix; the five notions agree; every live process can return to its parent; waiting ones are not touched; `ProcStack` is implemented |
| `DescriptorsOpen` | 2 slots, 4 descriptors, directory of 4 entries (one per type and an unknown type), a file of 2 bytes, requests of 1 and 2; 110 029 states | types; no call goes through a missing table or to a file position behind the end; an undisturbed listing yields every name once; `Handles` is implemented |
| `TerminalRead` | buffer of 4, line of 2, tab of 2, 4 characters typed, 2 ENTERs; 20 837 states | types; order of delivery; complete lines; one ENTER per read; a read that saw ENTER ends |
| `ScreenText` | 3 lines of 2 columns, 1 character, keys at any moment; 2 566 988 states | types, with the bounds of the position; the screen and the cursor show the text until a key draws amid output and again after the next ctrl-l |
| `RtcClock` | base 8, frequencies -16, -2, 0, 1, 2, 3, 4, 8, 16; 30 358 states | types; from 2 to half the base the signal comes after exactly BASE/f ticks, whatever was written before; reads return unless the frequency is negative or the clock was lost, and at a negative one they never do |
| `ReadDataLoop` | blocks of 2 bytes, table of 2, 2 blocks, requests to 5; 30 930 states | types; the right bytes; failures only for a reason |
| `Interrupts` | 12 scan codes: both shifts and ctrl pressed and released, caps, a letter, ctrl-l's letter, a digit, enter down and up, space; 2 bytes held back, devices silent while two handlers run, frequencies 0, 2 and 2000; 632 888 states | types; lines in service are those of handlers that have yet to end them, and 2 and 8 of one lost to a divide error; no handler entered with work left; no lost edge otherwise; a key gives what it was pressed for, however late; keys and ticks are read in the end |
| `ShellCommands` | 2 letters and the blank, all lines up to 5, names of 2, arguments of 2, args of 4, getargs of 1 and 4; 114 696 states | types; the argument a program gets; refusals only for a reason |
| `ProgramsRun` | 2 slots, 5 descriptors, directory of 4, files of 4 and 3 bytes (the second may lack a block), names of the terminal, buffers of 4, 2 and 3, all contents over 2 letters, the newline and NUL; 91 061 states | types; syserr's eight tests pass; ls and cat write what is there; grep prints the lines that match of files without NUL; programs end or wait for the terminal |
| `ScreenRace`, `RtcOpenRace`, `ShellStaleArgument` | smaller instances, the last that of `ShellCommands` | the disagreements below |

**Why the bounds are enough.** Three slots have a bottom process, one that is both parent and child, and a top one that finds
the table full. Four descriptors are the two standard ones and two to be opened, closed
and found in the order the loops can tell apart. Two bytes of file and requests of 1 and 2 give reads that stop short of
the end, at it and behind it. A buffer of 4 has room for a line of exactly `NUM_COLS`, for one longer, and for a
tab that no longer fits; two ENTERs are one more than a read uses. Three lines have a first, a middle and a last one, two columns
are a last one and another, and the text grows without bound since only what is on the screen is kept.
With `Below` = 0 output may leave the screen at the bottom but not start there; the proofs need none of these bounds.
Base 8 has frequencies that divide it and one (3) that does not, the two (1 and 8) next to those that have a period, 0, one beyond the
base, and a negative one of each kind. Two blocks of two bytes have a border inside the file and the end of the table at its end. The 12 codes of `Interrupts` have every branch of the handler
and of special_button_status; two bytes held back are one that is read and one that waits behind it, and two handlers, which the devices can make three or
four with what is already requested, are every order of nesting two lines have (the proofs need neither bound); of the frequencies one divides, and the other two fault in the first and in the second division. A name
of 2 and a line of 5 leave room for a name that fits, one that does not, and, with an argument of 2, for both in the tail an earlier line left behind. grep's buffer of 3 is shorter than one
file and as long as the other, so that lines are cut by its end in each place, and longer than some of their lines. Five descriptors are three to be opened; `err_open_lots`
needs as many as are free, whatever their number.
`MaxTyped`, `MaxEnters`, `MaxRequest`, `QueueSize`, `MaxNesting` and `Below` are the only bounds added to the code's own.

`CHECK_DEADLOCK FALSE` is set where a model may really stop: all characters typed and the reader waiting
(`Terminal`), the clock lost and a reader spinning (`Rtc`), read_data returned (`ReadData`).

**Fairness.** Weak fairness on terminal_read (`Reader`): the CPU goes on with it whenever it is not in a
handler. Weak fairness on the clock's handler and on the driver (`Rtc`): the chip ticks as long as it is
programmed to, and the process runs between ticks. Weak fairness on the CPU (`Interrupts`): it goes on with `entry()`, takes a request the controllers pass on and goes on in a handler; the
devices and programs owe nothing, so ticks are read in the end only where the keyboard, which has priority, does not keep the CPU (`TicksAreRead`).
Weak fairness on the program that runs (`Programs`): only one does. That its calls return follows from the bounded loop of read_data and, for the clock, is shown in `Rtc`; a read of the terminal waits for the user, who
is not fair: `SyserrAsk` is left out of it, and cat reading `stdin` has no end (`WaitsForUser`).
No fairness on programs making calls
or users pressing keys, and none is needed in the other modules.

## Where code and comments disagree

With a run:

* `ScreenRace`: an echo between putc's test for the last line and its increment of `screen_y`
  (`lib.c:189-191`) moves the output below the screen instead of scrolling it (`:179`, `:194`).
* `RtcOpenRace`: the tick handler moves the index port between set_frequency's selection and its read of
  register A (`rtc.c:57-58`); the wrong bits are written back as the divider.
* `ShellStaleArgument`: execute skips the character behind a name even when it is the terminating NUL (`systemcall.c:128`, "skip the
  first space"), and takes the end of a longer line typed before for the argument.

Found while modelling, and as the code has it in the models, but in one step each and with nothing to search for:

* halt reports 0 for every status but 31 and 256 for that one (`systemcall.c:304`);
  `src/syscalls/ece391syscall.h:9-11` says the low byte of the status is returned.
* terminal_read counts a newline at an index that a backspace may lower before
  the line is copied (`keyboard.c:286`): a byte it counts as read (`:266`) was never written.
* RTC_write takes any number (`rtc.c:148`) where its comment says that others than powers of two fail (`:132`). A negative one makes the ratio negative, the counter never equals it, and
  a read, which "can't fail" (`:118-120`), spins for ever although the clock ticks (`NegativeStarves`).
* A frequency of 0 or above 1024, which RTC_write takes as well, makes the handler divide by zero (`rtc.c:31`, `:38-40`) and end in the exception: its EOI is never sent, for 0 the chip is not read either,
  and no tick is handled any more (`lost` in `Interrupts`, `in_service` in `Rtc`). The keyboard, on a line of higher priority, goes on.
* At 1024 Hz, which `rtc.c:86` lists, only every second tick raises the signal (`:38`).
* halt's loop leaves descriptors above a free one open
  (`systemcall.c:312`, comment "close all files" at `:317`): `DescriptorsOpen` shows that this does no harm, as
  execute resets what matters. With all descriptors open the same loop runs on into the saved frame; it
  stops there only because RAM was zero at boot, and `Process` fails to
  implement `ProcStack` if `BootRam` contains `TRUE`.
* "keeps returning 0" of dir_read (`file_sys.c:276`) ends when any other directory is opened.
* The condition that is to leave vector 15 and the interrupts their own format (`idt.c:32`) is always true: all gates are present trap gates.
* A key pressed before i8259_init gives its edge away, and as nothing reads the byte the keyboard stays silent (`kernel.c:160`); the properties on lost
  edges leave this case out by name (`early`).
* Caps lock toggles again with each repeat of a held key, and one shift key let go clears the status of both (`keyboard.c:64`).
* A name of 32 characters is accepted, and its NUL written behind `fname` (`systemcall.c:126`).
* execute looks for the magic number in the inode of any entry: `.` and `rtc` lead to inode 0 (`systemcall.c:142`).
* grep splits a line longer than its buffer, and looks at one byte behind what it read (`src/syscalls/ece391grep.c:33`). In a file with NULs, as the programs are, its strcpy (`:36`) leaves what lies behind the first one
  where it was: matches there are lost, parts of old lines are searched again, and a line is printed as far as its first NUL.
* `cat stdin` copies the terminal for ever: open gives descriptor 0 for that name (`systemcall.c:404`), in any program.

## What is proved

All of it for every value of the constants that satisfies the assumptions named in the modules.

*`ProcessProofs`* - `TypeCorrect`, `SlotsStayStacked`, `ProcessesAgree`, `ParentsReachable`, `WaitingProcessesUntouched`, for any
number of slots, descriptors and programs and any content of RAM. None of the invariants is inductive alone: execute finds
its slot by searching the table and its parent by subtracting one, and saves its
frame on whichever stack `esp0` names; that the frame lies on the parent's stack needs `TableIsPrefix` and
`OneRunningProcess`; that halt makes the five notions agree again needs what `ResumeChain`
says of the frame it jumps to. `IInv` joins them with the pids stored in the PCBs (`PidsInPlace`), from which execute copies `parent_pid`,
and the state before the first execute (`BeforeBoot`).

`Implementation`, in the same module: if RAM is zero at boot (`BootRam = {FALSE}`), `Process` implements
`ProcStack`. The invariant adds that the overrun cannot happen (`NoOverrun`) and that every slot in use has a program
in its frame; each action is then mapped to an action of the stack or to a stutter.

*`DescriptorsProofs`* - `TypeCorrect`, `AlwaysUsable`, `EachNameOnce`, `Implementation`, for any number of slots and descriptors, any
files and any directory whose names fit and whose regular entries name an inode (`DescriptorsAssumption`). `UsableDescriptors` says of an `rtc` or `dir` descriptor nothing
about its position, but the handle it implements is at 0: `Usable` says that it is, and asks it of the arrays of the live
slots only, since halt leaves the others in any state. What `Fresh`, `Closed` and `Opened` do to such an array is shown once and cited by
each action. `ListedSoFar` ties the names listed to the cursor. For `Implementation` every step is a step of `Handles` or a stutter; the two that
are neither an open, a close nor a read are execute and halt, which add and remove the last of the handles.

In the same module, of the programs - `ProgramsTyped`, `SyserrIsPassed`, `WrittenAsThere`, `MatchesPrinted`, for any number of descriptors, any files, any contents, NULs included, and any sizes of the buffers.
They assume what `FileSystemAssumption` says of the disk and `BigFdAssumption` of a constant of syserr: the image, built by `createfs`, has one entry `.`
and no other directory, no name that open takes for a device, and none of the misspelt names `err_open` tries; syserr's `BIG_FD` (1073741823) is behind the last of the
descriptors (8). Without the first, `err_open_lots` could not open its directory. A program's own variables say little without the descriptor they are about, so `PInv` joins the
invariant of the file arrays (every call, and `Other`, keeps it: `AnyStepKeeps`) with how far the program has come (`Progress`): before each call of a test, which
descriptors are open and how many opens were counted (`OpenAt`, `CountAt`); that ls has listed as much as the cursor has passed; that what cat has copied ends at the position; that grep holds
the directory in one descriptor and a file in another. That a new program finds none but the standard descriptors open is what `Usable` and `Fresh` give, whatever
was left in its slot. For grep's types the part of a line that waits must be shorter than the buffer, which is a property of a recursive function (`Search`): that the function exists is shown by
contradiction from the last place at which it would not (`LoopExists`), and what it returns likewise.

`MatchesPrinted` says that grep prints exactly the lines that contain the pattern, in their order, however the reads cut the text, of every file without NUL (`NoNul`), whatever other files of the directory hold, with NULs or not, that it
searched before in the same buffer. Nothing like it holds of a file with NULs. What is to be printed is a recursive function
(`Matching`), known to the proof by its first value and its step (`MatchingExists` builds it from the functions on shorter ranges). Within one read, `Shaped` ties the buffer to the text: each newline in it is an end of a line,
and the part that waits holds none; `Prints` says what the loop has left to print, and is shown from the last place down to the first.
`Done` joins what was printed to what the buffer starts with, and has two cases: all lines before that place, or also the one that ends there, when it fills the buffer to the last byte and its newline
is yet to be read (`FullLine`); a line longer than that is split, hence `Short`. Between two reads, `GrepText` is the invariant: the buffer holds the text up to the position of the descriptor and no
newline of its own, since the byte behind what was read is looked at too. `blank` says that memory had none there to begin with; the code does not clear the buffer.

*`TerminalProofs`* - `TypeCorrect`, `OneEnterPerRead`, `InOrder`, `WholeLine`, for any size of the buffer, a line and a tab, and any number of keys. Delivered
characters say nothing of those still in the buffer, so order is proved of `Waiting`, the cells from the first that terminal_read has yet to copy up to
the index: they were typed after all that was delivered and stand in order (`WaitingInOrder`), wherever in its loop the reader
is and although a backspace may lower the index below it (`TestedOrErased`). `LineInBuffer` and
`CopiedSoFar` are what `WholeLine` needs: the first must hold also after reads that keys disturbed, which wipe cells and reset the index in several steps.

*`RtcProofs`* - `TypeCorrect`, `FlagNeverLate`, `ExactPeriod` and `NegativeNeverRaised`, for any base and whatever frequencies are written, negative and zero included. `CountsTicks` relates
the counter to the ticks since the last signal at the frequencies that have a period, from 2 to half the base: at 1 half a second between two instructions of RTC_open could be a period, above half the base up to the base the ratio is 1, where the count restarts with every raise and only
every second tick is a signal, and the others never raise or fault. It
does so, too, while RTC_open has reset the counter but not yet the frequency, unless ticks come then under a frequency without a period (`mistimed`), and not while RTC_write has set the frequency but not yet the counter, where it fails.

*`ScreenProofs`* - `TypeCorrect`, `TextIsShown`, for any rows, columns and characters and keys at any moment, with nothing assumed about them. Two invariants are joined. `Ordered` holds until a key draws
amid output of the process and says how memory, position and text belong together: `Printing` describes that for
each place in putc; at "cell" and "edge" memory shows a text that
is not yet the one to be shown, which is why those cases say that there is one. `Scroll` and the wrap at the last column are then lemmas on
texts (`Printed`, `NextLine`) and on the places of cells. `Wide` holds always: types, and that the column is at most one too far for each context between its increment and the modulo. After a
disturbance that is all that is left, and it is enough for clean_screen between two calls to bring `Ordered` back (`CleanScreenMends`). `BehindBlank` says that nothing is written behind the screen before the first disturbance.
That a disturbance may indeed move output below the screen is what `ScreenRace` shows.

*`ReadDataProofs`* - `ReadsCorrectly`, `FailsRightly`, `TypeCorrect`: the loop invariant `InPlace` ties the three locals
that follow the file to byte `offset + i` of it, by its quotient and remainder; `NextByte` says how these change
from one byte to the next, `WithinTable` that they never leave the table and the
word behind it. The bound `MaxRequest` is a parameter there, so the result is for every request.

*`InterruptsProofs`* - `TypeCorrect`, `ServiceMatchesHandlers`, `HandlersNotReentered`, `NoLostEdge`, `WantedIsTyped`, for any keyboard, any number of bytes held back,
any depth of nesting and any frequencies, those that make the clock's handler fault included. That a handler is not re-entered rests on the controller, which holds back a line in service; that it is still in service
on the handler not having ended it, which is `InServiceIsRunning`, and that in turn on handlers being nested as `NotReentered` says, since an EOI is specific to a line and
not to a handler. So these are proved together (`Stack`), with the fact that no handler runs before `sti`. Once a divide error has taken the clock's handler away lines 2 and 8 stay in service, and `Stack` says so: no handler of the clock is on the stack then, and none is entered again. That no
edge is lost needs also that at most one handler is about to read the device (`OneReader`), and that the clock is silent until rtc_init
(`ClockStarts`). `IInv` joins them. `WantedIsTyped` needs what the bytes that wait will do to the status: `StatusFollows` says that
there is a sequence of statuses, from the one in memory through one for each byte to one that reflects the keys held down now,
and that each byte gives what was wanted in its own.

*`ShellProofs`* - `TypeCorrect`, `ArgumentIsTyped`, `RefusedRightly`, for any characters, any lengths of lines, names and arguments, and any directory. The properties compare
what the program gets with the words of the line; the code only ever scans memory. So the lemmas follow execute through the buffer: a scan
ends at the first character it stops at (`ScanEnds`), the first word of the line is where the name is looked for (`NameStartIs`,
`FileNameIs`) and the rest is where the argument is (`ArgIs`). That the scan for an argument finds a NUL at all, and the right one, rests on `LineInPlace`: what
lies behind both the line and the longest line before is still NUL. `ArgsOfChild` and `RefusedByExecute` carry over to later states what
execute decided on this buffer. That a set of numbers has a least element (`Least`), which every scan needs, comes from the
well-foundedness of `<`.

Two definitions were changed because proofs about them showed that they were not what was meant: `Effect` (`Keys`) and `CatRead` (`Programs`)
had CASE arms that overlap, of which TLA+ may take any and the code takes the first; they are now chains of IF, in the order of the code's tests.

The lines grep is to print are stated with a recursive function (`Matching`), where operators of the library that sort and filter would have done for TLC, because what those return
for every text cannot be proved.

Every invariant and every action property of the passing runs has a theorem. Only model-checked: liveness (`EnterEndsRead`, `ReadReturns`, `KeysAreRead`, `TicksAreRead`,
`ProgramsEnd`), which the prover does not reach. The three properties of the other runs are violated. That read_data returns has no property: its loop counts up to `length` and nothing in it waits.

## Not modelled

* Saving of registers in the wrapper and in `key_sd.S`, and what the compiler makes of a statement: those of putc are atomic here;
  the compiled code is finer, which only adds to what `ScreenRace` shows.
* page_init, boot, `x86_desc.*` and the filling of the descriptor tables: straight-line set-up whose effect the models start from.
* printf, itoa, the memory helpers and the rest of `lib.c`: sequential, without state of the kernel.
* The kernel's own tests: `launch_tests` has every call commented out but the clearing of the screen.
* counter, hello and testprint, which print and read the terminal; pingpong, which waits for ticks for ever; fish and sigtest, which need calls (vidmap, set_handler) this
  kernel does not have.
* terminal_read is taken to be given a buffer long enough, since it ignores `nbytes`; a getargs that asks for more than `args` holds is left out.
* One caller of the clock at a time: a child that opens it changes its parent's frequency (`rtc.c:102`), which no comment or caller speaks of.

## Plan

What is left, in order:

1. A composition of `Process` and `Rtc`, with a parent and a child that both use the clock, and of `Descriptors` with two interleaved listings.
2. The string and number routines of `lib.c` as operators against a reference definition.
