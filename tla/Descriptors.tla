---------------------------- MODULE Descriptors ----------------------------
(***************************************************************************)
(* File descriptors: open, close, read and write of systemcall.c, the file *)
(* and directory operations of file_sys.c they dispatch to, and what       *)
(* execute and halt do to the file_array of a PCB.                         *)
(*                                                                         *)
(* A PCB is reused by every process that takes its slot.  Each of execute, *)
(* halt, open and close assigns only some of the fields of a descriptor,   *)
(* so what an unused one holds depends on everything that ran before.      *)
(* The cursor of directory reads is one global for all of them.            *)
(*                                                                         *)
(* That the running process is current_pid, that the slots in use are      *)
(* those up to it, and that a call finds its own PCB, is shown in Process; *)
(* halt's overrun behind a full array is there too.  read_data is used by  *)
(* what ReadData shows of it.  Calls that fail on their arguments change   *)
(* nothing here and are not actions, nor are those on the terminal and the *)
(* clock, whose state is in Terminal and Rtc; what they return is in Calls.*)
(***************************************************************************)
EXTENDS Integers, Sequences, SequencesExt

CONSTANTS
    MAX_PROC, MAX_FILE_DESCRIPTOR,
    FILENAME_LEN,    \* characters of a name: 32
    Directory,       \* direntries: [filename, filetype, inode_num]
    length_of_file,  \* of each inode of a regular file
    Cut,             \* inodes that may have no valid entry behind their last
                     \* block, which their last byte fills
    Names,           \* what programs pass to open, sequences of characters
    StdinNames, StdoutNames,  \* those that begin with "stdin" and "stdout"
    Requests         \* the nbytes programs pass to read

Slots == 0 .. MAX_PROC - 1
Fds == 0 .. MAX_FILE_DESCRIPTOR - 1
Inodes == DOMAIN length_of_file
dir_count == Len(Directory)

ASSUME DescriptorsAssumption ==
    /\ MAX_PROC \in Nat \ {0} /\ MAX_FILE_DESCRIPTOR \in Nat \ 0 .. 2
    /\ Directory \in Seq([filename : Seq(STRING), filetype : Nat, inode_num : Nat])
    /\ \A i \in 1 .. dir_count : Len(Directory[i].filename) \in 1 .. FILENAME_LEN
    /\ \A i \in 1 .. dir_count :
          Directory[i].filetype = 2 => Directory[i].inode_num \in Inodes
    /\ \A n \in Inodes : length_of_file[n] \in Nat
    /\ Cut \subseteq Inodes
    /\ StdinNames \cap StdoutNames = {}
    /\ Requests \subseteq Nat

VARIABLES
    current_pid,  \* -1 before the first execute
    file_array,   \* of the PCB of each slot
    dir_index,    \* where the next dir_read of anyone starts
    lister,       \* history: the descriptor that opened a directory last, as
                  \* long as no other has read one since
    names         \* history: the names it has read

history == <<lister, names>>
vars == <<current_pid, file_array, dir_index, history>>

NoOne == <<>>
Ops == {"NULL", "stdin", "stdout", "rtc", "dir", "regular"}
Descriptor == [optable_ptr : Ops, inode : Inodes \cup {-1},
               file_position : Nat, flags : {0, 1}]

TypeOK ==
    /\ current_pid \in Slots \cup {-1}
    /\ file_array \in [Slots -> [Fds -> Descriptor]]
    /\ dir_index \in 0 .. dir_count
    /\ lister \in (Slots \X Fds) \cup {NoOne}
    /\ Len(names) <= dir_count

Init ==
    /\ current_pid = -1
    /\ file_array = [s \in Slots |-> [f \in Fds |->
                        [optable_ptr |-> "NULL", inode |-> -1,
                         file_position |-> 0, flags |-> 0]]]
    /\ dir_index = 0
    /\ lister = NoOne /\ names = <<>>

Up == current_pid >= 0
Mine == file_array[current_pid]
Me(f) == <<current_pid, f>>

-----------------------------------------------------------------------------
(* execute and halt                                                        *)

\* Mutant: the loop of execute ends one descriptor early.
FreshButLast(array) ==
    [f \in Fds |->
       IF f \in {0, 1}
       THEN [optable_ptr |-> IF f = 0 THEN "stdin" ELSE "stdout", inode |-> -1,
             file_position |-> 0, flags |-> 1]
       ELSE IF f = MAX_FILE_DESCRIPTOR - 1 THEN array[f]
       ELSE [array[f] EXCEPT !.flags = 0, !.inode = -1, !.file_position = 0]]

\* What execute makes of the array it finds: optable_ptr is not assigned.
Fresh(array) ==
    [f \in Fds |->
       IF f \in {0, 1}
       THEN [optable_ptr |-> IF f = 0 THEN "stdin" ELSE "stdout", inode |-> -1,
             file_position |-> 0, flags |-> 1]
       ELSE [array[f] EXCEPT !.flags = 0, !.inode = -1, !.file_position = 0]]

\* What halt makes of it: it stops at the first descriptor not in use.
Closed(array) ==
    [f \in Fds |->
       IF \A g \in 0 .. f : array[g].flags # 0
       THEN [optable_ptr |-> "NULL", inode |-> -1, file_position |-> 0,
             flags |-> 0]
       ELSE array[f]]

\* The history of descriptors that are no more.
Forget(ds) ==
    /\ lister' = IF lister \in ds THEN NoOne ELSE lister
    /\ names' = IF lister \in ds THEN <<>> ELSE names

Execute ==
    /\ current_pid < MAX_PROC - 1
    /\ current_pid' = current_pid + 1
    /\ file_array' = [file_array EXCEPT ![current_pid'] = Fresh(@)]
    /\ UNCHANGED <<dir_index, history>>

\* The process in slot 0 executes the shell in its own place.
Halt ==
    /\ Up
    /\ current_pid' = (IF current_pid = 0 THEN 0 ELSE current_pid - 1)
    /\ file_array' = [file_array EXCEPT ![current_pid] =
                        IF current_pid = 0 THEN Fresh(Closed(@)) ELSE Closed(@)]
    /\ Forget({Me(f) : f \in Fds})
    /\ UNCHANGED dir_index

-----------------------------------------------------------------------------
(* open                                                                    *)

\* Mutant: as many characters as were passed are compared.
SamePrefix(filename, entry) ==
    Len(filename) \in 1 .. FILENAME_LEN /\ IsPrefix(filename, entry)

\* strncmp over the length of the name passed, and the lengths.
SameName(filename, entry) ==
    /\ Len(filename) \in 1 .. FILENAME_LEN
    /\ IsPrefix(filename, entry) /\ Len(entry) = Len(filename)

\* read_dentry_by_name: the first entry of that name.
IsEntry(i, filename) ==
    /\ SameName(filename, Directory[i].filename)
    /\ \A j \in 1 .. i - 1 : ~SameName(filename, Directory[j].filename)

Free(f) == f >= 2 /\ Mine[f].flags = 0 /\ \A g \in 2 .. f - 1 : Mine[g].flags # 0
IsDevice(filename) == filename \in StdinNames \cup StdoutNames

\* The two standard descriptors are opened once more, whatever the rest of
\* the name.
OpenStandard(filename) ==
    /\ Up /\ IsDevice(filename) /\ \E f \in Fds : Free(f)
    /\ LET f == IF filename \in StdinNames THEN 0 ELSE 1
       IN  /\ file_array' = [file_array EXCEPT
                ![current_pid][f].optable_ptr = IF f = 0 THEN "stdin" ELSE "stdout",
                ![current_pid][f].flags = 1]
    /\ UNCHANGED <<current_pid, dir_index, history>>

\* Only a regular file's inode is recorded.
Opened(d, entry) ==
    [d EXCEPT !.flags = 1, !.file_position = 0,
              !.optable_ptr = CASE entry.filetype = 0 -> "rtc"
                                [] entry.filetype = 1 -> "dir"
                                [] entry.filetype = 2 -> "regular",
              !.inode = IF entry.filetype = 2 THEN entry.inode_num ELSE @]

OpenEntry(filename, filetypes, f) ==
    /\ Up /\ ~IsDevice(filename) /\ Free(f)
    /\ \E i \in 1 .. dir_count :
          /\ IsEntry(i, filename)
          /\ Directory[i].filetype \in filetypes
          /\ file_array' = [file_array EXCEPT ![current_pid][f] =
                              Opened(@, Directory[i])]
    /\ UNCHANGED current_pid

\* RTC_open's own state is in Rtc; file_open does nothing.
OpenFile(filename) ==
    /\ \E f \in Fds : OpenEntry(filename, {0, 2}, f)
    /\ UNCHANGED <<dir_index, history>>

\* Mutant: dir_open does nothing.
OpenDirInPlace(filename) ==
    /\ \E f \in Fds : OpenEntry(filename, {1}, f) /\ lister' = Me(f)
    /\ names' = <<>>
    /\ UNCHANGED dir_index

\* dir_open sends everybody's directory reads back to the start.
OpenDir(filename) ==
    /\ \E f \in Fds : OpenEntry(filename, {1}, f) /\ lister' = Me(f)
    /\ dir_index' = 0
    /\ names' = <<>>

-----------------------------------------------------------------------------
(* close, read and write                                                   *)

InUse(f, op) == Up /\ f \in Fds /\ Mine[f].flags # 0 /\ Mine[f].optable_ptr = op

\* Mutant: flags are left.
CloseKeepsFlag(f) ==
    /\ Up /\ f \in Fds \ {0, 1} /\ Mine[f].flags # 0
    /\ file_array' = [file_array EXCEPT ![current_pid][f] =
                        [@ EXCEPT !.optable_ptr = "NULL", !.file_position = 0]]
    /\ UNCHANGED <<current_pid, dir_index, history>>

\* The operations that can be reached here all return 0.
Close(f) ==
    /\ Up /\ f \in Fds \ {0, 1} /\ Mine[f].flags # 0
    /\ file_array' = [file_array EXCEPT ![current_pid][f] =
                        [@ EXCEPT !.flags = 0, !.optable_ptr = "NULL",
                                  !.file_position = 0]]
    /\ Forget({Me(f)})
    /\ UNCHANGED <<current_pid, dir_index>>

\* What read_data of n bytes of a file, from position p, may return.
ReadData(inode, p, n) ==
    LET size == length_of_file[inode]
    IN  IF p >= size THEN {0}
        ELSE IF p + n < size THEN {n}
        ELSE {size - p} \cup (IF inode \in Cut THEN {-1} ELSE {})

\* Mutant: a failure moves the position, too.
FileReadUnchecked(f, nbytes, result) ==
    /\ InUse(f, "regular")
    /\ result \in ReadData(Mine[f].inode, Mine[f].file_position, nbytes)
    /\ file_array' = [file_array EXCEPT ![current_pid][f].file_position =
                                            @ + result]
    /\ UNCHANGED <<current_pid, dir_index, history>>

\* Mutant: nothing moves it.
FileReadInPlace(f, nbytes, result) ==
    /\ InUse(f, "regular")
    /\ result \in ReadData(Mine[f].inode, Mine[f].file_position, nbytes)
    /\ UNCHANGED vars

FileRead(f, nbytes, result) ==
    /\ InUse(f, "regular")
    /\ result \in ReadData(Mine[f].inode, Mine[f].file_position, nbytes)
    /\ file_array' = [file_array EXCEPT ![current_pid][f].file_position =
                                            IF result = -1 THEN @ ELSE @ + result]
    /\ UNCHANGED <<current_pid, dir_index, history>>

\* The name behind the last one anybody read.
DirReadName(f) ==
    /\ InUse(f, "dir") /\ dir_index < dir_count
    /\ dir_index' = dir_index + 1
    /\ lister' = IF lister = Me(f) THEN lister ELSE NoOne
    /\ names' = IF lister = Me(f)
                THEN Append(names, Directory[dir_index + 1].filename) ELSE <<>>
    /\ UNCHANGED <<current_pid, file_array>>

\* 0 is returned.
DirReadEnd(f) ==
    /\ InUse(f, "dir") /\ dir_index >= dir_count
    /\ UNCHANGED vars

Next ==
    \/ Execute
    \/ Halt
    \/ \E filename \in Names : \/ OpenStandard(filename)
                               \/ OpenFile(filename)
                               \/ OpenDir(filename)
    \/ \E f \in Fds : Close(f)
    \/ \E f \in Fds, nbytes \in Requests :
          \E result \in {-1} \cup 0 .. nbytes : FileRead(f, nbytes, result)
    \/ \E f \in Fds : DirReadName(f) \/ DirReadEnd(f)

Spec == Init /\ [][Next]_vars

-----------------------------------------------------------------------------
(* What must hold                                                          *)

(***************************************************************************)
(* read, write and close call through optable_ptr of any descriptor with   *)
(* flags set, and file_read trusts its inode and position.  In a live      *)
(* process these are always there, whatever earlier owners of the slot     *)
(* left behind.                                                            *)
(***************************************************************************)
UsableDescriptors ==
    \A s \in 0 .. current_pid :
       /\ file_array[s][0].flags = 1 /\ file_array[s][0].optable_ptr = "stdin"
       /\ file_array[s][1].flags = 1 /\ file_array[s][1].optable_ptr = "stdout"
       /\ \A f \in Fds \ {0, 1} :
             LET d == file_array[s][f]
             IN  d.flags # 0 =>
                   \/ d.optable_ptr \in {"rtc", "dir"}
                   \/ /\ d.optable_ptr = "regular"
                      /\ d.inode \in Inodes
                      /\ d.file_position <= length_of_file[d.inode]

(***************************************************************************)
(* The descriptors in use are handles as Handles describes them: a program *)
(* starts with two, has no others than those it opened itself, and reads a *)
(* file from its start, each read where the last one of that handle ended. *)
(***************************************************************************)
Device(op) == <<op, -1>>
File(inode) == <<"regular", inode>>
HandleOf(d) ==
    [object |-> IF d.optable_ptr = "regular" THEN File(d.inode)
                ELSE Device(d.optable_ptr),
     pos |-> d.file_position]

HandlesOf(array) ==
    [f \in {g \in Fds : array[g].flags # 0} |-> HandleOf(array[f])]

AllHandles == [i \in 1 .. current_pid + 1 |-> HandlesOf(file_array[i - 1])]

Abstract == INSTANCE Handles WITH
    Depth <- MAX_PROC,
    Devices <- {Device(op) : op \in Ops \ {"NULL", "regular"}},
    Stdin <- Device("stdin"), Stdout <- Device("stdout"),
    Files <- {File(inode) : inode \in Inodes},
    Size <- [file \in {File(inode) : inode \in Inodes} |-> length_of_file[file[2]]],
    Counts <- Requests,
    handles <- AllHandles

ImplementsHandles == Abstract!Spec

(***************************************************************************)
(* A directory listed through one descriptor, with no other opening or     *)
(* reading a directory meanwhile, yields every name once, in the order of  *)
(* the entries, and then 0.                                                *)
(***************************************************************************)
EveryNameOnce ==
    lister # NoOne =>
       /\ \A k \in 1 .. Len(names) : names[k] = Directory[k].filename
       /\ dir_index >= dir_count => Len(names) = dir_count
=============================================================================
