------------------------------- MODULE Calls -------------------------------
(***************************************************************************)
(* The file system calls as a program sees them: what each returns, and    *)
(* what it does to the descriptors.  The operations behind a descriptor    *)
(* are those of its optable_ptr; a call that is refused changes nothing.   *)
(***************************************************************************)
EXTENDS Descriptors

CONSTANT LineCounts   \* what terminal_read returns: 1 to 128

Refused(result) == result = -1 /\ UNCHANGED vars
Unusable(fd) == IF fd \in Fds THEN Mine[fd].flags = 0 ELSE TRUE

Found(filename) ==
    \E i \in 1 .. dir_count : IsEntry(i, filename) /\ Directory[i].filetype \in 0 .. 2

CallOpen(filename, result) ==
    /\ Up
    /\ \/ /\ \A f \in Fds : ~Free(f)
          /\ Refused(result)
       \/ /\ ~IsDevice(filename) /\ ~Found(filename)
          /\ Refused(result)
       \/ /\ OpenStandard(filename)
          /\ result = IF filename \in StdinNames THEN 0 ELSE 1
       \/ /\ OpenFile(filename) \/ OpenDir(filename)
          /\ result \in Fds /\ Free(result)

CallClose(fd, result) ==
    /\ Up
    /\ \/ (fd \in {0, 1} \/ Unusable(fd)) /\ Refused(result)
       \/ Close(fd) /\ result = 0

Terminal(fd) == InUse(fd, "stdin") \/ InUse(fd, "stdout")

\* Mutant: terminal_read does not look at fd.
ReadAnyTerminal(fd, result) ==
    Terminal(fd) /\ result \in LineCounts /\ UNCHANGED vars

\* terminal_read serves descriptor 0 only, though both tables point to it.
ReadTerminal(fd, result) ==
    /\ Terminal(fd) /\ UNCHANGED vars
    /\ IF fd = 0 THEN result \in LineCounts ELSE result = -1

CallRead(fd, nbytes, result) ==
    /\ Up
    /\ \/ (Unusable(fd) \/ nbytes < 0) /\ Refused(result)
       \/ FileRead(fd, nbytes, result)
       \/ DirReadName(fd) /\ result = Len(Directory[dir_index + 1].filename)
       \/ DirReadEnd(fd) /\ result = 0
       \/ InUse(fd, "rtc") /\ result = 0 /\ UNCHANGED vars
       \/ ReadTerminal(fd, result)

\* Files and directories cannot be written; RTC_write is in Rtc.  For 0 bytes
\* terminal_write takes the length of the string, which is 0 where it is asked.
CallWrite(fd, nbytes, result) ==
    /\ Up /\ UNCHANGED vars
    /\ \/ (Unusable(fd) \/ nbytes < 0) /\ result = -1
       \/ (InUse(fd, "regular") \/ InUse(fd, "dir")) /\ result = -1
       \/ InUse(fd, "rtc") /\ result \in {0, -1}
       \/ Terminal(fd) /\ result = IF fd = 1 THEN nbytes ELSE -1

\* The wrapper knows seven calls.
CallNumber(number, result) == Up /\ number \notin 1 .. 7 /\ Refused(result)
=============================================================================
