------------------------------ MODULE Process ------------------------------
(***************************************************************************)
(* Process management of systemcall.c: execute, halt, exceptions, getargs, *)
(* and the part of open and close that halt depends on.  One process runs  *)
(* at a time; every other live one waits inside its own call of execute,   *)
(* on its own kernel stack.                                                *)
(*                                                                         *)
(* The code keeps five separate notions of "the running process": the      *)
(* global current_pid, the kernel stack the TSS names, the page directory  *)
(* entry of the user page, the TLB's copy of it, and the registers in the  *)
(* CPU.  execute and halt move each of them by its own piece of arithmetic *)
(* or its own pointer; the invariants say that they stay together.         *)
(*                                                                         *)
(* Execute and halt run with interrupts off and no other process runs      *)
(* meanwhile, so each call is one step.                                    *)
(***************************************************************************)
EXTENDS Integers

CONSTANTS
    MAX_PROC,            \* slots of process_table
    MAX_FILE_DESCRIPTOR, \* length of a PCB's file_array
    Programs,            \* names of executable files
    Shell,               \* "shell"
    BadCommands,         \* names execute refuses: absent, too long, not ELF
    Arguments,           \* argument strings of commands
    NoArgument,          \* the empty one
    Quiet,               \* in eax: no result of interest
    Statuses,            \* what programs pass to halt
    BootRam              \* may the word saved_esp of a PCB be nonzero at boot?

HALT_EXCEPTION == 31

ASSUME MaxProcAssumption == MAX_PROC \in Nat \ {0}
ASSUME DescriptorAssumption == MAX_FILE_DESCRIPTOR \in Nat /\ MAX_FILE_DESCRIPTOR > 2
ASSUME ProgramAssumption ==
    /\ Shell \in Programs
    /\ Programs \cap BadCommands = {}
    /\ NoArgument \in Arguments
    /\ Statuses \subseteq 0..255
    /\ BootRam \subseteq BOOLEAN /\ BootRam # {}

VARIABLES
    process_table,  \* which slots are taken
    current_pid,    \* -1 until the first execute
    pcb,            \* the PCB of each slot, without its file array
    files,          \* the descriptors of each PCB whose flags are nonzero
    esp0,           \* the slot whose kernel stack tss.esp0 points to the top of
    pde, tlb,       \* 4MB frame of the user page: in PDE_TABLE[32], and cached
    image,          \* the program loaded in each 4MB frame
    kstack,         \* the slot whose user registers a kernel stack's top holds
    ctx,            \* the slot whose user registers the CPU holds
    eax             \* what the last system call left in eax for it

vars == <<process_table, current_pid, pcb, files, esp0, pde, tlb, image,
          kstack, ctx, eax>>

Slots == 0 .. MAX_PROC - 1
Fds == 0 .. MAX_FILE_DESCRIPTOR - 1
NoPid == -1            \* also: no frame, and no registers worth returning to
FrameNotShifted(s) == 2 \* mutant: the pid left out of the page's address
FrameOf(s) == s + 2    \* frame 0 is low memory, frame 1 the kernel
Frames == {FrameOf(s) : s \in Slots}
NotPresent == 0
NoProgram == "no program"

(***************************************************************************)
(* A PCB.  frame is the kernel stack parent_esp and parent_ebp point into, *)
(* NoPid for the -1 and 0 that an overrun writes there.  saved_esp is      *)
(* never assigned by the code: it keeps what RAM held at boot, and only    *)
(* whether it is zero matters.                                             *)
(***************************************************************************)
Pcb == [pid : Slots, parent_pid : Slots, frame : Slots \cup {NoPid},
        args : Arguments, saved_esp : BOOLEAN]

TypeOK ==
    /\ process_table \in [Slots -> {0, 1}]
    /\ current_pid \in Slots \cup {NoPid}
    /\ pcb \in [Slots -> Pcb]
    /\ files \in [Slots -> SUBSET Fds]
    /\ esp0 \in Slots
    /\ pde \in Frames \cup {NotPresent}
    /\ tlb \in Frames \cup {NotPresent}
    /\ image \in [Frames -> Programs \cup {NoProgram}]
    /\ kstack \in [Slots -> Slots \cup {NoPid}]
    /\ ctx \in Slots \cup {NoPid}
    /\ eax \in {-2, -1, 0, 256, Quiet} \cup Arguments

\* entry() before its call of execute; boot.S and the TSS start on stack 0.
Init ==
    /\ process_table = [s \in Slots |-> 0]
    /\ current_pid = NoPid
    /\ pcb \in [Slots -> [pid : {0}, parent_pid : {0}, frame : {NoPid},
                          args : {NoArgument}, saved_esp : BootRam]]
    /\ files = [s \in Slots |-> {}]
    /\ esp0 = 0
    /\ pde = NotPresent /\ tlb = NotPresent
    /\ image = [f \in Frames |-> NoProgram]
    /\ kstack = [s \in Slots |-> NoPid]
    /\ ctx = NoPid
    /\ eax = Quiet

Up == ctx # NoPid
Booted == current_pid # NoPid

-----------------------------------------------------------------------------
(* execute                                                                 *)

\* Mutant: the search runs downwards.
LastFree(table, s) == table[s] = 0 /\ \A t \in s + 1 .. MAX_PROC - 1 : table[t] # 0

\* The search of execute: the lowest slot that a table leaves free.
FirstFree(table, s) == table[s] = 0 /\ \A t \in 0 .. s - 1 : table[t] # 0

(***************************************************************************)
(* The second half of execute, from the slot it takes to iret.  The caller *)
(* runs on the kernel stack esp0 names, and that is where the frame saved  *)
(* in the new PCB lies; the parent is whoever sits in the slot below.      *)
(***************************************************************************)
Load(s, prog, arg, table, pcbs) ==
    /\ process_table' = [table EXCEPT ![s] = 1]
    /\ current_pid' = s
    /\ pde' = FrameOf(s)
    /\ tlb' = pde'
    /\ image' = [image EXCEPT ![FrameOf(s)] = prog]
    /\ pcb' = [pcbs EXCEPT ![s] =
                 [pid |-> s,
                  parent_pid |-> IF s = 0 THEN s ELSE pcbs[s - 1].pid,
                  frame |-> esp0,
                  args |-> arg,
                  saved_esp |-> pcbs[s].saved_esp]]
    /\ esp0' = s
    /\ ctx' = s
    /\ eax' = Quiet

\* entry() executes "shell"; there are no user registers to save.
Boot ==
    /\ ~Booted
    /\ \E s \in Slots : FirstFree(process_table, s)
                        /\ Load(s, Shell, NoArgument, process_table, pcb)
                        /\ files' = [files EXCEPT ![s] = {0, 1}]
    /\ UNCHANGED kstack

Execute(prog, arg) ==
    /\ Up
    /\ \E s \in Slots : FirstFree(process_table, s)
                        /\ Load(s, prog, arg, process_table, pcb)
                        /\ files' = [files EXCEPT ![s] = {0, 1}]
    /\ kstack' = [kstack EXCEPT ![esp0] = ctx]

(***************************************************************************)
(* A call that comes straight back: it used the top of the kernel stack    *)
(* the TSS names, so whatever that held is gone.                           *)
(***************************************************************************)
Return(value) ==
    /\ eax' = value
    /\ kstack' = [kstack EXCEPT ![esp0] = NoPid]
    /\ UNCHANGED <<process_table, current_pid, pcb, esp0, pde, tlb, image, ctx>>

\* A command execute cannot parse, find or recognise as a program.
ExecuteBad(name) == Up /\ Return(-1) /\ UNCHANGED files

\* "The processes reach maximum!"
ExecuteFull(prog) ==
    /\ Up
    /\ \A s \in Slots : process_table[s] # 0
    /\ Return(-2)
    /\ UNCHANGED files

-----------------------------------------------------------------------------
(* halt                                                                    *)

ReturnValue(status) == IF status = HALT_EXCEPTION THEN 256 ELSE 0

\* The descriptors halt closes: it stops at the first one not in use.
ClosedByHalt(open) == {f \in Fds : \A g \in 0 .. f : g \in open}

(***************************************************************************)
(* With every descriptor in use the loop does not stop at the end of       *)
(* file_array.  The next element overlays pid, parent_pid, parent_esp,     *)
(* parent_ebp and saved_esp; saved_esp takes the place of flags, and when  *)
(* it is nonzero the other fields are overwritten before halt reads them.  *)
(***************************************************************************)
Overruns(s) == files[s] = Fds /\ pcb[s].saved_esp

\* Mutant: parent_pid is read through the parent's PCB.
ClosingClimbs(s) ==
    [pcb[s] EXCEPT !.parent_pid = pcb[pcb[s].parent_pid].parent_pid]

AfterClosing(s) ==
    IF Overruns(s)
    THEN [pcb[s] EXCEPT !.pid = 0, !.parent_pid = 0, !.frame = NoPid,
                        !.saved_esp = FALSE]
    ELSE pcb[s]

(***************************************************************************)
(* halt of a process that has a parent: back into the frame of the execute *)
(* that started it, and from there to the user registers below that frame. *)
(* A frame or registers that are not there leave the machine in a triple   *)
(* fault, with nothing left to run.                                        *)
(***************************************************************************)
HaltToParent(status) ==
    LET s == current_pid
        p == AfterClosing(s)
    IN  /\ Up /\ s > 0
        /\ files' = [files EXCEPT ![s] = @ \ ClosedByHalt(@)]
        /\ pcb' = [pcb EXCEPT ![s] = p]
        /\ esp0' = p.parent_pid
        /\ pde' = FrameOf(p.parent_pid)
        /\ tlb' = pde'
        /\ process_table' = [process_table EXCEPT ![s] = 0]
        /\ current_pid' = p.parent_pid
        /\ eax' = ReturnValue(status)
        /\ ctx' = IF p.frame = NoPid THEN NoPid ELSE kstack[p.frame]
        /\ kstack' = [t \in Slots |->
                        IF t \in {esp0, p.frame} THEN NoPid ELSE kstack[t]]
        /\ UNCHANGED image

\* Mutant: the slot of the shell is not released first.
HaltKeepsSlot(status) ==
    /\ Up /\ current_pid = 0
    /\ \E s \in Slots : FirstFree(process_table, s)
                        /\ Load(s, Shell, NoArgument, process_table, pcb)
                        /\ files' = [files EXCEPT ![s] = {0, 1}]
    /\ kstack' = [kstack EXCEPT ![esp0] = NoPid]

\* halt of the process in slot 0 executes "shell" where it stands.
HaltShell(status) ==
    /\ Up /\ current_pid = 0
    /\ LET table == [process_table EXCEPT ![0] = 0]
           pcbs == [pcb EXCEPT ![0] = AfterClosing(0)]
       IN  \E s \in Slots : FirstFree(table, s)
                            /\ Load(s, Shell, NoArgument, table, pcbs)
                            /\ files' = [files EXCEPT ![s] = {0, 1}]
    /\ kstack' = [kstack EXCEPT ![esp0] = NoPid]

Halt(status) == HaltToParent(status) \/ HaltShell(status)

\* INT_0 .. INT_19: every processor exception halts the running process.
Exception == Halt(HALT_EXCEPTION)

-----------------------------------------------------------------------------
(* The other calls, as far as processes and halt's loop see them.  The PCB *)
(* of a call is the one at the bottom of the kernel stack it runs on.      *)

\* Mutant: no check for an empty argument.
GetargsUnchecked == Up /\ Return(pcb[esp0].args) /\ UNCHANGED files

Getargs ==
    /\ Up
    /\ Return(IF pcb[esp0].args = NoArgument THEN -1 ELSE pcb[esp0].args)
    /\ UNCHANGED files

\* Mutant: no check that the search found a free descriptor.
OpenUnchecked ==
    /\ Up
    /\ \E f \in 2 .. MAX_FILE_DESCRIPTOR :
          /\ f \notin files[esp0]
          /\ \A g \in 2 .. f - 1 : g \in files[esp0]
          /\ files' = [files EXCEPT ![esp0] = @ \cup {f}]
    /\ Return(Quiet)

\* A file that exists, with a descriptor free: the lowest one is taken.
Open ==
    /\ Up
    /\ \E f \in Fds \ {0, 1} :
          /\ f \notin files[esp0]
          /\ \A g \in 2 .. f - 1 : g \in files[esp0]
          /\ files' = [files EXCEPT ![esp0] = @ \cup {f}]
    /\ Return(Quiet)

Close(f) ==
    /\ Up
    /\ f \in files[esp0] \ {0, 1}
    /\ files' = [files EXCEPT ![esp0] = @ \ {f}]
    /\ Return(0)

\* Calls that fail: a number the wrapper rejects, a bad descriptor, a NULL
\* pointer, a name that is not there, a full file array.
FailedCall == Up /\ Return(-1) /\ UNCHANGED files

Next ==
    \/ Boot
    \/ \E prog \in Programs, arg \in Arguments : Execute(prog, arg)
    \/ \E name \in BadCommands : ExecuteBad(name)
    \/ \E prog \in Programs : ExecuteFull(prog)
    \/ \E status \in Statuses : Halt(status)
    \/ Exception
    \/ Getargs
    \/ Open
    \/ \E f \in Fds : Close(f)
    \/ FailedCall

Spec == Init /\ [][Next]_vars

-----------------------------------------------------------------------------
(* What must hold                                                          *)

(***************************************************************************)
(* execute takes the lowest free slot and picks its parent by subtracting  *)
(* one from it, never looking at current_pid.  That is right only while    *)
(* the slots in use are exactly those up to the running process.           *)
(***************************************************************************)
TableIsPrefix ==
    Up => \A s \in Slots : process_table[s] # 0 <=> s <= current_pid

(***************************************************************************)
(* The process whose registers the CPU holds is the one current_pid names, *)
(* its system calls use its own kernel stack (and with it its own PCB),    *)
(* and its addresses go to its own frame, in the directory and in the TLB. *)
(***************************************************************************)
OneRunningProcess ==
    Up => /\ current_pid = ctx
          /\ esp0 = ctx
          /\ pde = FrameOf(ctx)
          /\ tlb = pde

(***************************************************************************)
(* Each live process can get back to its parent: its PCB names the process *)
(* one slot below, the frame saved in it lies on that process's kernel     *)
(* stack, and nothing has since run over the registers stored there.       *)
(***************************************************************************)
ResumeChain ==
    Up => \A s \in 1 .. current_pid :
             /\ pcb[s].parent_pid = s - 1
             /\ pcb[s].frame = s - 1
             /\ kstack[s - 1] = s - 1

(***************************************************************************)
(* While a process waits in execute, however many programs come and go     *)
(* above it, its PCB, its descriptors and its memory do not change, up to  *)
(* and including the step that resumes it.                                 *)
(***************************************************************************)
WaitingUntouched ==
    [][\A s \in Slots :
          s < current_pid /\ s <= current_pid' =>
             /\ pcb'[s] = pcb[s]
             /\ files'[s] = files[s]
             /\ image'[FrameOf(s)] = image[FrameOf(s)]]_vars

(***************************************************************************)
(* The machine keeps the promises of ProcStack: the programs on the stack  *)
(* are those in the frames of the slots in use, each with the argument in  *)
(* its PCB.                                                                *)
(***************************************************************************)
CallStack ==
    [i \in 1 .. current_pid + 1 |->
        [prog |-> image[FrameOf(i - 1)], arg |-> pcb[i - 1].args]]

Abstract == INSTANCE ProcStack WITH
    Depth <- MAX_PROC, stack <- CallStack, result <- eax

ImplementsProcStack == Abstract!Spec
=============================================================================
