----------------------------- MODULE ProcStack -----------------------------
(***************************************************************************)
(* What execute and halt promise to user programs: the programs of the     *)
(* machine form one call stack.  execute pushes a program with its         *)
(* argument, halt pops the running one and hands its parent one of two     *)
(* results, and the shell at the bottom is replaced by a new shell.        *)
(* Nothing here speaks of process tables, stacks, pages or descriptors.    *)
(***************************************************************************)
EXTENDS Integers, Sequences

CONSTANTS
    Depth,      \* the number of processes that can be alive at once
    Programs,   \* names of executable files
    Shell,      \* the program entry() and halt() start
    Arguments,  \* the argument strings of commands
    NoArgument, \* the empty argument string
    Quiet       \* in eax: no result of interest

VARIABLES
    stack,      \* the programs alive, the running one last
    result      \* what the last system call left for the running program

Results == {-2, -1, 0, 256}

Frame == [prog : Programs, arg : Arguments]
TypeOK ==
    /\ stack \in Seq(Frame)
    /\ Len(stack) <= Depth
    /\ result \in Results \cup Arguments \cup {Quiet}

Init == stack = <<>> /\ result = Quiet

ShellFrame == [prog |-> Shell, arg |-> NoArgument]

\* The kernel starts the first shell.
Boot == stack = <<>> /\ stack' = <<ShellFrame>> /\ result' = Quiet

\* The running program starts another one and waits for it.
Start(p, a) ==
    /\ stack # <<>> /\ Len(stack) < Depth
    /\ stack' = Append(stack, [prog |-> p, arg |-> a])
    /\ result' = Quiet

\* A call that fails: bad command, bad parameter, or no room for a process.
Refuse ==
    /\ stack # <<>>
    /\ result' \in {-1} \cup (IF Len(stack) = Depth THEN {-2} ELSE {})
    /\ UNCHANGED stack

\* The running program ends; its parent, which had called execute, goes on.
Finish(r) ==
    /\ Len(stack) > 1
    /\ stack' = SubSeq(stack, 1, Len(stack) - 1)
    /\ result' = r

\* The bottom shell ends and a new one takes its place.
Restart == Len(stack) = 1 /\ stack' = <<ShellFrame>> /\ result' = Quiet

\* A program learns the argument of the command that started it.
TellArgument ==
    /\ stack # <<>> /\ stack[Len(stack)].arg # NoArgument
    /\ result' = stack[Len(stack)].arg
    /\ UNCHANGED stack

\* Any other call succeeds; only whether it says 0 is kept of its result.
Serve == stack # <<>> /\ result' \in {0, Quiet} /\ UNCHANGED stack

Next ==
    \/ Boot
    \/ \E p \in Programs, a \in Arguments : Start(p, a)
    \/ Refuse
    \/ \E r \in {0, 256} : Finish(r)
    \/ Restart
    \/ TellArgument
    \/ Serve

Spec == Init /\ [][Next]_<<stack, result>>
=============================================================================
