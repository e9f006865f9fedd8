--------------------------- MODULE ProcessProofs ---------------------------
(***************************************************************************)
(* Proofs about Process, for every number of slots, descriptors, programs, *)
(* arguments and for any content of RAM at boot.                           *)
(***************************************************************************)
EXTENDS Process, SequenceTheorems, TLAPS

\* The pid field of a live PCB: execute reads the parent's to link a child.
PidsInPlace == Up => \A s \in 0 .. current_pid : pcb[s].pid = s

\* Before entry() calls execute nothing is taken and stack 0 is in use.
BeforeBoot ==
    ~Booted => /\ ctx = NoPid /\ esp0 = 0
               /\ \A s \in Slots : process_table[s] = 0

(***************************************************************************)
(* The inductive invariant.  None of its parts is inductive alone:         *)
(* execute keeps ResumeChain because the slot it takes is the next one     *)
(* (TableIsPrefix) and its frame lies on the caller's own stack            *)
(* (OneRunningProcess); halt keeps OneRunningProcess because of what       *)
(* ResumeChain says about the frame it jumps to.                           *)
(***************************************************************************)
IInv ==
    /\ TypeOK
    /\ BeforeBoot
    /\ TableIsPrefix
    /\ OneRunningProcess
    /\ ResumeChain
    /\ PidsInPlace

USE MaxProcAssumption, DescriptorAssumption, ProgramAssumption

-----------------------------------------------------------------------------
(* Lemmas about execute's slot and halt's PCB                              *)

\* The slot execute takes is the one above the running process.
LEMMA SlotIsNext ==
    ASSUME IInv, Up, NEW s \in Slots, FirstFree(process_table, s)
    PROVE  s = current_pid + 1
<1> USE DEF IInv, TypeOK, Slots, NoPid, Up
<1>1. current_pid \in 0 .. MAX_PROC - 1
  BY DEF OneRunningProcess
<1>2. process_table[s] = 0
  BY DEF FirstFree
<1>3. s > current_pid
  BY <1>1, <1>2 DEF TableIsPrefix
<1>4. \A t \in 0 .. s - 1 : t <= current_pid
  BY <1>1 DEF FirstFree, TableIsPrefix
<1>5. s - 1 \in 0 .. s - 1
  BY <1>1, <1>3
<1> QED
  BY <1>1, <1>3, <1>4, <1>5

\* What the close loop leaves is still a PCB, also when it overruns.
LEMMA AfterClosingType ==
    ASSUME TypeOK, NEW s \in Slots
    PROVE  /\ AfterClosing(s) \in Pcb
           /\ AfterClosing(s).frame # NoPid => AfterClosing(s) = pcb[s]
<1>1. pcb[s] \in Pcb
  BY DEF TypeOK
<1>2. 0 \in Slots
  BY DEF Slots
<1> QED
  BY <1>1, <1>2 DEF AfterClosing, Pcb, NoPid

\* The second half of execute keeps every variable it assigns in its type.
LEMMA LoadType ==
    ASSUME TypeOK, NEW s \in Slots, NEW prog \in Programs,
           NEW arg \in Arguments, NEW table \in [Slots -> {0, 1}],
           NEW pcbs \in [Slots -> Pcb], Load(s, prog, arg, table, pcbs),
           files' = [files EXCEPT ![s] = {0, 1}],
           kstack' \in [Slots -> Slots \cup {NoPid}]
    PROVE  TypeOK'
<1> USE DEF Load, TypeOK
<1>1. process_table' \in [Slots -> {0, 1}]
  OBVIOUS
<1>2. FrameOf(s) \in Frames
  BY DEF Frames
<1>3. image' \in [Frames -> Programs \cup {NoProgram}]
  BY <1>2
<1>4. pcb' \in [Slots -> Pcb]
  <2>1. (IF s = 0 THEN s ELSE pcbs[s - 1].pid) \in Slots
    <3>1. CASE s = 0
      BY <3>1
    <3>2. CASE s # 0
      <4>1. s - 1 \in Slots
        BY <3>2 DEF Slots
      <4>2. pcbs[s - 1] \in Pcb
        BY <4>1
      <4> QED
        BY <3>2, <4>2 DEF Pcb
    <3> QED
      BY <3>1, <3>2
  <2> DEFINE new == [pid |-> s,
                     parent_pid |-> IF s = 0 THEN s ELSE pcbs[s - 1].pid,
                     frame |-> esp0, args |-> arg,
                     saved_esp |-> pcbs[s].saved_esp]
  <2>2. pcbs[s].saved_esp \in BOOLEAN
    BY DEF Pcb
  <2>3. new \in Pcb
    BY <2>1, <2>2 DEF Pcb
  <2> HIDE DEF new
  <2>4. pcb' = [pcbs EXCEPT ![s] = new]
    BY DEF new
  <2> QED
    BY <2>3, <2>4
<1>5. files' \in [Slots -> SUBSET Fds]
  BY DEF Fds
<1> QED
  BY <1>1, <1>2, <1>3, <1>4, <1>5

-----------------------------------------------------------------------------
(* One lemma per kind of step                                              *)

LEMMA InitInv == Init => IInv
<1> SUFFICES ASSUME Init PROVE IInv
  OBVIOUS
<1> USE DEF Init, Slots, NoPid
<1>1. TypeOK
  <2>1. pcb \in [Slots -> Pcb]
    BY DEF Pcb
  <2> QED
    BY <2>1 DEF TypeOK, Fds, Frames, FrameOf
<1> QED
  BY <1>1 DEF IInv, BeforeBoot, TableIsPrefix, OneRunningProcess,
              ResumeChain, PidsInPlace, Up, Booted

LEMMA BootInv == IInv /\ Boot => IInv'
<1> SUFFICES ASSUME IInv, Boot PROVE IInv'
  OBVIOUS
<1>1. PICK s \in Slots : /\ FirstFree(process_table, s)
                         /\ Load(s, Shell, NoArgument, process_table, pcb)
                         /\ files' = [files EXCEPT ![s] = {0, 1}]
  BY DEF Boot
<1>2. TypeOK'
  BY <1>1, LoadType DEF IInv, TypeOK, Boot
<1>3. s = 0
  <2>1. process_table[0] = 0 /\ 0 \in Slots
    BY DEF IInv, BeforeBoot, Boot, Slots
  <2>2. s > 0 => 0 \in 0 .. s - 1
    BY DEF Slots
  <2> QED
    BY <1>1, <2>1, <2>2 DEF FirstFree, Slots
<1>4. /\ current_pid' = 0 /\ ctx' = 0 /\ esp0' = 0
      /\ pde' = FrameOf(0) /\ tlb' = pde'
      /\ process_table' = [process_table EXCEPT ![0] = 1]
      /\ pcb'[0].pid = 0
  BY <1>1, <1>3 DEF Load, IInv, TypeOK
<1>5. \A t \in Slots : process_table[t] = 0
  BY DEF IInv, BeforeBoot, Boot
<1>6. TableIsPrefix'
  BY <1>4, <1>5 DEF TableIsPrefix, Slots, IInv, TypeOK
<1> QED
  BY <1>2, <1>4, <1>6
     DEF IInv, BeforeBoot, Booted, OneRunningProcess, ResumeChain,
         PidsInPlace, NoPid, Slots

LEMMA ExecuteInv ==
    ASSUME IInv, NEW prog \in Programs, NEW arg \in Arguments,
           Execute(prog, arg)
    PROVE  IInv'
<1>1. PICK s \in Slots : /\ FirstFree(process_table, s)
                         /\ Load(s, prog, arg, process_table, pcb)
                         /\ files' = [files EXCEPT ![s] = {0, 1}]
  BY DEF Execute
<1>2. Up /\ kstack' = [kstack EXCEPT ![esp0] = ctx]
  BY DEF Execute
<1>3. s = current_pid + 1
  BY <1>1, <1>2, SlotIsNext
<1>4. TypeOK'
  BY <1>1, <1>2, LoadType DEF IInv, TypeOK
<1>5. current_pid \in Slots /\ esp0 = current_pid /\ ctx = current_pid
  BY <1>2 DEF IInv, OneRunningProcess, Up, TypeOK
<1>6. /\ current_pid' = s /\ ctx' = s /\ esp0' = s
      /\ pde' = FrameOf(s) /\ tlb' = pde'
      /\ process_table' = [process_table EXCEPT ![s] = 1]
  BY <1>1 DEF Load
<1>7. /\ pcb'[s].pid = s /\ pcb'[s].frame = s - 1
      /\ pcb'[s].parent_pid = s - 1
      /\ \A t \in Slots \ {s} : pcb'[t] = pcb[t]
  <2>1. s # 0 /\ s - 1 = current_pid
    BY <1>3, <1>5 DEF Slots
  <2>2. pcb[s - 1].pid = s - 1
    BY <1>2, <1>5, <2>1 DEF IInv, PidsInPlace, Slots
  <2>3. pcb' = [pcb EXCEPT ![s] =
                  [pid |-> s, parent_pid |-> pcb[s - 1].pid, frame |-> esp0,
                   args |-> arg, saved_esp |-> pcb[s].saved_esp]]
    BY <1>1, <2>1 DEF Load
  <2> QED
    BY <1>5, <2>1, <2>2, <2>3 DEF IInv, TypeOK
<1>8. OneRunningProcess' /\ BeforeBoot'
  BY <1>6 DEF OneRunningProcess, BeforeBoot, Booted, NoPid, Slots
<1>9. TableIsPrefix'
  BY <1>2, <1>3, <1>5, <1>6 DEF TableIsPrefix, Slots, IInv, TypeOK
<1>10. PidsInPlace'
  BY <1>2, <1>3, <1>5, <1>6, <1>7 DEF PidsInPlace, Slots, IInv
<1>11. ResumeChain'
  <2> SUFFICES ASSUME NEW t \in 1 .. s
               PROVE  /\ pcb'[t].parent_pid = t - 1
                      /\ pcb'[t].frame = t - 1
                      /\ kstack'[t - 1] = t - 1
    BY <1>6 DEF ResumeChain
  <2>1. CASE t = s
    BY <1>2, <1>3, <1>5, <1>7, <2>1 DEF IInv, TypeOK, Slots
  <2>2. CASE t # s
    <3>1. t \in 1 .. current_pid /\ t \in Slots \ {s} /\ t - 1 # esp0
      BY <1>3, <1>5, <2>2 DEF Slots
    <3> QED
      BY <1>2, <1>7, <3>1 DEF IInv, TypeOK, ResumeChain, Slots
  <2> QED
    BY <2>1, <2>2
<1> QED
  BY <1>4, <1>8, <1>9, <1>10, <1>11 DEF IInv

\* Every call that returns to its caller at once.
LEMMA ReturnInv ==
    ASSUME IInv, Up, NEW value \in {-2, -1, 0, Quiet} \cup Arguments,
           Return(value), files' \in [Slots -> SUBSET Fds]
    PROVE  IInv'
<1> USE DEF Return, IInv
<1>1. TypeOK'
  BY DEF TypeOK
<1>2. /\ BeforeBoot' /\ TableIsPrefix' /\ OneRunningProcess' /\ PidsInPlace'
  BY DEF BeforeBoot, Booted, TableIsPrefix, OneRunningProcess, PidsInPlace, Up
<1>3. ResumeChain'
  <2>1. \A t \in 1 .. current_pid : t - 1 # esp0
    BY DEF OneRunningProcess, TypeOK, Slots, NoPid, Up
  <2>2. \A t \in 1 .. current_pid : t - 1 \in Slots
    BY DEF TypeOK, Slots, NoPid
  <2> QED
    BY <2>1, <2>2 DEF ResumeChain, TypeOK, Up
<1> QED
  BY <1>1, <1>2, <1>3

LEMMA HaltToParentInv ==
    ASSUME IInv, NEW status \in Statuses \cup {HALT_EXCEPTION},
           HaltToParent(status)
    PROVE  IInv'
<1> DEFINE s == current_pid
           p == AfterClosing(s)
<1>1. /\ Up /\ s > 0 /\ s \in Slots
  BY DEF HaltToParent, IInv, OneRunningProcess, Up, TypeOK
<1>2. p \in Pcb /\ (p.frame # NoPid => p = pcb[s])
  BY <1>1, AfterClosingType DEF IInv
<1>3. pcb[s].parent_pid = s - 1 /\ pcb[s].frame = s - 1 /\ kstack[s - 1] = s - 1
  BY <1>1 DEF IInv, ResumeChain, Slots
<1>4. /\ files' = [files EXCEPT ![s] = @ \ ClosedByHalt(@)]
      /\ pcb' = [pcb EXCEPT ![s] = p]
      /\ esp0' = p.parent_pid
      /\ pde' = FrameOf(p.parent_pid)
      /\ tlb' = pde'
      /\ process_table' = [process_table EXCEPT ![s] = 0]
      /\ current_pid' = p.parent_pid
      /\ eax' = ReturnValue(status)
      /\ ctx' = IF p.frame = NoPid THEN NoPid ELSE kstack[p.frame]
      /\ kstack' = [t \in Slots |->
                      IF t \in {esp0, p.frame} THEN NoPid ELSE kstack[t]]
      /\ image' = image
  BY DEF HaltToParent
<1> HIDE DEF s, p
<1>5. TypeOK'
  <2>1. p.parent_pid \in Slots /\ p.frame \in Slots \cup {NoPid}
    BY <1>2 DEF Pcb
  <2>2. FrameOf(p.parent_pid) \in Frames
    BY <2>1 DEF Frames
  <2>3. ctx' \in Slots \cup {NoPid}
    BY <1>4, <2>1 DEF IInv, TypeOK
  <2>4. eax' \in {0, 256}
    BY <1>4 DEF ReturnValue
  <2>5. files' \in [Slots -> SUBSET Fds]
    BY <1>4 DEF IInv, TypeOK
  <2> QED
    BY <1>2, <1>4, <2>1, <2>2, <2>3, <2>4, <2>5 DEF IInv, TypeOK
<1>6. BeforeBoot'
  BY <1>2, <1>4 DEF BeforeBoot, Booted, Pcb, Slots, NoPid
<1>7. CASE p.frame = NoPid
  <2>1. ~Up'
    BY <1>4, <1>7 DEF Up
  <2> QED
    BY <1>5, <1>6, <2>1
       DEF IInv, TableIsPrefix, OneRunningProcess, ResumeChain, PidsInPlace
<1>8. CASE p.frame # NoPid
  <2>1. p = pcb[s] /\ p.parent_pid = s - 1 /\ p.frame = s - 1
    BY <1>2, <1>3, <1>8
  <2>2. current_pid' = s - 1 /\ esp0' = s - 1 /\ pcb' = pcb
    BY <1>1, <1>4, <2>1 DEF IInv, TypeOK
  <2>3. ctx' = s - 1
    BY <1>3, <1>4, <1>8, <2>1
  <2>4. OneRunningProcess'
    BY <1>4, <2>1, <2>2, <2>3 DEF OneRunningProcess
  <2>5. TableIsPrefix'
    BY <1>1, <1>4, <2>2 DEF IInv, TypeOK, TableIsPrefix, Slots, s
  <2>6. PidsInPlace'
    BY <1>1, <2>2 DEF IInv, PidsInPlace, Slots, s
  <2>7. ResumeChain'
    <3> SUFFICES ASSUME NEW t \in 1 .. s - 1
                 PROVE  /\ pcb[t].parent_pid = t - 1
                        /\ pcb[t].frame = t - 1
                        /\ kstack'[t - 1] = t - 1
      BY <2>2 DEF ResumeChain
    <3>1. t \in 1 .. current_pid /\ t - 1 \in Slots
      BY <1>1 DEF Slots, s
    <3>2. esp0 = s
      BY <1>1 DEF IInv, OneRunningProcess, s
    <3>3. t - 1 \notin {esp0, p.frame}
      BY <1>1, <2>1, <3>2 DEF Slots
    <3> QED
      BY <1>1, <1>4, <3>1, <3>3 DEF IInv, ResumeChain
  <2> QED
    BY <1>5, <1>6, <2>4, <2>5, <2>6, <2>7 DEF IInv
<1> QED
  BY <1>7, <1>8

LEMMA HaltShellInv ==
    ASSUME IInv, NEW status \in Statuses \cup {HALT_EXCEPTION},
           HaltShell(status)
    PROVE  IInv'
<1> DEFINE table == [process_table EXCEPT ![0] = 0]
           pcbs == [pcb EXCEPT ![0] = AfterClosing(0)]
<1>1. PICK s \in Slots : /\ FirstFree(table, s)
                         /\ Load(s, Shell, NoArgument, table, pcbs)
                         /\ files' = [files EXCEPT ![s] = {0, 1}]
  BY DEF HaltShell
<1>2. Up /\ current_pid = 0 /\ kstack' = [kstack EXCEPT ![esp0] = NoPid]
  BY DEF HaltShell
<1>3. 0 \in Slots
  BY DEF Slots
<1>4. /\ table \in [Slots -> {0, 1}]
      /\ \A t \in Slots : table[t] = 0
  BY <1>2, <1>3 DEF IInv, TypeOK, TableIsPrefix, Slots
<1>5. pcbs \in [Slots -> Pcb]
  BY <1>3, AfterClosingType DEF IInv, TypeOK
<1> HIDE DEF table, pcbs
<1>6. s = 0
  <2>1. s > 0 => 0 \in 0 .. s - 1
    BY DEF Slots
  <2> QED
    BY <1>1, <1>3, <1>4, <2>1 DEF FirstFree, Slots
<1>7. TypeOK'
  <2>1. kstack' \in [Slots -> Slots \cup {NoPid}]
    BY <1>2 DEF IInv, TypeOK
  <2> QED
    BY <1>1, <1>4, <1>5, <2>1, LoadType DEF IInv
<1>8. /\ current_pid' = 0 /\ ctx' = 0 /\ esp0' = 0
      /\ pde' = FrameOf(0) /\ tlb' = pde'
      /\ process_table' = [table EXCEPT ![0] = 1]
      /\ pcb'[0].pid = 0
  BY <1>1, <1>3, <1>5, <1>6 DEF Load
<1>9. TableIsPrefix'
  BY <1>3, <1>4, <1>8 DEF TableIsPrefix, Slots
<1> QED
  BY <1>7, <1>8, <1>9
     DEF IInv, BeforeBoot, Booted, OneRunningProcess, ResumeChain,
         PidsInPlace, NoPid, Slots

-----------------------------------------------------------------------------
LEMMA StepInv == IInv /\ [Next]_vars => IInv'
<1> SUFFICES ASSUME IInv, [Next]_vars PROVE IInv'
  OBVIOUS
<1>0. /\ files \in [Slots -> SUBSET Fds]
      /\ pcb[esp0].args \in Arguments
  BY DEF IInv, TypeOK, Pcb
<1>1. CASE Boot
  BY <1>1, BootInv
<1>2. ASSUME NEW prog \in Programs, NEW arg \in Arguments, Execute(prog, arg)
      PROVE  IInv'
  BY <1>2, ExecuteInv
<1>3. ASSUME NEW name \in BadCommands, ExecuteBad(name) PROVE IInv'
  BY <1>0, <1>3, ReturnInv DEF ExecuteBad
<1>4. ASSUME NEW prog \in Programs, ExecuteFull(prog) PROVE IInv'
  BY <1>0, <1>4, ReturnInv DEF ExecuteFull
<1>5. ASSUME NEW status \in Statuses \cup {HALT_EXCEPTION}, Halt(status)
      PROVE  IInv'
  BY <1>5, HaltToParentInv, HaltShellInv DEF Halt
<1>6. CASE Getargs
  <2>1. PICK value \in {-1} \cup Arguments : Return(value)
    BY <1>0, <1>6 DEF Getargs
  <2> QED
    BY <1>0, <1>6, <2>1, ReturnInv DEF Getargs
<1>7. CASE Open
  <2>1. PICK f \in Fds : files' = [files EXCEPT ![esp0] = @ \cup {f}]
    BY <1>7 DEF Open
  <2>2. files' \in [Slots -> SUBSET Fds]
    BY <1>0, <2>1
  <2> QED
    BY <1>7, <2>2, ReturnInv DEF Open
<1>8. ASSUME NEW f \in Fds, Close(f) PROVE IInv'
  BY <1>0, <1>8, ReturnInv DEF Close
<1>9. CASE FailedCall
  BY <1>0, <1>9, ReturnInv DEF FailedCall
<1>10. CASE UNCHANGED vars
  BY <1>10 DEF vars, IInv, TypeOK, BeforeBoot, Booted, TableIsPrefix, Up,
               OneRunningProcess, ResumeChain, PidsInPlace
<1> QED
  BY <1>1, <1>2, <1>3, <1>4, <1>5, <1>6, <1>7, <1>8, <1>9, <1>10
     DEF Next, Exception

(***************************************************************************)
(* The parts of the invariant the runs check hold in every execution,      *)
(* for every MAX_PROC and whatever RAM holds at boot.                      *)
(***************************************************************************)
THEOREM Invariant == Spec => []IInv
  BY InitInv, StepInv, PTL DEF Spec

\* Every variable keeps its type.
THEOREM TypeCorrect == Spec => []TypeOK
<1>1. IInv => TypeOK
  BY DEF IInv
<1> QED
  BY <1>1, Invariant, PTL

\* The slots in use stay exactly those up to the running process.
THEOREM SlotsStayStacked == Spec => []TableIsPrefix
<1>1. IInv => TableIsPrefix
  BY DEF IInv
<1> QED
  BY <1>1, Invariant, PTL

\* current_pid, TSS, page directory, TLB and registers never disagree.
THEOREM ProcessesAgree == Spec => []OneRunningProcess
<1>1. IInv => OneRunningProcess
  BY DEF IInv
<1> QED
  BY <1>1, Invariant, PTL

\* Every live process can return to its parent, all the way down.
THEOREM ParentsReachable == Spec => []ResumeChain
<1>1. IInv => ResumeChain
  BY DEF IInv
<1> QED
  BY <1>1, Invariant, PTL

(***************************************************************************)
(* No step touches the PCB, descriptors or memory of a waiting process.    *)
(***************************************************************************)
THEOREM WaitingProcessesUntouched == Spec => WaitingUntouched
<1> DEFINE Untouched(s) == /\ pcb'[s] = pcb[s]
                           /\ files'[s] = files[s]
                           /\ image'[FrameOf(s)] = image[FrameOf(s)]
           A == \A s \in Slots :
                   s < current_pid /\ s <= current_pid' => Untouched(s)
<1>1. IInv /\ [Next]_vars => [A]_vars
  <2> SUFFICES ASSUME IInv, Next, NEW s \in Slots,
                      s < current_pid, s <= current_pid'
               PROVE  Untouched(s)
    OBVIOUS
  <2> USE DEF IInv, TypeOK
  <2>1. /\ Booted /\ current_pid \in Slots /\ s # current_pid
    BY DEF Booted, NoPid, Slots
  <2>2. ASSUME NEW prog \in Programs, NEW arg \in Arguments, Execute(prog, arg)
        PROVE  Untouched(s)
    <3>1. PICK t \in Slots : /\ FirstFree(process_table, t)
                             /\ Load(t, prog, arg, process_table, pcb)
                             /\ files' = [files EXCEPT ![t] = {0, 1}]
      BY <2>2 DEF Execute
    <3>2. t = current_pid + 1
      BY <2>2, <3>1, SlotIsNext DEF Execute
    <3>3. s # t /\ FrameOf(s) # FrameOf(t) /\ FrameOf(s) \in Frames
      BY <2>1, <3>2 DEF Slots, FrameOf, Frames
    <3> QED
      BY <3>1, <3>3 DEF Load
  <2>3. ASSUME NEW status \in Statuses \cup {HALT_EXCEPTION}, Halt(status)
        PROVE  Untouched(s)
    <3>1. HaltToParent(status)
      BY <2>1, <2>3 DEF Halt, HaltShell, Slots
    <3>2. pcb' = [pcb EXCEPT ![current_pid] = AfterClosing(current_pid)]
      BY <3>1 DEF HaltToParent
    <3>3. files'[s] = files[s] /\ image' = image
      BY <2>1, <3>1 DEF HaltToParent
    <3> QED
      BY <2>1, <3>2, <3>3
  <2>4. ASSUME NEW value, Return(value), Up,
               \A t \in Slots \ {esp0} : files'[t] = files[t]
        PROVE  Untouched(s)
    BY <2>1, <2>4 DEF Return, OneRunningProcess
  <2>5. CASE Getargs
    BY <2>4, <2>5 DEF Getargs
  <2>6. CASE Open
    BY <2>4, <2>6 DEF Open
  <2>7. ASSUME NEW f \in Fds, Close(f) PROVE Untouched(s)
    BY <2>4, <2>7 DEF Close
  <2>8. CASE FailedCall
    BY <2>4, <2>8 DEF FailedCall
  <2>9. ASSUME NEW name \in BadCommands, ExecuteBad(name) PROVE Untouched(s)
    BY <2>4, <2>9 DEF ExecuteBad
  <2>10. ASSUME NEW prog \in Programs, ExecuteFull(prog) PROVE Untouched(s)
    BY <2>4, <2>10 DEF ExecuteFull
  <2>11. ~Boot
    BY <2>1 DEF Boot
  <2> QED
    BY <2>2, <2>3, <2>5, <2>6, <2>7, <2>8, <2>9, <2>10, <2>11
       DEF Next, Exception
<1> QED
  BY <1>1, Invariant, PTL DEF Spec, WaitingUntouched

-----------------------------------------------------------------------------
(***************************************************************************)
(* Process implements ProcStack, for every value of the constants in which *)
(* RAM is zero at boot (so that halt's close loop cannot run off its       *)
(* array): each step of the kernel is a step of the stack of programs.     *)
(***************************************************************************)

\* No PCB can make the close loop of halt overrun, so no halt goes astray.
NoOverrun ==
    /\ \A s \in Slots : ~pcb[s].saved_esp
    /\ Booted => Up

\* Every slot in use has a program in its frame.
ImagesLoaded ==
    Up => \A s \in 0 .. current_pid : image[FrameOf(s)] \in Programs

RInv == IInv /\ NoOverrun /\ ImagesLoaded

-----------------------------------------------------------------------------
(* The stack of programs as a sequence                                     *)

StackOf(n, img, pcbs) ==
    [i \in 1 .. n |-> [prog |-> img[FrameOf(i - 1)], arg |-> pcbs[i - 1].args]]

LEMMA StackOfSeq ==
    ASSUME NEW n \in 0 .. MAX_PROC, NEW img, NEW pcbs \in [Slots -> Pcb],
           \A s \in 0 .. n - 1 : img[FrameOf(s)] \in Programs
    PROVE  /\ StackOf(n, img, pcbs) \in Seq(Abstract!Frame)
           /\ Len(StackOf(n, img, pcbs)) = n
           /\ \A i \in 1 .. n : StackOf(n, img, pcbs)[i] =
                [prog |-> img[FrameOf(i - 1)], arg |-> pcbs[i - 1].args]
<1>1. ASSUME NEW i \in 1 .. n
      PROVE  [prog |-> img[FrameOf(i - 1)], arg |-> pcbs[i - 1].args]
                \in Abstract!Frame
  <2>1. i - 1 \in 0 .. n - 1 /\ i - 1 \in Slots
    BY DEF Slots
  <2>2. pcbs[i - 1].args \in Arguments
    BY <2>1 DEF Pcb
  <2> QED
    BY <2>1, <2>2 DEF Abstract!Frame
<1>2. StackOf(n, img, pcbs) \in [1 .. n -> Abstract!Frame]
  BY <1>1 DEF StackOf
<1>3. n \in Nat
  OBVIOUS
<1>4. StackOf(n, img, pcbs) \in Seq(Abstract!Frame)
  BY <1>2, <1>3, SeqDef
<1>5. Len(StackOf(n, img, pcbs)) = n
  BY <1>2, <1>3, <1>4, LenProperties
<1> QED
  BY <1>4, <1>5 DEF StackOf

\* What the invariant says of the sequence that stands for ProcStack's stack.
LEMMA CallStackShape ==
    ASSUME RInv
    PROVE  /\ current_pid + 1 \in 0 .. MAX_PROC
           /\ pcb \in [Slots -> Pcb]
           /\ \A s \in 0 .. current_pid : image[FrameOf(s)] \in Programs
           /\ CallStack = StackOf(current_pid + 1, image, pcb)
           /\ CallStack \in Seq(Abstract!Frame)
           /\ Len(CallStack) = current_pid + 1
<1>1. /\ current_pid + 1 \in 0 .. MAX_PROC
      /\ current_pid \in 0 .. MAX_PROC - 1 => Booted
      /\ current_pid \notin 0 .. MAX_PROC - 1 => current_pid = -1
  BY DEF RInv, IInv, TypeOK, Slots, NoPid, Booted
<1>2. pcb \in [Slots -> Pcb]
  BY DEF RInv, IInv, TypeOK
<1>3. \A s \in 0 .. current_pid : image[FrameOf(s)] \in Programs
  BY <1>1 DEF RInv, NoOverrun, ImagesLoaded
<1>4. CallStack = StackOf(current_pid + 1, image, pcb)
  BY DEF CallStack, StackOf
<1> QED
  BY <1>1, <1>2, <1>3, <1>4, StackOfSeq

\* A call that returns at once leaves the stack of programs as it is.
LEMMA ReturnKeepsStack ==
    ASSUME NEW value, Return(value)
    PROVE  CallStack' = CallStack /\ eax' = value
  BY DEF Return, CallStack

-----------------------------------------------------------------------------
(* The invariant of the refinement                                         *)

LEMMA RInit == BootRam = {FALSE} /\ Init => RInv
<1> SUFFICES ASSUME BootRam = {FALSE}, Init PROVE RInv
  OBVIOUS
<1>1. IInv
  BY InitInv
<1> QED
  BY <1>1 DEF RInv, NoOverrun, ImagesLoaded, Init, Booted, Up

\* A step of execute's second half, where the caller's halt, if any, did not
\* overrun.
LEMMA LoadRInv ==
    ASSUME RInv, NEW s \in Slots, NEW prog \in Programs, NEW arg \in Arguments,
           NEW table, Load(s, prog, arg, table, pcb),
           s = 0 \/ (Up /\ s = current_pid + 1), IInv'
    PROVE  RInv'
<1>1. \A t \in Slots : ~pcb'[t].saved_esp
  <2> DEFINE new == [pid |-> s,
                     parent_pid |-> IF s = 0 THEN s ELSE pcb[s - 1].pid,
                     frame |-> esp0, args |-> arg,
                     saved_esp |-> pcb[s].saved_esp]
  <2>1. pcb' = [pcb EXCEPT ![s] = new]
    BY DEF Load
  <2>2. new.saved_esp = pcb[s].saved_esp
    OBVIOUS
  <2> HIDE DEF new
  <2> QED
    BY <2>1, <2>2 DEF RInv, NoOverrun, IInv, TypeOK
<1>2. Up' /\ current_pid' = s
  BY DEF Load, Up, NoPid, Slots
<1>3. ImagesLoaded'
  <2> SUFFICES ASSUME NEW t \in 0 .. s PROVE image'[FrameOf(t)] \in Programs
    BY <1>2 DEF ImagesLoaded
  <2>1. /\ image' = [image EXCEPT ![FrameOf(s)] = prog]
        /\ image \in [Frames -> Programs \cup {NoProgram}]
    BY DEF Load, RInv, IInv, TypeOK
  <2>2. t \in Slots /\ FrameOf(t) \in Frames
    <3>1. t \in Slots
      BY DEF Slots
    <3> QED
      BY <3>1 DEF Frames
  <2>3. CASE t = s
    BY <2>1, <2>2, <2>3
  <2>4. CASE t # s
    <3>1. t \in 0 .. current_pid /\ Up /\ FrameOf(t) # FrameOf(s)
      BY <2>4 DEF FrameOf, Slots, RInv, IInv, TypeOK, NoPid, Up
    <3> QED
      BY <2>1, <2>2, <3>1 DEF RInv, ImagesLoaded
  <2> QED
    BY <2>3, <2>4
<1> QED
  BY <1>1, <1>2, <1>3 DEF RInv, NoOverrun

\* Without an overrun halt reads the PCB as execute left it.
LEMMA NoOverrunAfterClosing ==
    ASSUME RInv, NEW s \in Slots
    PROVE  AfterClosing(s) = pcb[s]
  BY DEF RInv, NoOverrun, AfterClosing, Overruns

\* What halt of a process with a parent does when nothing overran.
LEMMA HaltResumesParent ==
    ASSUME RInv, NEW status, HaltToParent(status)
    PROVE  /\ current_pid > 0 /\ current_pid' = current_pid - 1
           /\ ctx' = current_pid - 1
           /\ pcb' = pcb /\ image' = image
           /\ eax' = ReturnValue(status)
<1> USE DEF RInv, IInv
<1>1. /\ Up /\ current_pid > 0 /\ current_pid \in Slots
  BY DEF HaltToParent, OneRunningProcess, Up, TypeOK
<1>2. AfterClosing(current_pid) = pcb[current_pid]
  BY <1>1, NoOverrunAfterClosing
<1>3. /\ pcb[current_pid].parent_pid = current_pid - 1
      /\ pcb[current_pid].frame = current_pid - 1
      /\ kstack[current_pid - 1] = current_pid - 1
      /\ current_pid - 1 # NoPid
  BY <1>1 DEF ResumeChain, Slots, NoPid
<1>4. /\ pcb' = [pcb EXCEPT ![current_pid] = pcb[current_pid]]
      /\ current_pid' = current_pid - 1
      /\ ctx' = current_pid - 1
      /\ eax' = ReturnValue(status)
      /\ image' = image
  BY <1>2, <1>3 DEF HaltToParent
<1> QED
  BY <1>1, <1>4 DEF TypeOK

\* halt of the shell ends in execute, on the PCBs as they are.
LEMMA HaltShellLoads ==
    ASSUME RInv, NEW status, HaltShell(status)
    PROVE  \E table : Load(0, Shell, NoArgument, table, pcb)
<1> DEFINE table == [process_table EXCEPT ![0] = 0]
           pcbs == [pcb EXCEPT ![0] = AfterClosing(0)]
<1>1. PICK s \in Slots : /\ FirstFree(table, s)
                         /\ Load(s, Shell, NoArgument, table, pcbs)
                         /\ files' = [files EXCEPT ![s] = {0, 1}]
  BY DEF HaltShell
<1>2. 0 \in Slots
  BY DEF Slots
<1>3. pcbs = pcb
  BY <1>2, NoOverrunAfterClosing DEF RInv, IInv, TypeOK
<1>4. table[0] = 0
  BY <1>2 DEF RInv, IInv, TypeOK
<1>5. s > 0 => 0 \in 0 .. s - 1
  BY DEF Slots
<1>6. s = 0
  BY <1>1, <1>4, <1>5 DEF FirstFree, Slots
<1> QED
  BY <1>1, <1>3, <1>6

-----------------------------------------------------------------------------
(* Each kind of step is a step of ProcStack                                *)

\* A program started in the next slot is a program pushed on the stack.
LEMMA LoadPushes ==
    ASSUME RInv, NEW prog \in Programs, NEW arg \in Arguments, NEW table,
           NEW s \in Slots, s = current_pid + 1,
           Load(s, prog, arg, table, pcb)
    PROVE  CallStack' = Append(CallStack, [prog |-> prog, arg |-> arg])
<1> DEFINE new == [prog |-> prog, arg |-> arg]
           n == current_pid + 1
<1>1. /\ n \in 0 .. MAX_PROC /\ n + 1 \in 0 .. MAX_PROC
      /\ pcb \in [Slots -> Pcb]
      /\ CallStack = StackOf(n, image, pcb)
      /\ CallStack \in Seq(Abstract!Frame) /\ Len(CallStack) = n
  BY CallStackShape DEF Slots
<1>2. new \in Abstract!Frame
  BY DEF Abstract!Frame
<1>3. CallStack' = [i \in 1 .. n + 1 |->
                      [prog |-> image'[FrameOf(i - 1)], arg |-> pcb'[i - 1].args]]
  BY <1>1 DEF CallStack, Load
<1>4. ASSUME NEW i \in 1 .. n + 1
      PROVE  [prog |-> image'[FrameOf(i - 1)], arg |-> pcb'[i - 1].args]
               = IF i = n + 1 THEN new ELSE CallStack[i]
  <2>1. i - 1 \in Slots
    BY <1>1 DEF Slots
  <2>2. FrameOf(i - 1) \in Frames /\ FrameOf(s) \in Frames
    BY <2>1 DEF Frames
  <2>3. pcb'[i - 1].args = IF i - 1 = s THEN arg ELSE pcb[i - 1].args
    BY <1>1, <2>1 DEF Load
  <2>4. image'[FrameOf(i - 1)] = IF i - 1 = s THEN prog ELSE image[FrameOf(i - 1)]
    BY <2>1, <2>2 DEF Load, FrameOf, Slots, RInv, IInv, TypeOK
  <2>5. CASE i = n + 1
    BY <1>1, <2>3, <2>4, <2>5
  <2>6. CASE i # n + 1
    <3>1. i \in 1 .. n /\ i - 1 # s
      BY <1>1, <2>6
    <3> QED
      BY <1>1, <2>3, <2>4, <3>1 DEF StackOf
  <2> QED
    BY <2>5, <2>6
<1> HIDE DEF new, n
<1>5. /\ Append(CallStack, new) \in Seq(Abstract!Frame)
      /\ Len(Append(CallStack, new)) = n + 1
      /\ \A i \in 1 .. n + 1 : Append(CallStack, new)[i]
                                 = IF i = n + 1 THEN new ELSE CallStack[i]
  BY <1>1, <1>2, AppendProperties
<1>6. Append(CallStack, new)
        = [i \in 1 .. n + 1 |-> IF i = n + 1 THEN new ELSE CallStack[i]]
  BY <1>1, <1>5, LenProperties
<1>7. [i \in 1 .. n + 1 |-> [prog |-> image'[FrameOf(i - 1)], arg |-> pcb'[i - 1].args]]
        = [i \in 1 .. n + 1 |-> IF i = n + 1 THEN new ELSE CallStack[i]]
  BY <1>4, Zenon
<1> QED
  BY <1>3, <1>6, <1>7, Zenon DEF new

\* The same on an empty stack, or in place of the only program on it.
LEMMA LoadBottom ==
    ASSUME RInv, NEW prog \in Programs, NEW arg \in Arguments, NEW table,
           Load(0, prog, arg, table, pcb)
    PROVE  CallStack' = <<[prog |-> prog, arg |-> arg]>>
<1>1. 0 \in Slots /\ FrameOf(0) \in Frames
  BY DEF Slots, Frames
<1>2. pcb'[0].args = arg /\ image'[FrameOf(0)] = prog /\ current_pid' = 0
  BY <1>1 DEF Load, RInv, IInv, TypeOK
<1>3. CallStack' = [i \in 1 .. 1 |-> [prog |-> prog, arg |-> arg]]
  BY <1>2 DEF CallStack
<1> QED
  BY <1>3

\* A program that ends is popped.
LEMMA HaltPops ==
    ASSUME RInv, NEW status, HaltToParent(status)
    PROVE  /\ Len(CallStack) > 1
           /\ CallStack' = SubSeq(CallStack, 1, Len(CallStack) - 1)
<1> DEFINE n == current_pid
<1>1. /\ n > 0 /\ current_pid' = n - 1 /\ pcb' = pcb /\ image' = image
  BY HaltResumesParent
<1>2. /\ n \in Nat /\ CallStack = StackOf(n + 1, image, pcb)
      /\ CallStack \in Seq(Abstract!Frame) /\ Len(CallStack) = n + 1
  <2>1. n \in Int
    BY DEF RInv, IInv, TypeOK, Slots, NoPid
  <2> QED
    BY <1>1, <2>1, CallStackShape
<1>3. CallStack' = [i \in 1 .. n |->
                      [prog |-> image[FrameOf(i - 1)], arg |-> pcb[i - 1].args]]
  BY <1>1, <1>2 DEF CallStack
<1>4. \A i \in 1 .. n : CallStack[i] =
           [prog |-> image[FrameOf(i - 1)], arg |-> pcb[i - 1].args]
  BY <1>1, <1>2 DEF StackOf
<1> HIDE DEF n
<1>5. /\ SubSeq(CallStack, 1, n) \in Seq(Abstract!Frame)
      /\ Len(SubSeq(CallStack, 1, n)) = n
      /\ \A i \in 1 .. n : SubSeq(CallStack, 1, n)[i] = CallStack[i]
  <2>1. \A i \in 1 .. n : CallStack[i] \in Abstract!Frame
    BY <1>2, ElementOfSeq
  <2> QED
    BY <1>1, <1>2, <2>1, SubSeqProperties
<1>6. SubSeq(CallStack, 1, n) = [i \in 1 .. n |-> CallStack[i]]
  BY <1>2, <1>5, LenProperties
<1>7. Len(CallStack) > 1 /\ Len(CallStack) - 1 = n
  BY <1>1, <1>2
<1>8. CallStack' = SubSeq(CallStack, 1, n)
  BY <1>3, <1>4, <1>6, Zenon
<1> QED
  BY <1>7, <1>8

-----------------------------------------------------------------------------
\* The invariant of the refinement is preserved.
LEMMA RNext == RInv /\ [Next]_vars => RInv'
<1> SUFFICES ASSUME RInv, [Next]_vars PROVE RInv'
  OBVIOUS
<1>0. IInv'
  BY StepInv DEF RInv
<1>1. CASE Boot
  <2>1. PICK s \in Slots : FirstFree(process_table, s)
                           /\ Load(s, Shell, NoArgument, process_table, pcb)
    BY <1>1 DEF Boot
  <2>2. process_table[0] = 0 /\ (s > 0 => 0 \in 0 .. s - 1)
    BY <1>1 DEF RInv, IInv, BeforeBoot, Boot, Slots
  <2>3. s = 0
    BY <2>1, <2>2 DEF FirstFree, Slots
  <2> QED
    BY <1>0, <2>1, <2>3, LoadRInv, ProgramAssumption
<1>2. ASSUME NEW prog \in Programs, NEW arg \in Arguments, Execute(prog, arg)
      PROVE  RInv'
  <2>1. PICK s \in Slots : FirstFree(process_table, s)
                           /\ Load(s, prog, arg, process_table, pcb)
    BY <1>2 DEF Execute
  <2>2. Up /\ s = current_pid + 1
    BY <1>2, <2>1, SlotIsNext DEF Execute, RInv
  <2> QED
    BY <1>0, <2>1, <2>2, LoadRInv
<1>3. ASSUME NEW status, HaltToParent(status) PROVE RInv'
  <2>1. /\ current_pid > 0 /\ current_pid' = current_pid - 1
        /\ ctx' = current_pid - 1 /\ pcb' = pcb /\ image' = image
    BY <1>3, HaltResumesParent
  <2>2. Up /\ Up' /\ current_pid \in Slots
    BY <1>3, <2>1 DEF HaltToParent, Up, NoPid, RInv, IInv, TypeOK, Slots
  <2> QED
    BY <1>0, <2>1, <2>2 DEF RInv, NoOverrun, ImagesLoaded, Slots
<1>4. ASSUME NEW status, HaltShell(status) PROVE RInv'
  <2>1. PICK table : Load(0, Shell, NoArgument, table, pcb)
    BY <1>4, HaltShellLoads
  <2> QED
    BY <1>0, <2>1, LoadRInv, ProgramAssumption DEF Slots
<1>5. ASSUME NEW value, Up, Return(value) PROVE RInv'
  BY <1>0, <1>5
     DEF Return, RInv, NoOverrun, ImagesLoaded, Booted, Up
<1>6. CASE UNCHANGED vars
  BY <1>0, <1>6 DEF vars, RInv, NoOverrun, ImagesLoaded, Booted, Up
<1> QED
  BY <1>1, <1>2, <1>3, <1>4, <1>5, <1>6
     DEF Next, Halt, Exception, ExecuteBad, ExecuteFull, Getargs, Open, Close,
         FailedCall

LEMMA InitRefines == BootRam = {FALSE} /\ Init => Abstract!Init
<1> SUFFICES ASSUME BootRam = {FALSE}, Init PROVE Abstract!Init
  OBVIOUS
<1>1. current_pid + 1 = 0 /\ eax = Quiet
  BY DEF Init, NoPid
<1>2. CallStack = <<>>
  BY <1>1 DEF CallStack
<1> QED
  BY <1>1, <1>2 DEF Abstract!Init

LEMMA StepRefines ==
    RInv /\ [Next]_vars => [Abstract!Next]_<<CallStack, eax>>
<1> SUFFICES ASSUME RInv, [Next]_vars
             PROVE  [Abstract!Next]_<<CallStack, eax>>
  OBVIOUS
<1>0. /\ CallStack \in Seq(Abstract!Frame)
      /\ Len(CallStack) = current_pid + 1
      /\ current_pid \in Slots \cup {-1}
      /\ Up => current_pid \in Slots /\ esp0 = current_pid
      /\ Booted <=> current_pid # -1
      /\ CallStack = StackOf(current_pid + 1, image, pcb)
  BY CallStackShape
     DEF RInv, IInv, TypeOK, NoPid, Booted, OneRunningProcess, Up
<1>1. CASE Boot
  <2>1. PICK s \in Slots : FirstFree(process_table, s)
                           /\ Load(s, Shell, NoArgument, process_table, pcb)
    BY <1>1 DEF Boot
  <2>2. process_table[0] = 0 /\ (s > 0 => 0 \in 0 .. s - 1)
    BY <1>1 DEF RInv, IInv, BeforeBoot, Boot, Slots
  <2>3. s = 0
    BY <2>1, <2>2 DEF FirstFree, Slots
  <2>4. Len(CallStack) = 0
    BY <1>0, <1>1 DEF Boot
  <2>5. CallStack = <<>>
    BY <1>0, <2>4, EmptySeq
  <2>6. CallStack' = <<Abstract!ShellFrame>> /\ eax' = Quiet
    BY <2>1, <2>3, LoadBottom, ProgramAssumption DEF Abstract!ShellFrame, Load
  <2> QED
    BY <2>5, <2>6 DEF Abstract!Next, Abstract!Boot
<1>2. ASSUME NEW prog \in Programs, NEW arg \in Arguments, Execute(prog, arg)
      PROVE  Abstract!Next
  <2>1. PICK s \in Slots : FirstFree(process_table, s)
                           /\ Load(s, prog, arg, process_table, pcb)
    BY <1>2 DEF Execute
  <2>2. Up /\ s = current_pid + 1
    BY <1>2, <2>1, SlotIsNext DEF Execute, RInv
  <2>3. Len(CallStack) < MAX_PROC /\ CallStack # <<>>
    BY <1>0, <2>2, EmptySeq DEF Slots
  <2>4. CallStack' = Append(CallStack, [prog |-> prog, arg |-> arg])
        /\ eax' = Quiet
    BY <2>1, <2>2, LoadPushes DEF Load
  <2> QED
    BY <2>3, <2>4 DEF Abstract!Next, Abstract!Start
<1>3. ASSUME NEW status, HaltToParent(status) PROVE Abstract!Next
  <2>1. eax' \in {0, 256}
    BY <1>3, HaltResumesParent DEF ReturnValue
  <2> QED
    BY <1>3, <2>1, HaltPops DEF Abstract!Next, Abstract!Finish
<1>4. ASSUME NEW status, HaltShell(status) PROVE Abstract!Next
  <2>1. PICK table : Load(0, Shell, NoArgument, table, pcb)
    BY <1>4, HaltShellLoads
  <2>2. CallStack' = <<Abstract!ShellFrame>> /\ eax' = Quiet
    BY <2>1, LoadBottom, ProgramAssumption DEF Abstract!ShellFrame, Load
  <2>3. Len(CallStack) = 1
    BY <1>0, <1>4 DEF HaltShell
  <2> QED
    BY <2>2, <2>3 DEF Abstract!Next, Abstract!Restart
<1>5. ASSUME Up PROVE CallStack # <<>>
  BY <1>0, <1>5, EmptySeq DEF Slots
<1>6. ASSUME NEW value \in {-2, -1, 0, Quiet}, Up, Return(value),
             value = -2 => Len(CallStack) = MAX_PROC
      PROVE  Abstract!Next
  BY <1>5, <1>6, ReturnKeepsStack
     DEF Abstract!Next, Abstract!Refuse, Abstract!Serve
<1>7. ASSUME NEW prog \in Programs, ExecuteFull(prog) PROVE Abstract!Next
  <2>1. MAX_PROC - 1 \in Slots
    BY DEF Slots
  <2>2. current_pid >= MAX_PROC - 1
    BY <1>7, <2>1 DEF ExecuteFull, RInv, IInv, TableIsPrefix
  <2>3. Len(CallStack) = MAX_PROC
    BY <1>0, <1>7, <2>2 DEF Slots, ExecuteFull
  <2> QED
    BY <1>6, <1>7, <2>3 DEF ExecuteFull
<1>8. CASE Getargs
  <2>1. CASE pcb[esp0].args = NoArgument
    BY <1>6, <1>8, <2>1 DEF Getargs
  <2>2. CASE pcb[esp0].args # NoArgument
    <3>1. /\ Up /\ Return(pcb[esp0].args)
      BY <1>8, <2>2 DEF Getargs
    <3>2. CallStack[Len(CallStack)].arg = pcb[esp0].args
      BY <1>0, <3>1 DEF StackOf, Slots
    <3> QED
      BY <1>5, <2>2, <3>1, <3>2, ReturnKeepsStack
         DEF Abstract!Next, Abstract!TellArgument
  <2> QED
    BY <2>1, <2>2
<1>9. CASE UNCHANGED vars
  BY <1>9 DEF vars, CallStack
<1>10. ASSUME NEW status, Halt(status) PROVE Abstract!Next
  BY <1>3, <1>4, <1>10 DEF Halt
<1>11. ASSUME NEW name \in BadCommands, ExecuteBad(name) PROVE Abstract!Next
  BY <1>6, <1>11 DEF ExecuteBad
<1>12. CASE Open
  <2>1. Up /\ Return(Quiet)
    BY <1>12 DEF Open
  <2> QED
    BY <1>5, <2>1, ReturnKeepsStack DEF Abstract!Next, Abstract!Serve
<1>13. ASSUME NEW f \in Fds, Close(f) PROVE Abstract!Next
  BY <1>6, <1>13 DEF Close
<1>14. CASE FailedCall
  BY <1>6, <1>14 DEF FailedCall
<1> QED
  BY <1>1, <1>2, <1>7, <1>8, <1>9, <1>10, <1>11, <1>12, <1>13, <1>14
     DEF Next, Exception

(***************************************************************************)
(* With RAM zero at boot, the process code of systemcall.c implements the  *)
(* stack of programs, for any number of slots.                             *)
(***************************************************************************)
THEOREM Implementation ==
    ASSUME BootRam = {FALSE}
    PROVE  Spec => ImplementsProcStack
<1>1. Init => RInv /\ Abstract!Init
  BY RInit, InitRefines
<1> QED
  BY <1>1, RNext, StepRefines, PTL DEF Spec, ImplementsProcStack, Abstract!Spec
=============================================================================
