------------------------- MODULE DescriptorsProofs -------------------------
(***************************************************************************)
(* The file arrays of the PCBs keep the promises of Handles, for any       *)
(* number of slots and descriptors, any directory and any files, whatever  *)
(* earlier owners of a slot have left in it; and a directory is listed     *)
(* name by name.  And the programs get from the calls what they rely on,   *)
(* wherever others have left the slot and the cursor: syserr finds no      *)
(* fault, ls and cat write what is there, and grep prints what it should.  *)
(***************************************************************************)
EXTENDS Programs, SequenceTheorems, FiniteSetTheorems, WellFoundedInduction,
        TLAPS

\* A descriptor that is not one of the first two and can be called through.
Sound(d) ==
    d.flags # 0 =>
      \/ d.optable_ptr \in {"rtc", "dir"} /\ d.file_position = 0
      \/ /\ d.optable_ptr = "regular"
         /\ d.inode \in Inodes
         /\ d.file_position <= length_of_file[d.inode]

IsStandard(d, op) == d.flags = 1 /\ d.optable_ptr = op /\ d.file_position = 0

\* The array of a live process.
Usable(array) ==
    /\ IsStandard(array[0], "stdin") /\ IsStandard(array[1], "stdout")
    /\ \A f \in Fds \ {0, 1} : Sound(array[f])

LiveArraysUsable == \A s \in 0 .. current_pid : Usable(file_array[s])

\* An undisturbed listing has come as far as the cursor.
ListedSoFar ==
    /\ names \in Seq(Seq(STRING))
    /\ lister = NoOne => names = <<>>
    /\ lister # NoOne =>
         /\ Len(names) = dir_index
         /\ \A k \in 1 .. Len(names) : names[k] = Directory[k].filename

IInv == TypeOK /\ LiveArraysUsable /\ ListedSoFar

USE DescriptorsAssumption

-----------------------------------------------------------------------------
(* The directory                                                           *)

LEMMA Entries ==
    /\ dir_count \in Nat
    /\ \A i \in 1 .. dir_count :
          /\ Directory[i] \in [filename : Seq(STRING), filetype : Nat, inode_num : Nat]
          /\ Directory[i].filetype = 2 => Directory[i].inode_num \in Inodes
  BY LenProperties, ElementOfSeq DEF dir_count

-----------------------------------------------------------------------------
(* What execute, halt and open make of an array                            *)

Arrays == [Fds -> Descriptor]

LEMMA FirstFds == 0 \in Fds /\ 1 \in Fds
  BY DEF Fds

\* Whatever the array held, execute leaves one a program can start with.
LEMMA FreshUsable ==
    ASSUME NEW array \in Arrays
    PROVE  /\ Fresh(array) \in Arrays /\ Usable(Fresh(array))
           /\ \A f \in Fds \ {0, 1} : Fresh(array)[f].flags = 0
<1>1. \A f \in Fds \ {0, 1} :
         /\ [array[f] EXCEPT !.flags = 0, !.inode = -1, !.file_position = 0] \in Descriptor
         /\ Fresh(array)[f] =
              [array[f] EXCEPT !.flags = 0, !.inode = -1, !.file_position = 0]
         /\ Fresh(array)[f].flags = 0
  BY DEF Fresh, Arrays, Descriptor
<1>2. /\ Fresh(array)[0] = [optable_ptr |-> "stdin", inode |-> -1,
                            file_position |-> 0, flags |-> 1]
      /\ Fresh(array)[1] = [optable_ptr |-> "stdout", inode |-> -1,
                            file_position |-> 0, flags |-> 1]
  BY FirstFds DEF Fresh
<1>3. Fresh(array)[0] \in Descriptor /\ Fresh(array)[1] \in Descriptor
  BY <1>2 DEF Descriptor, Ops
<1>4. Fresh(array) \in Arrays
  <2>1. Fresh(array) = [f \in Fds |-> Fresh(array)[f]]
    BY DEF Fresh
  <2>2. \A f \in Fds : Fresh(array)[f] \in Descriptor
    BY <1>1, <1>3
  <2> QED
    BY <2>1, <2>2 DEF Arrays
<1>5. \A f \in Fds \ {0, 1} : Sound(Fresh(array)[f])
  BY <1>1 DEF Sound
<1>6. IsStandard(Fresh(array)[0], "stdin") /\ IsStandard(Fresh(array)[1], "stdout")
  BY <1>2 DEF IsStandard
<1> QED
  BY <1>1, <1>4, <1>5, <1>6 DEF Usable

LEMMA ClosedTyped ==
    ASSUME NEW array \in Arrays PROVE Closed(array) \in Arrays
<1>1. [optable_ptr |-> "NULL", inode |-> -1, file_position |-> 0, flags |-> 0]
        \in Descriptor
  BY DEF Descriptor, Ops
<1> QED
  BY <1>1 DEF Closed, Arrays

\* What open makes of a free descriptor, whatever that had been.
LEMMA OpenedSound ==
    ASSUME NEW d \in Descriptor, NEW i \in 1 .. dir_count,
           Directory[i].filetype \in {0, 1, 2}
    PROVE  /\ Opened(d, Directory[i]) \in Descriptor
           /\ Sound(Opened(d, Directory[i]))
           /\ Opened(d, Directory[i]).flags = 1
           /\ Opened(d, Directory[i]).file_position = 0
<1> DEFINE t == Directory[i].filetype
           op == CASE t = 0 -> "rtc" [] t = 1 -> "dir" [] t = 2 -> "regular"
           inode == IF t = 2 THEN Directory[i].inode_num ELSE d.inode
<1>1. Opened(d, Directory[i]) =
        [d EXCEPT !.flags = 1, !.file_position = 0, !.optable_ptr = op,
                  !.inode = inode]
  BY DEF Opened
<1>2. t = 2 => inode \in Inodes /\ length_of_file[inode] \in Nat
  BY Entries
<1>3. inode \in Inodes \cup {-1}
  BY <1>2 DEF Descriptor
<1>4. op \in {"rtc", "dir", "regular"} /\ (op = "regular" => t = 2)
  OBVIOUS
<1> HIDE DEF t, op, inode
<1>5. /\ Opened(d, Directory[i]).flags = 1
      /\ Opened(d, Directory[i]).file_position = 0
      /\ Opened(d, Directory[i]).optable_ptr = op
      /\ Opened(d, Directory[i]).inode = inode
  BY <1>1 DEF Descriptor
<1>6. Opened(d, Directory[i]) \in Descriptor
  <2>1. Opened(d, Directory[i]) = [optable_ptr |-> op, inode |-> inode,
                                   file_position |-> 0, flags |-> 1]
    BY <1>1 DEF Descriptor
  <2>2. op \in Ops
    BY <1>4 DEF Ops
  <2> QED
    BY <1>3, <2>1, <2>2 DEF Descriptor
<1>7. Sound(Opened(d, Directory[i]))
  BY <1>2, <1>4, <1>5 DEF Sound
<1> QED
  BY <1>5, <1>6, <1>7

-----------------------------------------------------------------------------
(* Steps that change one descriptor of the running process                 *)

Becomes(f, d) ==
    /\ UNCHANGED current_pid
    /\ file_array' = [file_array EXCEPT ![current_pid] = [Mine EXCEPT ![f] = d]]

LEMMA MineTyped ==
    ASSUME TypeOK, Up
    PROVE  /\ current_pid \in Slots /\ current_pid \in Nat /\ Mine \in Arrays
           /\ file_array \in [Slots -> Arrays]
<1>1. current_pid \in Slots /\ current_pid \in Nat
  BY DEF TypeOK, Up, Slots
<1>2. file_array \in [Slots -> Arrays]
  BY Zenon DEF TypeOK, Arrays
<1> QED
  BY <1>1, <1>2 DEF Mine

LEMMA MineUsable == IInv /\ Up => Usable(Mine)
<1> SUFFICES ASSUME IInv, Up PROVE Usable(Mine)
  OBVIOUS
<1>1. current_pid \in 0 .. current_pid
  BY MineTyped DEF IInv
<1> QED
  BY <1>1 DEF IInv, LiveArraysUsable, Mine

LEMMA OpenEntryBecomes ==
    ASSUME TypeOK, NEW filename, NEW f \in Fds, NEW types \in SUBSET {0, 1, 2},
           OpenEntry(filename, types, f)
    PROVE  /\ Up /\ f \notin {0, 1} /\ Mine[f].flags = 0
           /\ \E i \in 1 .. dir_count :
                 /\ IsEntry(i, filename) /\ Directory[i].filetype \in types
                 /\ Becomes(f, Opened(Mine[f], Directory[i]))
<1>1. Up /\ f \notin {0, 1} /\ Mine[f].flags = 0
  BY DEF OpenEntry, Free, Fds
<1>2. PICK i \in 1 .. dir_count :
         /\ IsEntry(i, filename) /\ Directory[i].filetype \in types
         /\ file_array' = [file_array EXCEPT ![current_pid][f] =
                             Opened(@, Directory[i])]
  BY DEF OpenEntry
<1>3. Becomes(f, Opened(Mine[f], Directory[i]))
  BY <1>1, <1>2, MineTyped DEF OpenEntry, Becomes, Mine, Arrays
<1> QED
  BY <1>1, <1>2, <1>3

LEMMA CloseBecomes ==
    ASSUME TypeOK, NEW f \in Fds, Close(f)
    PROVE  /\ Up /\ f \notin {0, 1} /\ Mine[f].flags # 0
           /\ Becomes(f, [Mine[f] EXCEPT !.flags = 0, !.optable_ptr = "NULL",
                                         !.file_position = 0])
  BY MineTyped DEF Close, Becomes, Mine, Arrays

\* A read moves the position by what it returns, and that is within the file.
LEMMA ReadWithin ==
    ASSUME NEW inode \in Inodes, NEW p \in Nat, p <= length_of_file[inode],
           NEW nbytes \in Nat, NEW result \in ReadData(inode, p, nbytes)
    PROVE  \/ result = -1
           \/ /\ result \in 0 .. nbytes
              /\ p + result <= length_of_file[inode]
              /\ result = 0 => nbytes = 0 \/ p = length_of_file[inode]
  BY DEF ReadData

LEMMA ReadSound ==
    ASSUME NEW d \in Descriptor, d.optable_ptr = "regular", d.inode \in Inodes,
           NEW n \in Nat, d.file_position + n <= length_of_file[d.inode]
    PROVE  /\ [d EXCEPT !.file_position = @ + n] \in Descriptor
           /\ Sound([d EXCEPT !.file_position = @ + n])
<1> DEFINE pos == d.file_position + n
           e == [d EXCEPT !.file_position = pos]
<1>1. pos \in Nat /\ pos <= length_of_file[d.inode]
  BY DEF Descriptor
<1> HIDE DEF pos
<1>2. /\ e.optable_ptr = "regular" /\ e.inode = d.inode /\ e.file_position = pos
      /\ e \in Descriptor
  BY <1>1 DEF Descriptor
<1> HIDE DEF e
<1>3. Sound(e)
  BY <1>1, <1>2 DEF Sound
<1> QED
  BY <1>2, <1>3 DEF e, pos

LEMMA FileReadBecomes ==
    ASSUME IInv, NEW f \in Fds, NEW nbytes \in Nat, NEW result,
           FileRead(f, nbytes, result)
    PROVE  /\ Up /\ f \notin {0, 1} /\ Mine[f].flags # 0
           /\ Mine[f].optable_ptr = "regular" /\ Mine[f].inode \in Inodes
           /\ \/ result = -1 /\ UNCHANGED vars
              \/ /\ result \in 0 .. nbytes
                 /\ Mine[f].file_position + result <= length_of_file[Mine[f].inode]
                 /\ result = 0 =>
                      nbytes = 0 \/ Mine[f].file_position = length_of_file[Mine[f].inode]
                 /\ Becomes(f, [Mine[f] EXCEPT !.file_position = @ + result])
<1>1. /\ Up /\ Mine[f].flags # 0 /\ Mine[f].optable_ptr = "regular"
      /\ result \in ReadData(Mine[f].inode, Mine[f].file_position, nbytes)
      /\ file_array' = [file_array EXCEPT ![current_pid][f].file_position =
                          IF result = -1 THEN @ ELSE @ + result]
      /\ UNCHANGED <<current_pid, dir_index, history>>
  BY DEF FileRead, InUse
<1>2. /\ current_pid \in Slots /\ current_pid \in Nat /\ Mine \in Arrays
      /\ file_array \in [Slots -> Arrays]
  BY <1>1, MineTyped DEF IInv
<1>3. Usable(Mine)
  BY <1>1, MineUsable
<1>4. f \notin {0, 1}
  BY <1>1, <1>3 DEF Usable, IsStandard
<1>5. /\ Mine[f].inode \in Inodes
      /\ Mine[f].file_position <= length_of_file[Mine[f].inode]
  BY <1>1, <1>3, <1>4 DEF Usable, Sound
<1>6. Mine[f].file_position \in Nat /\ nbytes \in Nat
  BY <1>2 DEF Arrays, Descriptor
<1>7. CASE result = -1
  <2>1. file_array' = file_array
    BY <1>1, <1>2, <1>7 DEF Arrays, Descriptor
  <2> QED
    BY <1>1, <1>4, <1>5, <1>7, <2>1 DEF vars
<1>8. CASE result # -1
  <2>1. Becomes(f, [Mine[f] EXCEPT !.file_position = @ + result])
    BY <1>1, <1>2, <1>8 DEF Becomes, Mine, Arrays, Descriptor
  <2> QED
    BY <1>1, <1>4, <1>5, <1>6, <1>8, <2>1, ReadWithin
<1> QED
  BY <1>7, <1>8

\* In a live process the first two are open: opening them again does nothing.
LEMMA StandardIsOpen ==
    ASSUME IInv, NEW filename, OpenStandard(filename)
    PROVE  UNCHANGED vars
<1> DEFINE f == IF filename \in StdinNames THEN 0 ELSE 1
           op == IF f = 0 THEN "stdin" ELSE "stdout"
<1>1. /\ Up
      /\ file_array' = [file_array EXCEPT ![current_pid][f].optable_ptr = op,
                                          ![current_pid][f].flags = 1]
      /\ UNCHANGED <<current_pid, dir_index, history>>
  BY DEF OpenStandard
<1>2. /\ current_pid \in Slots /\ current_pid \in Nat /\ Mine \in Arrays
      /\ file_array \in [Slots -> Arrays]
  BY <1>1, MineTyped DEF IInv
<1>3. Usable(Mine)
  BY <1>1, MineUsable
<1>4. f \in Fds /\ Mine[f].optable_ptr = op /\ Mine[f].flags = 1
  BY <1>3, FirstFds DEF Usable, IsStandard
<1> HIDE DEF f, op
<1>5. file_array' = file_array
  BY <1>1, <1>2, <1>4 DEF Mine, Arrays, Descriptor
<1> QED
  BY <1>1, <1>5 DEF vars

-----------------------------------------------------------------------------
(* The invariant                                                           *)

\* The two parts of the invariant, which no step but halt changes both of.
ArraysKept ==
    /\ current_pid \in Slots \cup {-1}
    /\ file_array \in [Slots -> [Fds -> Descriptor]]
    /\ LiveArraysUsable

LEMMA BecomesKeeps ==
    ASSUME IInv, Up, NEW f \in Fds \ {0, 1}, NEW d \in Descriptor, Sound(d),
           Becomes(f, d)
    PROVE  ArraysKept'
<1>1. /\ current_pid \in Slots /\ current_pid \in Nat /\ Mine \in Arrays
      /\ file_array \in [Slots -> Arrays]
  BY MineTyped DEF IInv
<1>2. Usable(Mine)
  BY <1>1, MineUsable
<1> DEFINE new == [Mine EXCEPT ![f] = d]
<1>3. new \in Arrays
  BY <1>1 DEF Arrays
<1>4. Usable(new)
  <2>1. new[0] = Mine[0] /\ new[1] = Mine[1]
    BY <1>1, FirstFds DEF Arrays
  <2>2. \A g \in Fds \ {0, 1} : new[g] = IF g = f THEN d ELSE Mine[g]
    BY <1>1 DEF Arrays
  <2> HIDE DEF new
  <2>3. \A g \in Fds \ {0, 1} : Sound(new[g])
    BY <1>2, <2>2 DEF Usable
  <2> QED
    BY <1>2, <2>1, <2>3 DEF Usable
<1>5. file_array' = [file_array EXCEPT ![current_pid] = new]
      /\ current_pid' = current_pid
  BY DEF Becomes
<1> HIDE DEF new
<1>6. file_array' \in [Slots -> Arrays]
  BY <1>1, <1>3, <1>5
<1>7. ASSUME NEW s \in 0 .. current_pid PROVE Usable(file_array'[s])
  <2>1. s \in Slots /\ Usable(file_array[s])
    BY <1>1 DEF IInv, LiveArraysUsable, Slots
  <2> QED
    BY <1>1, <1>4, <1>5, <2>1
<1> QED
  BY <1>1, <1>5, <1>6, <1>7 DEF ArraysKept, LiveArraysUsable, Arrays

LEMMA ExecuteKeeps ==
    ASSUME IInv, Execute
    PROVE  ArraysKept'
<1> DEFINE p == current_pid + 1
<1>1. /\ p \in Slots /\ p \in Nat /\ current_pid = p - 1
      /\ file_array \in [Slots -> Arrays]
      /\ current_pid' = p
      /\ file_array' = [file_array EXCEPT ![p] = Fresh(file_array[p])]
  BY DEF IInv, TypeOK, Execute, Slots, Arrays
<1>2. Fresh(file_array[p]) \in Arrays /\ Usable(Fresh(file_array[p]))
  BY <1>1, FreshUsable
<1> HIDE DEF p
<1>3. ASSUME NEW s \in 0 .. p PROVE Usable(file_array'[s])
  <2>1. s \in Slots /\ (s # p => s \in 0 .. current_pid)
    BY <1>1 DEF Slots
  <2>2. s # p => Usable(file_array[s])
    BY <2>1 DEF IInv, LiveArraysUsable
  <2> QED
    BY <1>1, <1>2, <2>1, <2>2
<1>4. file_array' \in [Slots -> Arrays]
  BY <1>1, <1>2
<1> QED
  BY <1>1, <1>3, <1>4 DEF ArraysKept, LiveArraysUsable, Arrays

LEMMA HaltKeeps ==
    ASSUME IInv, Halt
    PROVE  ArraysKept'
<1> DEFINE closed == Closed(Mine)
<1>1. /\ current_pid \in Slots /\ current_pid \in Nat /\ Mine \in Arrays
      /\ file_array \in [Slots -> Arrays]
  BY MineTyped DEF IInv, Halt
<1>2. closed \in Arrays
  BY <1>1, ClosedTyped
<1>3. Fresh(closed) \in Arrays /\ Usable(Fresh(closed))
  BY <1>2, FreshUsable
<1>4. /\ current_pid' = IF current_pid = 0 THEN 0 ELSE current_pid - 1
      /\ file_array' = [file_array EXCEPT ![current_pid] =
                          IF current_pid = 0 THEN Fresh(closed) ELSE closed]
  BY DEF Halt, Mine
<1> HIDE DEF closed
<1>5. file_array' \in [Slots -> Arrays] /\ current_pid' \in Slots
  BY <1>1, <1>2, <1>3, <1>4 DEF Slots
<1>6. ASSUME NEW s \in 0 .. current_pid' PROVE Usable(file_array'[s])
  <2>1. CASE current_pid = 0
    BY <1>1, <1>3, <1>4, <2>1
  <2>2. CASE current_pid # 0
    <3>1. s \in 0 .. current_pid /\ s # current_pid /\ s \in Slots
      BY <1>1, <1>4, <2>2 DEF Slots
    <3> QED
      BY <1>1, <1>4, <3>1 DEF IInv, LiveArraysUsable
  <2> QED
    BY <2>1, <2>2
<1> QED
  BY <1>5, <1>6 DEF ArraysKept, LiveArraysUsable, Arrays

\* A directory listing: the cursor, and what has been read of it.
Listing ==
    /\ dir_index \in 0 .. dir_count
    /\ lister \in (Slots \X Fds) \cup {NoOne}
    /\ ListedSoFar

LEMMA ListingTyped ==
    Listing => Len(names) <= dir_count
<1> SUFFICES ASSUME Listing PROVE Len(names) <= dir_count
  OBVIOUS
<1>1. CASE lister = NoOne
  <2>1. Len(names) = 0
    BY <1>1, EmptySeq DEF Listing, ListedSoFar
  <2> QED
    BY <2>1, Entries
<1>2. CASE lister # NoOne
  BY <1>2 DEF Listing, ListedSoFar
<1> QED
  BY <1>1, <1>2

\* Closing descriptors ends a listing through one of them, and no other.
LEMMA ForgetKeeps ==
    ASSUME Listing, NEW ds, Forget(ds), UNCHANGED dir_index
    PROVE  Listing'
<1>1. <<>> \in Seq(Seq(STRING))
  BY EmptySeq
<1>2. CASE lister \in ds
  BY <1>1, <1>2 DEF Forget, Listing, ListedSoFar
<1>3. CASE lister \notin ds
  BY <1>3 DEF Forget, Listing, ListedSoFar
<1> QED
  BY <1>2, <1>3

\* dir_open starts one, with the cursor at the start.
LEMMA OpenDirKeeps ==
    ASSUME NEW filename, NEW f \in Fds, current_pid \in Slots,
           lister' = Me(f), dir_index' = 0, names' = <<>>
    PROVE  Listing'
<1>1. <<>> \in Seq(Seq(STRING)) /\ Len(<<>>) = 0
  BY EmptySeq
<1>2. lister' \in Slots \X Fds /\ lister' # NoOne
  BY DEF Me, NoOne
<1>3. dir_index' \in 0 .. dir_count
  BY Entries
<1> QED
  BY <1>1, <1>2, <1>3 DEF Listing, ListedSoFar

\* dir_read takes the listing of its descriptor one name further, and breaks
\* any other off.
LEMMA DirReadKeeps ==
    ASSUME Listing, NEW f \in Fds, DirReadName(f)
    PROVE  Listing'
<1>1. /\ dir_index < dir_count /\ dir_index' = dir_index + 1
      /\ lister' = IF lister = Me(f) THEN lister ELSE NoOne
      /\ names' = IF lister = Me(f)
                  THEN Append(names, Directory[dir_index + 1].filename) ELSE <<>>
  BY DEF DirReadName
<1>2. /\ dir_count \in Nat /\ dir_index \in Nat
      /\ dir_index' \in 0 .. dir_count /\ dir_index + 1 \in 1 .. dir_count
  BY <1>1, Entries DEF Listing
<1>3. CASE lister # Me(f)
  <2>1. <<>> \in Seq(Seq(STRING))
    BY EmptySeq
  <2> QED
    BY <1>1, <1>2, <1>3, <2>1 DEF Listing, ListedSoFar
<1>4. CASE lister = Me(f)
  <2> DEFINE name == Directory[dir_index + 1].filename
  <2>1. /\ lister # NoOne /\ lister' = lister
        /\ names \in Seq(Seq(STRING)) /\ Len(names) = dir_index
        /\ \A k \in 1 .. Len(names) : names[k] = Directory[k].filename
    BY <1>1, <1>4 DEF Me, NoOne, Listing, ListedSoFar
  <2>2. name \in Seq(STRING)
    BY <1>2, Entries
  <2>3. names' = Append(names, name)
    BY <1>1, <1>4
  <2> HIDE DEF name
  <2>4. /\ names' \in Seq(Seq(STRING)) /\ Len(names') = Len(names) + 1
        /\ \A k \in 1 .. Len(names) : names'[k] = names[k]
        /\ names'[Len(names) + 1] = name
    BY <2>1, <2>2, <2>3, AppendProperties
  <2>5. ASSUME NEW k \in 1 .. Len(names') PROVE names'[k] = Directory[k].filename
    <3>1. CASE k \in 1 .. Len(names)
      BY <2>1, <2>4, <3>1
    <3>2. CASE k = Len(names) + 1
      BY <2>1, <2>4, <3>2 DEF name
    <3> QED
      BY <1>2, <2>1, <2>4, <3>1, <3>2
  <2> QED
    BY <1>1, <1>2, <2>1, <2>4, <2>5 DEF Listing, ListedSoFar
<1> QED
  BY <1>3, <1>4

LEMMA Parts == IInv <=> ArraysKept /\ Listing
  BY ListingTyped DEF IInv, TypeOK, Listing, ArraysKept

LEMMA InitInv == Init => IInv
<1> SUFFICES ASSUME Init PROVE IInv
  OBVIOUS
<1>1. [optable_ptr |-> "NULL", inode |-> -1, file_position |-> 0, flags |-> 0]
        \in Descriptor
  BY DEF Descriptor, Ops
<1>2. file_array \in [Slots -> [Fds -> Descriptor]]
  BY <1>1 DEF Init
<1>3. current_pid = -1 /\ LiveArraysUsable
  BY DEF Init, LiveArraysUsable
<1>4. Listing
  BY Entries, EmptySeq DEF Init, Listing, ListedSoFar
<1> QED
  BY <1>2, <1>3, <1>4, Parts DEF ArraysKept

\* What programs can do to the descriptors, with any arguments.
AnyStep ==
    \/ Execute \/ Halt \/ UNCHANGED vars
    \/ \E filename : OpenStandard(filename) \/ OpenFile(filename) \/ OpenDir(filename)
    \/ \E f \in Fds : Close(f) \/ DirReadName(f) \/ DirReadEnd(f)
    \/ \E f \in Fds, nbytes \in Nat : \E result : FileRead(f, nbytes, result)

LEMMA AnyStepKeeps ==
    ASSUME IInv, AnyStep
    PROVE  IInv'
<1>1. Listing /\ (Up => current_pid \in Slots)
  BY Parts, MineTyped DEF IInv
<1>2. ArraysKept' /\ Listing' => IInv'
  BY Parts, PTL
<1>3. CASE UNCHANGED vars
  BY <1>1, <1>3, Parts
     DEF vars, history, IInv, TypeOK, LiveArraysUsable, ListedSoFar, Listing
<1>4. CASE Execute
  <2>1. Listing'
    BY <1>1, <1>4 DEF Execute, history, Listing, ListedSoFar
  <2> QED
    BY <1>4, <1>2, <2>1, ExecuteKeeps
<1>5. CASE Halt
  <2>1. Listing'
    BY <1>1, <1>5, ForgetKeeps DEF Halt
  <2> QED
    BY <1>5, <1>2, <2>1, HaltKeeps
<1>6. ASSUME NEW filename, NEW f \in Fds, NEW types \in SUBSET {0, 1, 2},
             OpenEntry(filename, types, f), Listing'
      PROVE  IInv'
  <2>1. PICK i \in 1 .. dir_count :
           /\ Directory[i].filetype \in types
           /\ Becomes(f, Opened(Mine[f], Directory[i]))
    BY <1>6, OpenEntryBecomes DEF IInv
  <2>2. Up /\ f \in Fds \ {0, 1} /\ Mine[f] \in Descriptor
    BY <1>6, OpenEntryBecomes, MineTyped DEF IInv, Arrays
  <2>3. Opened(Mine[f], Directory[i]) \in Descriptor
        /\ Sound(Opened(Mine[f], Directory[i]))
    BY <2>1, <2>2, OpenedSound
  <2> QED
    BY <1>6, <1>2, <2>1, <2>2, <2>3, BecomesKeeps
<1>7. ASSUME NEW filename, OpenFile(filename) PROVE IInv'
  <2>1. Listing'
    BY <1>1, <1>7 DEF OpenFile, history, Listing, ListedSoFar
  <2> QED
    BY <1>6, <1>7, <2>1 DEF OpenFile
<1>8. ASSUME NEW filename, OpenDir(filename) PROVE IInv'
  <2>1. PICK f \in Fds : OpenEntry(filename, {1}, f) /\ lister' = Me(f)
    BY <1>8 DEF OpenDir
  <2>2. current_pid \in Slots
    BY <1>1, <2>1 DEF OpenEntry
  <2>3. Listing'
    BY <1>8, <2>1, <2>2, OpenDirKeeps DEF OpenDir
  <2> QED
    BY <1>6, <2>1, <2>3
<1>9. ASSUME NEW f \in Fds, Close(f) PROVE IInv'
  <2> DEFINE d == [Mine[f] EXCEPT !.flags = 0, !.optable_ptr = "NULL",
                                  !.file_position = 0]
  <2>1. /\ Up /\ f \in Fds \ {0, 1} /\ Becomes(f, d) /\ Mine[f] \in Descriptor
    BY <1>9, CloseBecomes, MineTyped DEF IInv, Arrays
  <2>2. d \in Descriptor /\ Sound(d)
    BY <2>1 DEF Descriptor, Ops, Sound
  <2>3. Listing'
    BY <1>1, <1>9, ForgetKeeps DEF Close
  <2> QED
    BY <1>2, <2>1, <2>2, <2>3, BecomesKeeps
<1>10. ASSUME NEW f \in Fds, NEW nbytes \in Nat, NEW result,
             FileRead(f, nbytes, result)
      PROVE  IInv'
  <2> DEFINE d == [Mine[f] EXCEPT !.file_position = @ + result]
  <2>1. CASE UNCHANGED vars
    BY <1>3, <2>1
  <2>2. CASE ~UNCHANGED vars
    <3>1. /\ Up /\ f \in Fds \ {0, 1} /\ Mine[f].optable_ptr = "regular"
          /\ Mine[f].inode \in Inodes /\ Becomes(f, d) /\ result \in 0 .. nbytes
          /\ Mine[f].file_position + result <= length_of_file[Mine[f].inode]
      BY <1>10, <2>2, FileReadBecomes
    <3>2. nbytes \in Nat /\ result \in Nat /\ Mine[f] \in Descriptor
      <4>1. nbytes \in Nat /\ Mine \in Arrays
        BY <3>1, MineTyped DEF IInv
      <4> QED
        BY <3>1, <4>1 DEF Arrays
    <3>3. d \in Descriptor /\ Sound(d)
      BY <3>1, <3>2, ReadSound
    <3>4. Listing'
      BY <1>1, <1>10 DEF FileRead, history, Listing, ListedSoFar
    <3> QED
      BY <1>2, <3>1, <3>3, <3>4, BecomesKeeps
  <2> QED
    BY <2>1, <2>2
<1>11. ASSUME NEW f \in Fds, DirReadName(f) PROVE IInv'
  <2>1. Listing'
    BY <1>1, <1>11, DirReadKeeps
  <2> QED
    BY <1>11, <1>2, <2>1
       DEF DirReadName, IInv, TypeOK, LiveArraysUsable, ArraysKept
<1>12. ASSUME NEW filename, OpenStandard(filename) PROVE IInv'
  BY <1>3, <1>12, StandardIsOpen
<1>13. ASSUME NEW f \in Fds, DirReadEnd(f) PROVE IInv'
  BY <1>3, <1>13 DEF DirReadEnd
<1> QED
  BY <1>3, <1>4, <1>5, <1>7, <1>8, <1>9, <1>10, <1>11, <1>12, <1>13 DEF AnyStep

LEMMA StepInv == IInv /\ [Next]_vars => IInv'
<1>1. Requests \subseteq Nat
  OBVIOUS
<1>2. Next => AnyStep
  BY <1>1 DEF Next, AnyStep
<1> QED
  BY <1>2, AnyStepKeeps DEF AnyStep

LEMMA Invariant == Spec => []IInv
  BY InitInv, StepInv, PTL DEF Spec

(***************************************************************************)
(* The types of the descriptors of all slots and of the cursor.            *)
(***************************************************************************)
THEOREM TypeCorrect == Spec => []TypeOK
  BY Invariant, PTL DEF IInv

(***************************************************************************)
(* Whatever earlier processes left in the slots, every descriptor in use   *)
(* of a live process can be called through, and its position is within the *)
(* file.                                                                   *)
(***************************************************************************)
THEOREM AlwaysUsable == Spec => []UsableDescriptors
<1>1. IInv => UsableDescriptors
  <2> SUFFICES ASSUME IInv, NEW s \in 0 .. current_pid
               PROVE  /\ file_array[s][0].flags = 1
                      /\ file_array[s][0].optable_ptr = "stdin"
                      /\ file_array[s][1].flags = 1
                      /\ file_array[s][1].optable_ptr = "stdout"
                      /\ \A f \in Fds \ {0, 1} :
                           LET d == file_array[s][f]
                           IN  d.flags # 0 =>
                                 \/ d.optable_ptr \in {"rtc", "dir"}
                                 \/ /\ d.optable_ptr = "regular"
                                    /\ d.inode \in Inodes
                                    /\ d.file_position <= length_of_file[d.inode]
    BY DEF UsableDescriptors
  <2>1. Usable(file_array[s])
    BY DEF IInv, LiveArraysUsable
  <2> QED
    BY <2>1 DEF Usable, IsStandard, Sound
<1> QED
  BY <1>1, Invariant, PTL

(***************************************************************************)
(* A directory listed without disturbance yields its names in order, each  *)
(* once, before the end is reported, for any directory.                    *)
(***************************************************************************)
THEOREM EachNameOnce == Spec => []EveryNameOnce
<1>1. IInv => EveryNameOnce
  BY Entries DEF IInv, TypeOK, ListedSoFar, EveryNameOnce
<1> QED
  BY <1>1, Invariant, PTL

-----------------------------------------------------------------------------
(* The arrays of the live processes as the sequence Handles speaks of      *)

Handlings(n, arrays) == [i \in 1 .. n |-> HandlesOf(arrays[i - 1])]

LEMMA HandlingsSeq ==
    ASSUME NEW n \in Nat, NEW arrays, NEW S,
           \A i \in 1 .. n : HandlesOf(arrays[i - 1]) \in S
    PROVE  /\ Handlings(n, arrays) \in Seq(S)
           /\ Len(Handlings(n, arrays)) = n
           /\ \A i \in 1 .. n : Handlings(n, arrays)[i] = HandlesOf(arrays[i - 1])
<1>1. Handlings(n, arrays) \in [1 .. n -> S]
  BY DEF Handlings
<1>2. Handlings(n, arrays) \in Seq(S)
  BY <1>1, SeqDef
<1>3. Len(Handlings(n, arrays)) = n
  BY <1>1, <1>2, LenProperties
<1> QED
  BY <1>2, <1>3 DEF Handlings

LEMMA HandlingsShape ==
    ASSUME NEW n \in Nat, NEW arrays
    PROVE  /\ Handlings(n, arrays) \in Seq({HandlesOf(arrays[i - 1]) : i \in 1 .. n})
           /\ Len(Handlings(n, arrays)) = n
           /\ \A i \in 1 .. n : Handlings(n, arrays)[i] = HandlesOf(arrays[i - 1])
<1> DEFINE S == {HandlesOf(arrays[i - 1]) : i \in 1 .. n}
<1>1. \A i \in 1 .. n : HandlesOf(arrays[i - 1]) \in S
  OBVIOUS
<1> HIDE DEF S
<1>2. /\ Handlings(n, arrays) \in Seq(S)
      /\ Len(Handlings(n, arrays)) = n
      /\ \A i \in 1 .. n : Handlings(n, arrays)[i] = HandlesOf(arrays[i - 1])
  BY <1>1, HandlingsSeq
<1> QED
  BY <1>2 DEF S

\* One more live process.
LEMMA HandlingsAppend ==
    ASSUME NEW n \in Nat, NEW old, NEW new,
           \A i \in 1 .. n : new[i - 1] = old[i - 1]
    PROVE  Handlings(n + 1, new) = Append(Handlings(n, old), HandlesOf(new[n]))
<1> DEFINE S == {HandlesOf(new[i - 1]) : i \in 1 .. n + 1}
           newest == HandlesOf(new[n])
<1>1. /\ \A i \in 1 .. n + 1 : HandlesOf(new[i - 1]) \in S
      /\ \A i \in 1 .. n : HandlesOf(old[i - 1]) \in S
      /\ newest \in S
  <2>1. \A i \in 1 .. n + 1 : HandlesOf(new[i - 1]) \in S
    OBVIOUS
  <2>2. \A i \in 1 .. n : i \in 1 .. n + 1 /\ new[i - 1] = old[i - 1]
    OBVIOUS
  <2>3. newest \in S
    <3>1. n + 1 \in 1 .. n + 1 /\ (n + 1) - 1 = n
      OBVIOUS
    <3>2. HandlesOf(new[(n + 1) - 1]) \in S
      BY <2>1, <3>1
    <3> QED
      BY <3>1, <3>2
  <2> HIDE DEF S, newest
  <2>4. \A i \in 1 .. n : HandlesOf(old[i - 1]) \in S
    BY <2>1, <2>2
  <2> QED
    BY <2>1, <2>3, <2>4
<1> HIDE DEF S
<1>2. /\ Handlings(n + 1, new) \in Seq(S) /\ Len(Handlings(n + 1, new)) = n + 1
      /\ \A i \in 1 .. n + 1 : Handlings(n + 1, new)[i] = HandlesOf(new[i - 1])
  <2>1. n + 1 \in Nat
    OBVIOUS
  <2> QED
    BY <1>1, <2>1, HandlingsSeq
<1>3. /\ Handlings(n, old) \in Seq(S) /\ Len(Handlings(n, old)) = n
      /\ \A i \in 1 .. n : Handlings(n, old)[i] = HandlesOf(old[i - 1])
  BY <1>1, HandlingsSeq
<1> HIDE DEF newest
<1>4. /\ Append(Handlings(n, old), newest) \in Seq(S)
      /\ Len(Append(Handlings(n, old), newest)) = n + 1
      /\ \A i \in 1 .. n : Append(Handlings(n, old), newest)[i] = Handlings(n, old)[i]
      /\ Append(Handlings(n, old), newest)[n + 1] = newest
  BY <1>1, <1>3, AppendProperties
<1>5. ASSUME NEW i \in 1 .. n + 1
      PROVE  Handlings(n + 1, new)[i] = Append(Handlings(n, old), newest)[i]
  <2>1. CASE i = n + 1
    BY <1>2, <1>4, <2>1 DEF newest
  <2>2. CASE i # n + 1
    BY <1>2, <1>3, <1>4, <2>2
  <2> QED
    BY <2>1, <2>2
<1>6. Handlings(n + 1, new) = Append(Handlings(n, old), newest)
  BY <1>2, <1>4, <1>5, SeqEqual
<1> QED
  BY <1>6 DEF newest

\* One less.
LEMMA HandlingsPop ==
    ASSUME NEW n \in Nat, NEW old, NEW new,
           \A i \in 1 .. n : new[i - 1] = old[i - 1]
    PROVE  Handlings(n, new) = SubSeq(Handlings(n + 1, old), 1, n)
<1> DEFINE S == {HandlesOf(old[i - 1]) : i \in 1 .. n + 1}
<1>1. \A i \in 1 .. n + 1 : HandlesOf(old[i - 1]) \in S
  OBVIOUS
<1> HIDE DEF S
<1>2. \A i \in 1 .. n : HandlesOf(new[i - 1]) \in S
  BY <1>1
<1>3. /\ Handlings(n + 1, old) \in Seq(S) /\ Len(Handlings(n + 1, old)) = n + 1
      /\ \A i \in 1 .. n + 1 : Handlings(n + 1, old)[i] = HandlesOf(old[i - 1])
  <2>1. n + 1 \in Nat
    OBVIOUS
  <2> QED
    BY <1>1, <2>1, HandlingsSeq
<1>4. /\ Handlings(n, new) \in Seq(S) /\ Len(Handlings(n, new)) = n
      /\ \A i \in 1 .. n : Handlings(n, new)[i] = HandlesOf(new[i - 1])
  BY <1>2, HandlingsSeq
<1>5. /\ SubSeq(Handlings(n + 1, old), 1, n) \in Seq(S)
      /\ Len(SubSeq(Handlings(n + 1, old), 1, n)) = n
      /\ \A i \in 1 .. n : SubSeq(Handlings(n + 1, old), 1, n)[i]
                             = Handlings(n + 1, old)[i]
  <2>1. \A i \in 1 .. n : Handlings(n + 1, old)[i] \in S
    BY <1>1, <1>3
  <2> QED
    BY <1>3, <2>1, SubSeqProperties
<1>6. \A i \in 1 .. n : Handlings(n, new)[i] = SubSeq(Handlings(n + 1, old), 1, n)[i]
  BY <1>3, <1>4, <1>5
<1> QED
  BY <1>4, <1>5, <1>6, SeqEqual

\* The running process's handles change.
LEMMA HandlingsChange ==
    ASSUME NEW n \in Nat \ {0}, NEW old, NEW new,
           \A i \in 1 .. n - 1 : new[i - 1] = old[i - 1]
    PROVE  Handlings(n, new) = [Handlings(n, old) EXCEPT ![n] = HandlesOf(new[n - 1])]
<1>1. \A i \in 1 .. n : i # n => HandlesOf(new[i - 1]) = HandlesOf(old[i - 1])
  <2>1. \A i \in 1 .. n : i # n => i \in 1 .. n - 1
    OBVIOUS
  <2> QED
    BY <2>1
<1>2. n \in 1 .. n
  OBVIOUS
<1> QED
  BY <1>1, <1>2 DEF Handlings

-----------------------------------------------------------------------------
(* What a change of one descriptor is to the handles of its process        *)

LEMMA HandlesShape ==
    ASSUME NEW array
    PROVE  /\ DOMAIN HandlesOf(array) = {g \in Fds : array[g].flags # 0}
           /\ \A g \in Fds : array[g].flags # 0 =>
                               HandlesOf(array)[g] = HandleOf(array[g])
  BY DEF HandlesOf

LEMMA FreshHandles ==
    ASSUME NEW array \in Arrays
    PROVE  HandlesOf(Fresh(array)) = Abstract!Standard
<1>1. /\ Usable(Fresh(array))
      /\ \A f \in Fds \ {0, 1} : Fresh(array)[f].flags = 0
  BY FreshUsable
<1> DEFINE a == Fresh(array)
<1> HIDE DEF a
<1>2. {g \in Fds : a[g].flags # 0} = {0, 1}
  BY <1>1, FirstFds DEF Usable, IsStandard, a
<1>3. /\ HandleOf(a[0]) = [object |-> Device("stdin"), pos |-> 0]
      /\ HandleOf(a[1]) = [object |-> Device("stdout"), pos |-> 0]
  BY <1>1 DEF Usable, IsStandard, HandleOf, a
<1>4. HandlesOf(a) = [f \in {0, 1} |-> HandleOf(a[f])]
  BY <1>2 DEF HandlesOf
<1>5. \A f \in {0, 1} :
         HandleOf(a[f]) = [object |-> IF f = 0 THEN Device("stdin") ELSE Device("stdout"),
                           pos |-> 0]
  BY <1>3
<1> QED
  BY <1>4, <1>5 DEF Abstract!Standard, a

\* A function with one more value.
With(h, f, value) ==
    [g \in DOMAIN h \cup {f} |-> IF g = f THEN value ELSE h[g]]

LEMMA OpenedHandles ==
    ASSUME NEW array \in Arrays, NEW f \in Fds, NEW d,
           array[f].flags = 0, d.flags = 1
    PROVE  /\ f \notin DOMAIN HandlesOf(array)
           /\ HandlesOf([array EXCEPT ![f] = d])
                = With(HandlesOf(array), f, HandleOf(d))
<1> DEFINE new == [array EXCEPT ![f] = d]
           open == {g \in Fds : array[g].flags # 0}
<1>1. \A g \in Fds : new[g] = IF g = f THEN d ELSE array[g]
  BY DEF Arrays
<1>2. DOMAIN HandlesOf(array) = open /\ f \notin open /\ open \subseteq Fds
  BY HandlesShape
<1>3. \A g \in open : HandlesOf(array)[g] = HandleOf(array[g])
  BY HandlesShape
<1>4. {g \in Fds : new[g].flags # 0} = open \cup {f}
  BY <1>1
<1> HIDE DEF new, open
<1>5. HandlesOf(new) = [g \in open \cup {f} |-> HandleOf(new[g])]
  BY <1>4 DEF HandlesOf
<1>6. \A g \in open \cup {f} :
         HandleOf(new[g]) = IF g = f THEN HandleOf(d) ELSE HandlesOf(array)[g]
  BY <1>1, <1>2, <1>3
<1>7. HandlesOf(new) = [g \in open \cup {f} |->
                          IF g = f THEN HandleOf(d) ELSE HandlesOf(array)[g]]
  BY <1>5, <1>6
<1> QED
  BY <1>2, <1>7 DEF With, new

LEMMA ClosedHandles ==
    ASSUME NEW array \in Arrays, NEW f \in Fds, NEW d,
           array[f].flags # 0, d.flags = 0
    PROVE  /\ f \in DOMAIN HandlesOf(array)
           /\ HandlesOf([array EXCEPT ![f] = d])
                = [g \in DOMAIN HandlesOf(array) \ {f} |-> HandlesOf(array)[g]]
<1> DEFINE new == [array EXCEPT ![f] = d]
           open == {g \in Fds : array[g].flags # 0}
<1>1. \A g \in Fds : new[g] = IF g = f THEN d ELSE array[g]
  BY DEF Arrays
<1>2. DOMAIN HandlesOf(array) = open /\ f \in open /\ open \subseteq Fds
  BY HandlesShape
<1>3. \A g \in open : HandlesOf(array)[g] = HandleOf(array[g])
  BY HandlesShape
<1>4. {g \in Fds : new[g].flags # 0} = open \ {f}
  BY <1>1
<1> HIDE DEF new, open
<1>5. HandlesOf(new) = [g \in open \ {f} |-> HandleOf(new[g])]
  BY <1>4 DEF HandlesOf
<1>6. \A g \in open \ {f} : HandleOf(new[g]) = HandlesOf(array)[g]
  BY <1>1, <1>2, <1>3
<1>7. HandlesOf(new) = [g \in open \ {f} |-> HandlesOf(array)[g]]
  BY <1>5, <1>6
<1> QED
  BY <1>2, <1>7 DEF new

LEMMA MovedHandles ==
    ASSUME NEW array \in Arrays, NEW f \in Fds, NEW d,
           array[f].flags # 0, d.flags # 0
    PROVE  HandlesOf([array EXCEPT ![f] = d])
             = [HandlesOf(array) EXCEPT ![f] = HandleOf(d)]
<1> DEFINE new == [array EXCEPT ![f] = d]
<1>1. \A g \in Fds : new[g] = IF g = f THEN d ELSE array[g]
  BY DEF Arrays
<1> HIDE DEF new
<1>2. {g \in Fds : new[g].flags # 0} = {g \in Fds : array[g].flags # 0}
  BY <1>1
<1> DEFINE open == {g \in Fds : array[g].flags # 0}
<1>3. /\ HandlesOf(new) = [g \in open |-> HandleOf(new[g])]
      /\ HandlesOf(array) = [g \in open |-> HandleOf(array[g])]
      /\ f \in open /\ open \subseteq Fds
  BY <1>2 DEF HandlesOf
<1> HIDE DEF open
<1>4. HandlesOf(new) = [HandlesOf(array) EXCEPT ![f] = HandleOf(d)]
  BY <1>1, <1>3
<1> QED
  BY <1>4 DEF new

-----------------------------------------------------------------------------
(* Each step is a step of Handles                                          *)

LEMMA AllHandlesShape ==
    ASSUME IInv
    PROVE  /\ current_pid + 1 \in 0 .. MAX_PROC
           /\ AllHandles = Handlings(current_pid + 1, file_array)
           /\ Len(AllHandles) = current_pid + 1
           /\ Up => /\ AllHandles # <<>>
                    /\ Abstract!Running = HandlesOf(Mine)
<1>1. current_pid + 1 \in 0 .. MAX_PROC
  BY DEF IInv, TypeOK, Slots
<1>2. AllHandles = Handlings(current_pid + 1, file_array)
  BY DEF AllHandles, Handlings
<1> DEFINE n == current_pid + 1
           S == {HandlesOf(file_array[i - 1]) : i \in 1 .. n}
<1>3. n \in Nat /\ n - 1 = current_pid
  BY DEF IInv, TypeOK, Slots
<1> HIDE DEF n, S
<1>4. /\ Handlings(n, file_array) \in Seq(S)
      /\ Len(Handlings(n, file_array)) = n
      /\ \A i \in 1 .. n : Handlings(n, file_array)[i] = HandlesOf(file_array[i - 1])
  BY <1>3, HandlingsShape DEF S
<1>5. ASSUME Up PROVE AllHandles # <<>> /\ Abstract!Running = HandlesOf(Mine)
  <2>1. n > 0 /\ n \in 1 .. n
    BY <1>3, <1>5 DEF Up
  <2>2. AllHandles[n] = HandlesOf(Mine) /\ Len(AllHandles) = n
    BY <1>2, <1>3, <1>4, <2>1 DEF Mine, n
  <2>3. AllHandles # <<>>
    BY <2>1, <2>2, EmptySeq
  <2> QED
    BY <2>2, <2>3 DEF Abstract!Running
<1> QED
  BY <1>1, <1>2, <1>4, <1>5 DEF n

LEMMA BecomesHandles ==
    ASSUME IInv, Up, NEW f \in Fds, NEW d, Becomes(f, d)
    PROVE  Abstract!Become(HandlesOf([Mine EXCEPT ![f] = d]))
<1> DEFINE n == current_pid + 1
           new == [Mine EXCEPT ![f] = d]
<1>1. /\ current_pid \in Slots /\ current_pid \in Nat
      /\ file_array \in [Slots -> Arrays]
  BY MineTyped DEF IInv
<1>2. n \in Nat \ {0} /\ n - 1 = current_pid
  BY <1>1
<1>3. file_array' = [file_array EXCEPT ![current_pid] = new]
      /\ current_pid' = current_pid
  BY DEF Becomes
<1> HIDE DEF new
<1>4. AllHandles' = Handlings(n, file_array')
  BY <1>3 DEF AllHandles, Handlings
<1>5. AllHandles = Handlings(n, file_array) /\ Len(AllHandles) = n
  BY AllHandlesShape
<1>6. \A i \in 1 .. n - 1 : file_array'[i - 1] = file_array[i - 1]
  BY <1>1, <1>2, <1>3
<1>7. file_array'[n - 1] = new
  BY <1>1, <1>2, <1>3
<1> HIDE DEF n
<1>8. AllHandles' = [AllHandles EXCEPT ![n] = HandlesOf(new)]
  BY <1>2, <1>4, <1>5, <1>6, <1>7, HandlingsChange
<1> QED
  BY <1>5, <1>8 DEF Abstract!Become, new

\* The opened file or device, not yet read.
LEMMA OpenedHandle ==
    ASSUME NEW d \in Descriptor, NEW i \in 1 .. dir_count,
           Directory[i].filetype \in {0, 1, 2}
    PROVE  \E object \in {Device(op) : op \in Ops \ {"NULL", "regular"}}
                           \cup {File(inode) : inode \in Inodes} :
              HandleOf(Opened(d, Directory[i])) = [object |-> object, pos |-> 0]
<1> DEFINE o == Opened(d, Directory[i])
<1>1. o.file_position = 0 /\ o.flags = 1 /\ Sound(o)
  BY OpenedSound
<1> HIDE DEF o
<1>2. \/ o.optable_ptr \in {"rtc", "dir"}
      \/ o.optable_ptr = "regular" /\ o.inode \in Inodes
  BY <1>1 DEF Sound
<1>3. CASE o.optable_ptr \in {"rtc", "dir"}
  <2>1. o.optable_ptr \in Ops \ {"NULL", "regular"}
    BY <1>3 DEF Ops
  <2>2. HandleOf(o) = [object |-> Device(o.optable_ptr), pos |-> 0]
    BY <1>1, <1>3 DEF HandleOf
  <2> QED
    BY <2>1, <2>2 DEF o
<1>4. CASE o.optable_ptr = "regular" /\ o.inode \in Inodes
  <2>1. HandleOf(o) = [object |-> File(o.inode), pos |-> 0]
    BY <1>1, <1>4 DEF HandleOf
  <2> QED
    BY <1>4, <2>1 DEF o
<1> QED
  BY <1>2, <1>3, <1>4

LEMMA OpenRefines ==
    ASSUME IInv, NEW filename, NEW f \in Fds, NEW types \in SUBSET {0, 1, 2},
           OpenEntry(filename, types, f)
    PROVE  Abstract!Next
<1>1. PICK i \in 1 .. dir_count :
         /\ Directory[i].filetype \in types
         /\ Becomes(f, Opened(Mine[f], Directory[i]))
  BY OpenEntryBecomes DEF IInv
<1> DEFINE d == Opened(Mine[f], Directory[i])
<1>2. Up /\ Mine[f].flags = 0 /\ Mine \in Arrays /\ Mine[f] \in Descriptor
  BY OpenEntryBecomes, MineTyped DEF IInv, Arrays
<1>3. d.flags = 1
  BY <1>1, <1>2, OpenedSound
<1>4. PICK object \in {Device(op) : op \in Ops \ {"NULL", "regular"}}
                        \cup {File(inode) : inode \in Inodes} :
         HandleOf(d) = [object |-> object, pos |-> 0]
  BY <1>1, <1>2, OpenedHandle
<1>5. Becomes(f, d)
  BY <1>1
<1> HIDE DEF d
<1>6. Abstract!Become(HandlesOf([Mine EXCEPT ![f] = d]))
  BY <1>2, <1>5, BecomesHandles
<1>7. AllHandles # <<>> /\ Abstract!Running = HandlesOf(Mine)
  BY <1>2, AllHandlesShape
<1>8. /\ f \notin DOMAIN HandlesOf(Mine)
      /\ HandlesOf([Mine EXCEPT ![f] = d])
           = With(HandlesOf(Mine), f, [object |-> object, pos |-> 0])
  BY <1>2, <1>3, <1>4, OpenedHandles
<1>9. Abstract!Open(f, object)
  BY <1>6, <1>7, <1>8 DEF Abstract!Open, With
<1> QED
  BY <1>9 DEF Abstract!Next

LEMMA CloseRefines ==
    ASSUME IInv, NEW f \in Fds, Close(f)
    PROVE  Abstract!Next
<1> DEFINE d == [Mine[f] EXCEPT !.flags = 0, !.optable_ptr = "NULL",
                                !.file_position = 0]
<1>1. /\ Up /\ f \notin {0, 1} /\ Mine[f].flags # 0 /\ Becomes(f, d)
      /\ Mine \in Arrays
  BY CloseBecomes, MineTyped DEF IInv
<1>2. d.flags = 0
  BY <1>1 DEF Arrays, Descriptor
<1> HIDE DEF d
<1>3. Abstract!Become(HandlesOf([Mine EXCEPT ![f] = d]))
  BY <1>1, BecomesHandles
<1>4. AllHandles # <<>> /\ Abstract!Running = HandlesOf(Mine)
  BY <1>1, AllHandlesShape
<1>5. /\ f \in DOMAIN HandlesOf(Mine)
      /\ HandlesOf([Mine EXCEPT ![f] = d])
           = [g \in DOMAIN HandlesOf(Mine) \ {f} |-> HandlesOf(Mine)[g]]
  BY <1>1, <1>2, ClosedHandles
<1>6. Abstract!Close(f)
  BY <1>1, <1>3, <1>4, <1>5 DEF Abstract!Close, Restrict, Abstract!Restrict
<1> QED
  BY <1>6 DEF Abstract!Next

LEMMA ReadRefines ==
    ASSUME IInv, NEW f \in Fds, NEW nbytes \in Requests, NEW result,
           FileRead(f, nbytes, result)
    PROVE  Abstract!Next \/ UNCHANGED vars
<1> SUFFICES ASSUME ~UNCHANGED vars PROVE Abstract!Next
  OBVIOUS
<1> DEFINE e == Mine[f]
           d == [e EXCEPT !.file_position = @ + result]
<1>1. /\ Up /\ e.flags # 0 /\ e.optable_ptr = "regular" /\ e.inode \in Inodes
      /\ result \in 0 .. nbytes
      /\ e.file_position + result <= length_of_file[e.inode]
      /\ result = 0 => nbytes = 0 \/ e.file_position = length_of_file[e.inode]
      /\ Becomes(f, d)
  BY FileReadBecomes
<1>2. Mine \in Arrays /\ e \in Descriptor
  BY <1>1, MineTyped DEF IInv, Arrays
<1> HIDE DEF e
<1>3. /\ d.flags # 0 /\ d.optable_ptr = "regular" /\ d.inode = e.inode
      /\ d.file_position = e.file_position + result
  BY <1>1, <1>2 DEF Descriptor
<1> HIDE DEF d
<1>4. Abstract!Become(HandlesOf([Mine EXCEPT ![f] = d]))
  BY <1>1, BecomesHandles
<1>5. AllHandles # <<>> /\ Abstract!Running = HandlesOf(Mine)
  BY <1>1, AllHandlesShape
<1>6. f \in DOMAIN HandlesOf(Mine) /\ HandlesOf(Mine)[f] = HandleOf(e)
  BY <1>1, HandlesShape DEF e
<1>7. HandlesOf([Mine EXCEPT ![f] = d]) = [HandlesOf(Mine) EXCEPT ![f] = HandleOf(d)]
  BY <1>1, <1>2, <1>3, MovedHandles DEF e
<1>8. /\ HandleOf(e) = [object |-> File(e.inode), pos |-> e.file_position]
      /\ HandleOf(d) = [object |-> File(e.inode), pos |-> e.file_position + result]
  BY <1>1, <1>3 DEF HandleOf
<1>9. HandlesOf([Mine EXCEPT ![f] = d])
        = [HandlesOf(Mine) EXCEPT ![f].pos = @ + result]
  <2>1. [HandlesOf(Mine)[f] EXCEPT !.pos = @ + result] = HandleOf(d)
    BY <1>6, <1>8
  <2> QED
    BY <1>7, <2>1
<1>10. [f0 \in {File(inode) : inode \in Inodes} |-> length_of_file[f0[2]]]
         [File(e.inode)] = length_of_file[e.inode]
  BY <1>1 DEF File
<1>11. File(e.inode) \in {File(inode) : inode \in Inodes}
  BY <1>1
<1>12. Abstract!Read(f, result, nbytes)
  BY <1>1, <1>4, <1>5, <1>6, <1>8, <1>9, <1>10, <1>11 DEF Abstract!Read
<1> QED
  BY <1>1, <1>12 DEF Abstract!Next

LEMMA ExecuteRefines ==
    ASSUME IInv, Execute
    PROVE  Abstract!Next
<1> DEFINE n == current_pid + 1
<1>1. /\ n \in Nat /\ n < MAX_PROC /\ n \in Slots /\ current_pid' = n
      /\ file_array \in [Slots -> Arrays]
      /\ file_array' = [file_array EXCEPT ![n] = Fresh(file_array[n])]
  BY DEF IInv, TypeOK, Execute, Slots, Arrays
<1>2. AllHandles = Handlings(n, file_array) /\ Len(AllHandles) = n
  BY AllHandlesShape
<1>3. AllHandles' = Handlings(n + 1, file_array')
  BY <1>1 DEF AllHandles, Handlings
<1> HIDE DEF n
<1>4. \A i \in 1 .. n : file_array'[i - 1] = file_array[i - 1]
  BY <1>1 DEF Slots
<1>5. HandlesOf(file_array'[n]) = Abstract!Standard
  BY <1>1, FreshHandles
<1>6. AllHandles' = Append(AllHandles, Abstract!Standard)
  BY <1>1, <1>2, <1>3, <1>4, <1>5, HandlingsAppend
<1> QED
  BY <1>1, <1>2, <1>6 DEF Abstract!Next, Abstract!Start

LEMMA HaltRefines ==
    ASSUME IInv, Halt
    PROVE  Abstract!Next
<1>1. /\ Up /\ current_pid \in Slots /\ current_pid \in Nat /\ Mine \in Arrays
      /\ file_array \in [Slots -> Arrays]
  BY MineTyped DEF IInv, Halt
<1>2. /\ AllHandles = Handlings(current_pid + 1, file_array)
      /\ Len(AllHandles) = current_pid + 1
  BY AllHandlesShape
<1>3. CASE current_pid = 0
  <2>1. /\ current_pid' = 0
        /\ file_array'[0] = Fresh(Closed(Mine))
    BY <1>1, <1>3 DEF Halt, Mine
  <2>2. HandlesOf(file_array'[0]) = Abstract!Standard
    BY <1>1, <2>1, ClosedTyped, FreshHandles
  <2>3. AllHandles' = [i \in 1 .. 1 |-> Abstract!Standard]
    BY <2>1, <2>2 DEF AllHandles
  <2>4. AllHandles' = <<Abstract!Standard>>
    BY <2>3
  <2> QED
    BY <1>2, <1>3, <2>4 DEF Abstract!Next, Abstract!Replace
<1>4. CASE current_pid # 0
  <2> DEFINE n == current_pid
  <2>1. /\ n \in Nat /\ n > 0 /\ current_pid' = n - 1
        /\ file_array' = [file_array EXCEPT ![n] = Closed(Mine)]
    BY <1>1, <1>4 DEF Halt, Mine
  <2>2. AllHandles' = Handlings(n, file_array')
    BY <2>1 DEF AllHandles, Handlings
  <2> HIDE DEF n
  <2>3. \A i \in 1 .. n : file_array'[i - 1] = file_array[i - 1]
    BY <1>1, <2>1 DEF Slots, n
  <2>4. AllHandles' = SubSeq(AllHandles, 1, n)
    BY <1>2, <2>1, <2>2, <2>3, HandlingsPop DEF n
  <2> QED
    BY <1>2, <2>1, <2>4 DEF Abstract!Next, Abstract!Finish, n
<1> QED
  BY <1>3, <1>4

LEMMA InitRefines == Init => Abstract!Init
<1> SUFFICES ASSUME Init PROVE AllHandles = <<>>
  BY DEF Abstract!Init
<1>1. current_pid + 1 = 0
  BY DEF Init
<1> QED
  BY <1>1 DEF AllHandles

LEMMA StepRefines == IInv /\ [Next]_vars => [Abstract!Next]_AllHandles
<1> SUFFICES ASSUME IInv, [Next]_vars
             PROVE  Abstract!Next \/ UNCHANGED AllHandles
  OBVIOUS
<1>1. ASSUME UNCHANGED vars PROVE UNCHANGED AllHandles
  BY <1>1 DEF vars, AllHandles
<1>2. ASSUME NEW filename, OpenFile(filename) PROVE Abstract!Next
  BY <1>2, OpenRefines DEF OpenFile
<1>3. ASSUME NEW filename, OpenDir(filename) PROVE Abstract!Next
  BY <1>3, OpenRefines DEF OpenDir
<1>4. ASSUME NEW f, DirReadName(f) PROVE UNCHANGED AllHandles
  BY <1>4 DEF DirReadName, AllHandles
<1>5. ASSUME NEW f, DirReadEnd(f) PROVE UNCHANGED vars
  BY <1>5 DEF DirReadEnd
<1> QED
  BY <1>1, <1>2, <1>3, <1>4, <1>5, StandardIsOpen, CloseRefines, ReadRefines,
     ExecuteRefines, HaltRefines DEF Next

(***************************************************************************)
(* The file arrays of the PCBs implement the handles of Handles, for any   *)
(* number of slots and descriptors, any files and any directory.           *)
(***************************************************************************)
THEOREM Implementation == Spec => ImplementsHandles
  BY InitRefines, Invariant, StepRefines, PTL
     DEF Spec, ImplementsHandles, Abstract!Spec

-----------------------------------------------------------------------------
(* Names on the disk                                                       *)

\* As in ShellProofs: numbers have a least.
LEMMA Least ==
    ASSUME NEW T \in SUBSET Nat, T # {}
    PROVE  \E x \in T : \A y \in T : x <= y
<1> DEFINE R == {ss \in Nat \X Nat : ss[1] < ss[2]}
<1>1. IsWellFoundedOn(R, Nat)
  BY NatLessThanWellFounded, Zenon DEF OpToRel
<1> HIDE DEF R
<1>2. PICK x \in T : \A y \in T : ~ (<<y, x>> \in R)
  BY <1>1, WFMin
<1>3. \A y \in T : <<y, x>> \in R <=> y < x
  BY DEF R
<1>4. \A y \in T : y \in Nat
  OBVIOUS
<1>5. ASSUME NEW y \in T
      PROVE  x <= y
  <2>1. x \in Nat /\ y \in Nat /\ ~(y < x)
    BY <1>2, <1>3, <1>4
  <2> QED
    BY <2>1
<1> QED
  BY <1>5

\* Induction up to a number, for a set.
LEMMA UpTo ==
    ASSUME NEW n \in Nat, NEW S, 0 \in S, \A k \in 0 .. n - 1 : k \in S => k + 1 \in S
    PROVE  0 .. n \subseteq S
<1> DEFINE T == (0 .. n) \ S
<1>1. SUFFICES ASSUME T # {} PROVE FALSE
  OBVIOUS
<1>2. T \in SUBSET Nat
  OBVIOUS
<1>3. PICK m \in T : \A k \in T : m <= k
  BY <1>1, <1>2, Least
<1>4. m # 0 /\ m \in 1 .. n
  OBVIOUS
<1>5. m - 1 \in 0 .. n - 1 /\ ~(m <= m - 1) /\ (m - 1) + 1 = m /\ m - 1 \in 0 .. n
  BY <1>4
<1>6. m - 1 \in S
  BY <1>3, <1>5
<1> QED
  BY <1>5, <1>6

\* Induction down from a number.
LEMMA DownTo ==
    ASSUME NEW n \in Nat, NEW S,
           \A x \in 0 .. n : (\A y \in x + 1 .. n : y \in S) => x \in S
    PROVE  \A x \in 0 .. n : x \in S
<1> DEFINE T == {m \in 0 .. n : n - m \notin S}
<1>1. T = {}
  <2> SUFFICES ASSUME T # {} PROVE FALSE
    OBVIOUS
  <2>1. T \in SUBSET Nat
    OBVIOUS
  <2>2. PICK m \in T : \A k \in T : m <= k
    BY <2>1, Least
  <2>3. m \in 0 .. n /\ n - m \notin S /\ n - m \in 0 .. n
    OBVIOUS
  <2>4. ASSUME NEW y \in (n - m) + 1 .. n PROVE y \in S
    <3>1. n - y \in 0 .. n /\ ~(m <= n - y) /\ n - (n - y) = y
      BY <2>3
    <3> QED
      BY <2>2, <3>1
  <2> QED
    BY <2>3, <2>4
<1>2. ASSUME NEW x \in 0 .. n PROVE x \in S
  <2>1. n - x \in 0 .. n /\ n - (n - x) = x
    OBVIOUS
  <2>2. n - x \notin T
    BY <1>1
  <2> QED
    BY <2>1, <2>2
<1> QED
  BY <1>2

\* Names lookup takes for the same are the same.
LEMMA SameNameIs ==
    ASSUME NEW S, NEW T, NEW s \in Seq(S), NEW t \in Seq(T), SameName(s, t)
    PROVE  s = t
<1>1. Len(s) = Len(t) /\ SubSeq(s, 1, Len(s)) = SubSeq(t, 1, Len(t))
  BY DEF SameName, IsPrefix
<1>2. SubSeq(s, 1, Len(s)) = s
  OBVIOUS
<1>3. SubSeq(t, 1, Len(t)) = t
  OBVIOUS
<1> QED
  BY <1>1, <1>2, <1>3

\* The directory is found by its name,
LEMMA DotIsFound == Found(DotName) /\ ~IsDevice(DotName)
<1> DEFINE T == {i \in 1 .. dir_count : Directory[i].filename = DotName}
<1>1. T \in SUBSET Nat /\ T # {}
  <2>1. \A i \in 1 .. dir_count : i \in Nat
    BY Entries
  <2>2. T \in SUBSET Nat
    BY <2>1
  <2>3. T # {}
    BY FileSystemAssumption
  <2> QED
    BY <2>2, <2>3
<1>2. PICK i \in T : \A j \in T : i <= j
  BY <1>1, Least
<1>3. /\ i \in 1 .. dir_count /\ Directory[i].filename = DotName
      /\ Directory[i].filetype = 1 /\ ~IsDevice(DotName)
  BY FileSystemAssumption
<1>4. DotName \in Seq({"."}) /\ Len(DotName) = 1
  BY DEF DotName
<1>5. SameName(DotName, DotName)
  <2>1. Len(DotName) \in 1 .. FILENAME_LEN
    BY <1>3
  <2> QED
    BY <1>4, <2>1 DEF SameName, IsPrefix
<1>6. ASSUME NEW j \in 1 .. i - 1, SameName(DotName, Directory[j].filename)
      PROVE  FALSE
  <2>1. j \in 1 .. dir_count /\ ~(i <= j)
    BY <1>3, Entries
  <2>2. Directory[j].filename \in Seq(STRING)
    BY <2>1, Entries
  <2>3. Directory[j].filename = DotName
    BY <1>4, <1>6, <2>2, SameNameIs
  <2> QED
    BY <1>2, <2>1, <2>3
<1>7. IsEntry(i, DotName)
  BY <1>3, <1>5, <1>6 DEF IsEntry
<1> QED
  BY <1>3, <1>7 DEF Found

\* and nothing by the misspelt names.
LEMMA AlmostNotFound ==
    ASSUME NEW name \in AlmostNames
    PROVE  ~Found(name) /\ ~IsDevice(name)
<1>1. name \in Seq(STRING)
  BY ProgramsAssumption
<1>2. ASSUME NEW i \in 1 .. dir_count, SameName(name, Directory[i].filename)
      PROVE  FALSE
  <2>1. Directory[i].filename \in Seq(STRING)
    BY Entries
  <2>2. Directory[i].filename = name
    BY <1>1, <1>2, <2>1, SameNameIs
  <2> QED
    BY <2>2, FileSystemAssumption
<1> QED
  BY <1>2, FileSystemAssumption DEF Found, IsEntry

-----------------------------------------------------------------------------
(* The calls that syserr makes                                             *)

\* What the running program has opened.
OpenFds == {f \in Fds \ {0, 1} : Mine[f].flags # 0}

\* Descriptors that cannot be used when nothing is open, and calls that fail then.
NotOpen == (Fds \ {0, 1}) \cup {NEG_FD, BIG_FD}
Bad ==
    {Read(f) : f \in NotOpen \cup {1}} \cup {Write(f) : f \in NotOpen \cup {0}}
      \cup {CloseFd(f) : f \in NotOpen \cup {0, 1}}
      \cup {Open(name) : name \in AlmostNames}
      \cup {Number(n) : n \in {VIDMAP, BIG_NUM, NEG_NUM, 0}}

\* Neither is a descriptor.
LEMMA OutOfReach ==
    NEG_FD \notin Fds /\ BIG_FD \notin Fds
  BY BigFdAssumption DEF NEG_FD, BIG_FD, Fds

\* With nothing opened, no call gets anything out of another descriptor.
LEMMA NotOpenUnusable ==
    ASSUME OpenFds = {}, NEW f \in NotOpen
    PROVE  /\ Unusable(f) /\ f \notin {0, 1}
           /\ \A op : ~InUse(f, op)
<1>1. CASE f \in Fds \ {0, 1}
  BY <1>1 DEF OpenFds, Unusable, InUse
<1>2. CASE f \in {NEG_FD, BIG_FD}
  BY <1>2, OutOfReach, FirstFds DEF Unusable, InUse
<1> QED
  BY <1>1, <1>2 DEF NotOpen

\* The first two descriptors are the terminal.
LEMMA StandardInUse ==
    ASSUME IInv, Up, NEW op
    PROVE  /\ InUse(0, op) <=> op = "stdin"
           /\ InUse(1, op) <=> op = "stdout"
           /\ ~Unusable(0) /\ ~Unusable(1)
<1>1. Usable(Mine)
  BY MineUsable
<1> QED
  BY <1>1, FirstFds DEF Usable, IsStandard, InUse, Unusable

\* A read of what is not open, or of standard output, fails.
LEMMA BadRead ==
    ASSUME IInv, OpenFds = {}, NEW f \in NotOpen \cup {1}, NEW result,
           CallRead(f, 31, result)
    PROVE  result = -1 /\ UNCHANGED vars
<1>1. Up
  BY DEF CallRead
<1>2. \A op : InUse(f, op) => f = 1 /\ op = "stdout"
  BY <1>1, NotOpenUnusable, StandardInUse
<1>3. ~FileRead(f, 31, result) /\ ~DirReadName(f) /\ ~DirReadEnd(f) /\ ~InUse(f, "rtc")
  BY <1>2 DEF FileRead, DirReadName, DirReadEnd
<1>4. CASE Refused(result)
  BY <1>4 DEF Refused
<1>5. CASE ReadTerminal(f, result)
  BY <1>2, <1>5 DEF ReadTerminal, Terminal
<1> QED
  BY <1>3, <1>4, <1>5 DEF CallRead

\* So does a write to what is not open, or to standard input,
LEMMA BadWrite ==
    ASSUME IInv, OpenFds = {}, NEW f \in NotOpen \cup {0}, NEW result,
           CallWrite(f, 31, result)
    PROVE  result = -1 /\ UNCHANGED vars
<1>1. Up /\ UNCHANGED vars
  BY DEF CallWrite
<1>2. \A op : InUse(f, op) => f = 0 /\ op = "stdin"
  BY <1>1, NotOpenUnusable, StandardInUse
<1>3. ~InUse(f, "rtc") /\ (Terminal(f) => f = 0)
  BY <1>2 DEF Terminal
<1> QED
  BY <1>1, <1>3 DEF CallWrite

\* and a close of what is not open, or of the terminal,
LEMMA BadClose ==
    ASSUME IInv, OpenFds = {}, NEW f \in NotOpen \cup {0, 1}, NEW result,
           CallClose(f, result)
    PROVE  result = -1 /\ UNCHANGED vars
<1>1. ~Close(f)
  BY DEF Close, OpenFds
<1> QED
  BY <1>1 DEF CallClose, Refused

\* and an open of a name no entry has.
LEMMA BadOpen ==
    ASSUME IInv, NEW name \in AlmostNames, NEW result,
           CallOpen(name, result)
    PROVE  result = -1 /\ UNCHANGED vars
<1>1. ~Found(name) /\ ~IsDevice(name)
  BY AlmostNotFound
<1>2. ~OpenStandard(name)
  BY <1>1 DEF OpenStandard
<1>3. ~OpenFile(name) /\ ~OpenDir(name)
  <2>1. ASSUME NEW types \in SUBSET (0 .. 2), NEW f
        PROVE  ~OpenEntry(name, types, f)
    BY <1>1 DEF OpenEntry, Found
  <2>2. {0, 2} \in SUBSET (0 .. 2) /\ {1} \in SUBSET (0 .. 2)
    OBVIOUS
  <2> QED
    BY <2>1, <2>2 DEF OpenFile, OpenDir
<1> QED
  BY <1>2, <1>3 DEF CallOpen, Refused

\* All the calls that must fail do, and change nothing.
LEMMA BadCall ==
    ASSUME IInv, OpenFds = {}, NEW call \in Bad, NEW result,
           Do(call, result)
    PROVE  result = -1 /\ UNCHANGED vars
<1>1. CASE call \in {Read(f) : f \in NotOpen \cup {1}}
  <2>1. PICK f \in NotOpen \cup {1} : call = Read(f)
    BY <1>1
  <2>2. CallRead(f, 31, result)
    BY <2>1 DEF Do, Read
  <2> QED
    BY <2>2, BadRead
<1>2. CASE call \in {Write(f) : f \in NotOpen \cup {0}}
  <2>1. PICK f \in NotOpen \cup {0} : call = Write(f)
    BY <1>2
  <2>2. CallWrite(f, 31, result)
    BY <2>1 DEF Do, Write
  <2> QED
    BY <2>2, BadWrite
<1>3. CASE call \in {CloseFd(f) : f \in NotOpen \cup {0, 1}}
  <2>1. PICK f \in NotOpen \cup {0, 1} : call = CloseFd(f)
    BY <1>3
  <2>2. CallClose(f, result)
    BY <2>1 DEF Do, CloseFd
  <2> QED
    BY <2>2, BadClose
<1>4. CASE call \in {Open(name) : name \in AlmostNames}
  <2>1. PICK name \in AlmostNames : call = Open(name)
    BY <1>4
  <2>2. CallOpen(name, result)
    BY <2>1 DEF Do, Open
  <2> QED
    BY <2>2, BadOpen
<1>5. CASE call \in {Number(n) : n \in {VIDMAP, BIG_NUM, NEG_NUM, 0}}
  <2>1. PICK n \in {VIDMAP, BIG_NUM, NEG_NUM, 0} : call = Number(n)
    BY <1>5
  <2>2. CallNumber(n, result)
    BY <2>1 DEF Do, Number
  <2> QED
    BY <2>2 DEF CallNumber, Refused
<1> QED
  BY <1>1, <1>2, <1>3, <1>4, <1>5 DEF Bad

-----------------------------------------------------------------------------
(* The tests of syserr                                                     *)

\* The descriptors behind the first two, in order.
LEMMA OthersAre ==
    /\ MAX_FILE_DESCRIPTOR - 2 \in Nat \ {0}
    /\ Others \in Seq(Fds \ {0, 1}) /\ Len(Others) = MAX_FILE_DESCRIPTOR - 2
    /\ \A k \in 1 .. MAX_FILE_DESCRIPTOR - 2 : Others[k] = k + 1 /\ k + 1 \in Fds \ {0, 1}
<1> DEFINE m == MAX_FILE_DESCRIPTOR - 2
<1>1. m \in Nat \ {0}
  OBVIOUS
<1>2. \A k \in 1 .. m : k + 1 \in Fds \ {0, 1}
  BY DEF Fds
<1>3. Others = [k \in 1 .. m |-> k + 1]
  BY DEF Others
<1> HIDE DEF m
<1>4. Others \in [1 .. m -> Fds \ {0, 1}]
  BY <1>2, <1>3
<1>5. Others \in Seq(Fds \ {0, 1}) /\ DOMAIN Others = 1 .. m
  BY <1>1, <1>4
<1>6. Len(Others) = m
  BY <1>1, <1>5, LenProperties
<1>7. \A k \in 1 .. m : Others[k] = k + 1
  BY <1>3
<1> QED
  BY <1>1, <1>2, <1>5, <1>6, <1>7 DEF m

\* A call on each of the descriptors that are not standard.
LEMMA EachIs ==
    ASSUME NEW f, f = [k \in DOMAIN Others |-> CloseFd(Others[k])]
             \/ f = [k \in DOMAIN Others |-> Read(Others[k])]
             \/ f = [k \in DOMAIN Others |-> Write(Others[k])]
    PROVE  f \in Seq(Bad) /\ Len(f) = MAX_FILE_DESCRIPTOR - 2
<1> DEFINE m == MAX_FILE_DESCRIPTOR - 2
<1>1. /\ m \in Nat /\ DOMAIN Others = 1 .. m
      /\ \A k \in 1 .. m : Others[k] \in NotOpen
  BY OthersAre, LenProperties DEF NotOpen
<1> HIDE DEF m
<1>2. \A o \in NotOpen : CloseFd(o) \in Bad /\ Read(o) \in Bad /\ Write(o) \in Bad
  BY DEF Bad
<1>3. f \in [1 .. m -> Bad]
  BY <1>1, <1>2
<1>4. f \in Seq(Bad) /\ DOMAIN f = 1 .. m
  BY <1>1, <1>3
<1> QED
  BY <1>1, <1>4, LenProperties DEF m

\* Each of these tests consists of calls that must fail.
LEMMA AlmostIs ==
    err_open \in Seq(Bad)
<1> DEFINE S == {Open(name) : name \in AlmostNames}
<1>1. IsFiniteSet(S)
  <2>1. IsFiniteSet(AlmostNames)
    BY ProgramsAssumption
  <2> DEFINE f == [name \in AlmostNames |-> Open(name)]
  <2>2. f \in Surjection(AlmostNames, S)
    BY DEF Surjection
  <2> QED
    BY <2>1, <2>2, FS_Surjection
<1>2. S \subseteq Bad
  BY DEF Bad
<1>3. err_open = SetToSeq(S)
  BY DEF err_open
<1> HIDE DEF S
<1>4. Cardinality(S) \in Nat /\ ExistsBijection(1 .. Cardinality(S), S)
  BY <1>1, FS_CardinalityType
<1>5. \E f \in [1 .. Cardinality(S) -> S] : IsInjective(f)
  BY <1>4 DEF ExistsBijection, Bijection, Injection
<1>6. err_open \in [1 .. Cardinality(S) -> S]
  BY <1>3, <1>5 DEF SetToSeq
<1>7. err_open \in Seq(S)
  BY <1>4, <1>6
<1> QED
  BY <1>2, <1>7

LEMMA NotOpenCalls ==
    /\ \A f \in NotOpen : Read(f) \in Bad /\ Write(f) \in Bad /\ CloseFd(f) \in Bad
    /\ Read(1) \in Bad /\ Write(0) \in Bad /\ CloseFd(0) \in Bad /\ CloseFd(1) \in Bad
    /\ Number(VIDMAP) \in Bad /\ Number(BIG_NUM) \in Bad
    /\ Number(NEG_NUM) \in Bad /\ Number(0) \in Bad
    /\ NEG_FD \in NotOpen /\ BIG_FD \in NotOpen
  BY DEF Bad, NotOpen

LEMMA UnopenedIs == err_unopened \in Seq(Bad)
<1> DEFINE c == Each(CloseFd, Others)
           r == Each(Read, Others)
           w == Each(Write, Others)
           start == <<CloseFd(0), CloseFd(1)>>
<1>1. c \in Seq(Bad) /\ r \in Seq(Bad) /\ w \in Seq(Bad)
  BY EachIs DEF Each
<1>2. start \in Seq(Bad)
  BY NotOpenCalls
<1>3. err_unopened = start \o c \o r \o w
  BY DEF err_unopened
<1> HIDE DEF c, r, w, start
<1> QED
  BY <1>1, <1>2, <1>3

\* No call of these tests is one that the kernel should accept.
LEMMA BadTests ==
    ASSUME NEW t \in 1 .. 8, t # OpenLots
    PROVE  Tests[t] \in Seq(Bad)
<1>1. t \in {1, 2, 4, 5, 6, 7, 8}
  BY DEF OpenLots
<1>2. err_neg_fd \in Seq(Bad)
  BY NotOpenCalls DEF err_neg_fd
<1>3. err_big_fd \in Seq(Bad)
  BY NotOpenCalls DEF err_big_fd
<1>4. err_vidmap \in Seq(Bad)
  BY NotOpenCalls DEF err_vidmap
<1>5. err_stdin_out \in Seq(Bad)
  BY NotOpenCalls DEF err_stdin_out
<1>6. err_syscall_num \in Seq(Bad)
  BY NotOpenCalls DEF err_syscall_num
<1>7. /\ Tests[1] = err_neg_fd /\ Tests[2] = err_big_fd /\ Tests[4] = err_open
      /\ Tests[5] = err_unopened /\ Tests[6] = err_vidmap
      /\ Tests[7] = err_stdin_out /\ Tests[8] = err_syscall_num
  BY DEF Tests
<1> QED
  BY <1>1, <1>2, <1>3, <1>4, <1>5, <1>6, <1>7, AlmostIs, UnopenedIs

\* err_open_lots opens one file more than there is room for, and closes all.
LEMMA OpenLotsIs ==
    /\ Len(Tests[OpenLots]) = 2 * MAX_FILE_DESCRIPTOR - 3
    /\ \A k \in 1 .. MAX_FILE_DESCRIPTOR - 1 : Tests[OpenLots][k] = Open(DotName)
    /\ \A k \in MAX_FILE_DESCRIPTOR .. 2 * MAX_FILE_DESCRIPTOR - 3 :
          Tests[OpenLots][k] = CloseFd(k - MAX_FILE_DESCRIPTOR + 2)
<1> DEFINE m == MAX_FILE_DESCRIPTOR - 1
           opens == [k \in 1 .. m |-> Open(DotName)]
           closes == Each(CloseFd, Others)
           S == {Open(DotName)} \cup Bad
<1>1. m \in Nat /\ MAX_FILE_DESCRIPTOR - 2 = m - 1 /\ MAX_FILE_DESCRIPTOR = m + 1
  OBVIOUS
<1>2. Tests[OpenLots] = opens \o closes
  BY DEF Tests, OpenLots, err_open_lots
<1>3. closes \in Seq(Bad) /\ Len(closes) = m - 1
  BY <1>1, EachIs DEF Each
<1>4. \A k \in 1 .. m - 1 : closes[k] = CloseFd(k + 1)
  BY <1>1, OthersAre, LenProperties DEF Each
<1> HIDE DEF m, closes
<1>5. opens \in [1 .. m -> S]
  OBVIOUS
<1>6. opens \in Seq(S) /\ DOMAIN opens = 1 .. m
  BY <1>1, <1>5
<1>7. Len(opens) = m /\ \A k \in 1 .. m : opens[k] = Open(DotName)
  BY <1>1, <1>6, LenProperties
<1>8. closes \in Seq(S)
  BY <1>3
<1> HIDE DEF opens, S
<1>9. /\ Len(opens \o closes) = m + (m - 1)
      /\ \A k \in 1 .. m + (m - 1) :
            (opens \o closes)[k] = IF k <= m THEN opens[k] ELSE closes[k - m]
  <2>1. /\ Len(opens \o closes) = Len(opens) + Len(closes)
        /\ \A k \in 1 .. Len(opens) + Len(closes) :
              (opens \o closes)[k] = IF k <= Len(opens) THEN opens[k]
                                    ELSE closes[k - Len(opens)]
    BY <1>6, <1>8, ConcatProperties, Zenon
  <2>2. Len(opens) = m /\ Len(closes) = m - 1
    BY <1>3, <1>7
  <2> HIDE DEF S
  <2> QED
    BY <2>1, <2>2, Zenon
<1>10. ASSUME NEW k \in m + 1 .. 2 * (m + 1) - 3
       PROVE  Tests[OpenLots][k] = CloseFd(k - (m + 1) + 2)
  <2>1. k \in 1 .. m + (m - 1) /\ ~(k <= m) /\ k - m \in 1 .. m - 1
        /\ (k - m) + 1 = k - (m + 1) + 2
    BY <1>1
  <2> QED
    BY <1>2, <1>4, <1>9, <2>1
<1>11. ASSUME NEW k \in 1 .. m
       PROVE  Tests[OpenLots][k] = Open(DotName)
  <2>1. k \in 1 .. m + (m - 1) /\ k <= m
    BY <1>1
  <2> QED
    BY <1>2, <1>7, <1>9, <2>1
<1>12. m + (m - 1) = 2 * (m + 1) - 3 /\ m = MAX_FILE_DESCRIPTOR - 1
  BY <1>1
<1> QED
  BY <1>1, <1>2, <1>9, <1>10, <1>11, <1>12

-----------------------------------------------------------------------------
(* How syserr gets on                                                      *)

\* The descriptors that are open before a call of a test.
OpenAt(t, s) ==
    IF t # OpenLots THEN {}
    ELSE IF s < MAX_FILE_DESCRIPTOR THEN 2 .. s
    ELSE s - MAX_FILE_DESCRIPTOR + 2 .. MAX_FILE_DESCRIPTOR - 1

CountAt(t, s) == IF t = OpenLots /\ s >= MAX_FILE_DESCRIPTOR THEN 1 ELSE 0

SyserrAt ==
    /\ tests \in Seq(1 .. 8)
    /\ pc = "ask" => tests = <<>> /\ step = 1 /\ count = 0 /\ OpenFds = {}
    /\ tests # <<>> =>
         /\ step \in 1 .. Len(Tests[tests[1]]) + 1
         /\ OpenFds = OpenAt(tests[1], step)
         /\ count = CountAt(tests[1], step)

\* A test starts with nothing open and ends with nothing open.
LEMMA OpenAtEnds ==
    ASSUME NEW t \in 1 .. 8
    PROVE  /\ OpenAt(t, 1) = {} /\ CountAt(t, 1) = 0
           /\ OpenAt(t, Len(Tests[t]) + 1) = {}
           /\ CountAt(t, Len(Tests[t]) + 1) = IF t = OpenLots THEN 1 ELSE 0
<1>1. CASE t # OpenLots
  BY <1>1 DEF OpenAt, CountAt
<1>2. CASE t = OpenLots
  <2>1. PICK m \in Nat : m = MAX_FILE_DESCRIPTOR /\ m >= 3
    OBVIOUS
  <2>2. Len(Tests[t]) + 1 = 2 * m - 3 + 1
    BY <1>2, <2>1, OpenLotsIs
  <2>3. /\ 2 * m - 3 + 1 >= m /\ (2 * m - 3 + 1) - m + 2 .. m - 1 = {}
        /\ 1 < m /\ 2 .. 1 = {}
    BY <2>1
  <2> QED
    BY <1>2, <2>1, <2>2, <2>3 DEF OpenAt, CountAt
<1> QED
  BY <1>1, <1>2

\* What changing one descriptor does to those that are open.
LEMMA OpenFdsAfter ==
    ASSUME IInv, Up, NEW f \in Fds \ {0, 1}, NEW d \in Descriptor, Becomes(f, d)
    PROVE  /\ OpenFds' = IF d.flags # 0 THEN OpenFds \cup {f} ELSE OpenFds \ {f}
           /\ Mine' = [Mine EXCEPT ![f] = d] /\ Mine'[f] = d /\ Up'
           /\ current_pid' = current_pid
<1>1. /\ current_pid \in Slots /\ Mine \in Arrays /\ file_array \in [Slots -> Arrays]
  BY MineTyped DEF IInv
<1>2. current_pid' = current_pid /\ Mine' = [Mine EXCEPT ![f] = d]
  BY <1>1 DEF Becomes, Mine
<1>3. Mine'[f] = d /\ \A g \in Fds \ {f} : Mine'[g] = Mine[g]
  BY <1>1, <1>2 DEF Arrays
<1>4. OpenFds' = {g \in Fds \ {0, 1} : Mine'[g].flags # 0}
  BY DEF OpenFds
<1> QED
  BY <1>2, <1>3, <1>4 DEF OpenFds, Up

\* open finds the descriptor behind those that are in use from the third on.
LEMMA FreeIs ==
    ASSUME NEW f \in Fds, NEW g \in Nat, OpenFds = 2 .. g, g >= 1
    PROVE  Free(f) <=> f = g + 1
<1>1. f \in Nat /\ \A h \in Fds : h \in Nat
  BY DEF Fds
<1>2. \A h \in Fds : h >= 2 => (Mine[h].flags # 0 <=> h \in 2 .. g)
  BY <1>1 DEF OpenFds
<1>3. \A h \in 2 .. f - 1 : h \in Fds /\ h >= 2
  BY <1>1 DEF Fds
<1>4. ASSUME Free(f) PROVE f = g + 1
  <2>1. f >= 2 /\ Mine[f].flags = 0 /\ \A h \in 2 .. f - 1 : Mine[h].flags # 0
    BY <1>4 DEF Free
  <2>2. f \notin 2 .. g
    BY <1>2, <2>1
  <2>3. ~(g + 1 \in 2 .. f - 1)
    <3>1. g + 1 \notin 2 .. g /\ g + 1 >= 2
      OBVIOUS
    <3> QED
      BY <1>2, <1>3, <2>1, <3>1
  <2>4. f > g
    BY <1>1, <2>1, <2>2
  <2>5. f - 1 < g + 1
    BY <1>1, <2>3
  <2> QED
    BY <1>1, <2>4, <2>5
<1>5. ASSUME f = g + 1 PROVE Free(f)
  <2>1. f >= 2 /\ f \notin 2 .. g /\ \A h \in 2 .. f - 1 : h \in 2 .. g
    BY <1>5
  <2>2. Mine[f].flags = 0
    BY <1>2, <2>1
  <2>3. \A h \in 2 .. f - 1 : Mine[h].flags # 0
    BY <1>2, <1>3, <2>1
  <2> QED
    BY <2>1, <2>2, <2>3 DEF Free
<1> QED
  BY <1>4, <1>5

\* Opening "." while there is room, and when there is none.
LEMMA OpenDot ==
    ASSUME IInv, NEW s \in 1 .. MAX_FILE_DESCRIPTOR - 1,
           OpenFds = 2 .. s, NEW result, CallOpen(DotName, result)
    PROVE  IF s < MAX_FILE_DESCRIPTOR - 1
           THEN OpenFds' = 2 .. s + 1 /\ result # -1
           ELSE UNCHANGED vars /\ result = -1
<1>1. Found(DotName) /\ ~IsDevice(DotName)
  BY DotIsFound
<1>2. Up /\ ~OpenStandard(DotName)
  BY <1>1 DEF CallOpen, OpenStandard
<1>3. s \in Nat /\ s >= 1
  OBVIOUS
<1>4. \A f \in Fds : Free(f) <=> f = s + 1
  BY <1>3, FreeIs
<1>5. CASE s < MAX_FILE_DESCRIPTOR - 1
  <2>1. s + 1 \in Fds \ {0, 1}
    BY <1>3, <1>5 DEF Fds
  <2>2. /\ OpenFile(DotName) \/ OpenDir(DotName)
        /\ result \in Fds /\ Free(result)
    BY <1>1, <1>2, <1>4, <2>1 DEF CallOpen
  <2>3. PICK f \in Fds, types \in SUBSET {0, 1, 2} : OpenEntry(DotName, types, f)
    BY <2>2 DEF OpenFile, OpenDir
  <2>4. f = s + 1
    BY <1>4, <2>3 DEF OpenEntry
  <2>5. PICK i \in 1 .. dir_count :
           /\ Directory[i].filetype \in types
           /\ Becomes(f, Opened(Mine[f], Directory[i]))
    BY <2>3, OpenEntryBecomes DEF IInv
  <2>6. Opened(Mine[f], Directory[i]) \in Descriptor
        /\ Opened(Mine[f], Directory[i]).flags = 1
    <3>1. Mine[f] \in Descriptor /\ Directory[i].filetype \in {0, 1, 2}
      BY <1>2, <2>5, MineTyped DEF IInv, Arrays
    <3> QED
      BY <3>1, OpenedSound
  <2>7. OpenFds' = OpenFds \cup {f}
    <3>1. PICK d \in Descriptor : Becomes(f, d) /\ d.flags = 1
      BY <2>5, <2>6
    <3>2. f \in Fds \ {0, 1} /\ d.flags # 0
      BY <2>1, <2>4, <3>1
    <3> QED
      BY <1>2, <3>1, <3>2, OpenFdsAfter
  <2>8. OpenFds' = 2 .. s + 1
    <3>1. (2 .. s) \cup {s + 1} = 2 .. s + 1
      BY <1>3
    <3> QED
      BY <2>4, <2>7, <3>1
  <2>9. result # -1
    BY <2>2 DEF Fds
  <2> QED
    BY <1>5, <2>8, <2>9
<1>6. CASE ~(s < MAX_FILE_DESCRIPTOR - 1)
  <2>1. s + 1 \notin Fds
    BY <1>3, <1>6 DEF Fds
  <2>2. \A f \in Fds : ~Free(f)
    BY <1>4, <2>1
  <2>3. ~OpenFile(DotName) /\ ~OpenDir(DotName)
    BY <2>2 DEF OpenFile, OpenDir, OpenEntry
  <2> QED
    BY <1>2, <1>6, <2>3 DEF CallOpen, Refused
<1> QED
  BY <1>5, <1>6

\* Closing the lowest that is open.
LEMMA CloseLowest ==
    ASSUME IInv, NEW f \in Fds \ {0, 1}, NEW top \in Nat, OpenFds = f .. top, f <= top,
           NEW result, CallClose(f, result)
    PROVE  OpenFds' = f + 1 .. top /\ result = 0
<1>1. f \in Nat /\ f \in OpenFds
  BY DEF Fds
<1>2. Mine[f].flags # 0 /\ ~Unusable(f)
  BY <1>1 DEF OpenFds, Unusable
<1>3. Up /\ Close(f) /\ result = 0
  BY <1>2 DEF CallClose
<1> DEFINE d == [Mine[f] EXCEPT !.flags = 0, !.optable_ptr = "NULL", !.file_position = 0]
<1>4. Becomes(f, d)
  BY <1>3, CloseBecomes DEF IInv
<1>5. d \in Descriptor /\ d.flags = 0
  BY <1>3, MineTyped DEF IInv, Arrays, Descriptor, Ops
<1> HIDE DEF d
<1>6. OpenFds' = OpenFds \ {f}
  BY <1>3, <1>4, <1>5, OpenFdsAfter
<1>7. (f .. top) \ {f} = f + 1 .. top
  BY <1>1
<1> QED
  BY <1>3, <1>6, <1>7

-----------------------------------------------------------------------------
(* What grep's inner loop leaves                                           *)

\* The line ends at its newline, or where what was read ends.
LEMMA LineEndIs ==
    ASSUME NEW d, NEW filled \in Nat, NEW from \in 0 .. filled
    PROVE  /\ LineEnd(d, from, filled) \in from .. filled
           /\ LineEnd(d, from, filled) = filled \/ d[LineEnd(d, from, filled)] = NEWLINE
           /\ \A c \in from .. LineEnd(d, from, filled) - 1 : d[c] # NEWLINE
<1> DEFINE IsEnd(e) == e = filled \/ d[e] = NEWLINE
           T == {e \in from .. filled : IsEnd(e)}
           First(e) == IsEnd(e) /\ \A c \in from .. e - 1 : d[c] # NEWLINE
           e == CHOOSE x \in from .. filled : First(x)
<1>1. T \in SUBSET Nat
  OBVIOUS
<1>2. filled \in T
  OBVIOUS
<1>3. PICK x \in T : \A y \in T : x <= y
  BY <1>1, <1>2, Least
<1>4. x \in from .. filled /\ IsEnd(x)
  OBVIOUS
<1>5. ASSUME NEW c \in from .. x - 1 PROVE d[c] # NEWLINE
  <2>1. c \in from .. filled /\ ~(x <= c)
    BY <1>4
  <2> QED
    BY <1>3, <2>1
<1>6. First(x)
  BY <1>4, <1>5
<1>7. LineEnd(d, from, filled) = e
  BY DEF LineEnd
<1> HIDE DEF First, T
<1>8. e \in from .. filled /\ First(e)
  BY <1>4, <1>6
<1> HIDE DEF e
<1> QED
  BY <1>7, <1>8 DEF First

\* One turn of the loop over lines, from x, where the rest gives what g says.
Turn(d, filled, cnt, g, x) ==
    LET line_end == LineEnd(d, x, filled)
        found == Piece(d, x, line_end)
    IN  IF Waits(d, x, line_end, cnt)
        THEN [lines |-> <<>>, ends |-> {line_end}, part |-> x]
        ELSE LET rest == IF line_end + 1 >= filled
                         THEN [lines |-> <<>>, ends |-> {}, part |-> filled]
                         ELSE g[line_end + 1]
             IN  [lines |-> (IF Occurs(Pattern, found) THEN <<Visible(found)>>
                             ELSE <<>>) \o rest.lines,
                  ends |-> rest.ends \cup {line_end}, part |-> rest.part]

\* It looks at nothing before it.
LEMMA TurnLooksAhead ==
    ASSUME NEW d, NEW filled \in Nat, NEW cnt, NEW x \in 0 .. filled, NEW g, NEW h,
           \A y \in x + 1 .. filled : g[y] = h[y]
    PROVE  Turn(d, filled, cnt, g, x) = Turn(d, filled, cnt, h, x)
<1>1. PICK e \in x .. filled : e = LineEnd(d, x, filled)
  BY LineEndIs
<1>2. e + 1 >= filled \/ e + 1 \in x + 1 .. filled
  OBVIOUS
<1>3. e + 1 >= filled \/ g[e + 1] = h[e + 1]
  BY <1>2
<1> QED
  BY <1>1, <1>3, Zenon DEF Turn

\* So there is a function that gives the result of the loop from each place.
IsLoop(d, filled, cnt, g) == g = [x \in 0 .. filled |-> Turn(d, filled, cnt, g, x)]

\* The recursion of the search has a function that satisfies it.
LEMMA LoopExists ==
    ASSUME NEW d, NEW filled \in Nat, NEW cnt
    PROVE  \E g : IsLoop(d, filled, cnt, g)
<1> DEFINE From(g, m) == \A x \in m .. filled : g[x] = Turn(d, filled, cnt, g, x)
           T == {n \in 0 .. filled : ~ \E g : From(g, filled - n)}
<1>1. T = {}
  <2> SUFFICES ASSUME T # {} PROVE FALSE
    OBVIOUS
  <2>1. T \in SUBSET Nat
    OBVIOUS
  <2>2. PICK n \in T : \A k \in T : n <= k
    BY <2>1, Least
  <2>3. n \in 0 .. filled /\ ~ \E g : From(g, filled - n)
    OBVIOUS
  <2> DEFINE m == filled - n
  <2>4. m \in 0 .. filled
    BY <2>3
  <2>5. \E h : From(h, m + 1)
    <3>1. CASE n = 0
      <4>1. m + 1 .. filled = {}
        BY <3>1
      <4> QED
        BY <4>1
    <3>2. CASE n # 0
      <4>1. n - 1 \in 0 .. filled /\ ~(n <= n - 1) /\ filled - (n - 1) = m + 1
        BY <2>3, <3>2
      <4>2. n - 1 \notin T
        BY <2>2, <4>1
      <4> QED
        BY <4>1, <4>2
    <3> QED
      BY <3>1, <3>2
  <2> HIDE DEF T
  <2>6. PICK h : From(h, m + 1)
    BY <2>5
  <2> HIDE DEF m
  <2> DEFINE g == [x \in 0 .. filled |-> IF x = m THEN Turn(d, filled, cnt, h, m) ELSE h[x]]
  <2>7. \A y \in m + 1 .. filled : g[y] = h[y]
    BY <2>4
  <2>8. g[m] = Turn(d, filled, cnt, h, m)
    BY <2>4
  <2> HIDE DEF g
  <2>9. ASSUME NEW x \in m .. filled
        PROVE  g[x] = Turn(d, filled, cnt, g, x)
    <3>1. x \in 0 .. filled /\ \A y \in x + 1 .. filled : y \in m + 1 .. filled
      BY <2>4
    <3>2. \A y \in x + 1 .. filled : g[y] = h[y]
      BY <2>7, <3>1
    <3>3. Turn(d, filled, cnt, g, x) = Turn(d, filled, cnt, h, x)
      BY <3>1, <3>2, TurnLooksAhead
    <3>4. CASE x = m
      BY <2>8, <3>3, <3>4
    <3>5. CASE x # m
      <4>1. x \in m + 1 .. filled
        BY <2>4, <3>5
      <4>2. g[x] = h[x] /\ h[x] = Turn(d, filled, cnt, h, x)
        BY <2>6, <2>7, <4>1
      <4> QED
        BY <3>3, <4>2
    <3> QED
      BY <3>4, <3>5
  <2>10. From(g, m)
    BY <2>9
  <2> QED
    BY <2>3, <2>10 DEF m
<1>2. \E g : From(g, 0)
  <2>1. filled \in 0 .. filled /\ filled - filled = 0
    OBVIOUS
  <2>2. filled \notin T
    BY <1>1
  <2> QED
    BY <2>1, <2>2
<1> HIDE DEF T
<1>3. PICK h : From(h, 0)
  BY <1>2
<1> DEFINE g == [x \in 0 .. filled |-> h[x]]
<1>4. ASSUME NEW x \in 0 .. filled
      PROVE  h[x] = Turn(d, filled, cnt, g, x)
  <2>1. \A y \in x + 1 .. filled : y \in 0 .. filled
    OBVIOUS
  <2>2. \A y \in x + 1 .. filled : g[y] = h[y]
    BY <2>1
  <2> HIDE DEF g
  <2>3. Turn(d, filled, cnt, g, x) = Turn(d, filled, cnt, h, x)
    BY <2>2, TurnLooksAhead
  <2> QED
    BY <1>3, <2>3
<1>5. IsLoop(d, filled, cnt, g)
  BY <1>4 DEF IsLoop
<1> HIDE DEF g
<1> QED
  BY <1>5

\* Search is that function at the start of the buffer.
LEMMA SearchIs ==
    ASSUME NEW d, NEW filled \in Nat, NEW cnt
    PROVE  \E g : IsLoop(d, filled, cnt, g) /\ Search(d, filled, cnt) = g[0]
<1> DEFINE F == CHOOSE g : IsLoop(d, filled, cnt, g)
<1>1. IsLoop(d, filled, cnt, F)
  BY LoopExists, Zenon
<1>2. Search(d, filled, cnt) = F[0]
  BY DEF Search, Turn, IsLoop
<1> QED
  BY <1>1, <1>2, Zenon

\* A line of the text is to be printed if it matches.
IfMatches(line) == IF Occurs(Pattern, line) THEN <<line>> ELSE <<>>

\* Of a line in the buffer that matches, what is visible of it.
IfShown(line) == IF Occurs(Pattern, line) THEN <<Visible(line)>> ELSE <<>>

\* What one turn of the loop prints and ends, for a line that ends at e.
Turned(d, filled, cnt, g, x, e, r) ==
    /\ Waits(d, x, e, cnt) =>
         r.lines = <<>> /\ r.ends = {e} /\ r.part = x
    /\ ~Waits(d, x, e, cnt) /\ e + 1 >= filled =>
         r.lines = IfShown(Piece(d, x, e)) \o <<>> /\ r.ends = {e} /\ r.part = filled
    /\ ~Waits(d, x, e, cnt) /\ ~(e + 1 >= filled) =>
         /\ r.lines = IfShown(Piece(d, x, e)) \o g[e + 1].lines
         /\ r.ends = g[e + 1].ends \cup {e} /\ r.part = g[e + 1].part

\* That is what Turn gives.
LEMMA TurnGives ==
    ASSUME NEW d, NEW filled, NEW cnt, NEW g, NEW x, NEW e, e = LineEnd(d, x, filled)
    PROVE  Turned(d, filled, cnt, g, x, e, Turn(d, filled, cnt, g, x))
<1>1. CASE Waits(d, x, e, cnt)
  BY <1>1 DEF Turn, Turned
<1>2. CASE ~Waits(d, x, e, cnt) /\ e + 1 >= filled
  BY <1>2 DEF Turn, IfShown, Turned
<1>3. CASE ~Waits(d, x, e, cnt) /\ ~(e + 1 >= filled)
  BY <1>3 DEF Turn, IfShown, Turned
<1> QED
  BY <1>1, <1>2, <1>3

\* The part that waits starts behind the start, or nothing waits.
LEMMA SearchLeaves ==
    ASSUME NEW d, NEW filled \in Nat, NEW cnt
    PROVE  /\ Search(d, filled, cnt).part \in 0 .. filled
           /\ Search(d, filled, cnt).part = 0 => filled = 0
<1>1. PICK g : IsLoop(d, filled, cnt, g) /\ Search(d, filled, cnt) = g[0]
  BY SearchIs, Zenon
<1>2. /\ \A x \in 0 .. filled : g[x] = Turn(d, filled, cnt, g, x)
      /\ Search(d, filled, cnt) = g[0]
  BY <1>1 DEF IsLoop
<1> DEFINE Good(x) == g[x].part \in 0 .. filled /\ (g[x].part = 0 => filled = 0)
           T == {x \in 0 .. filled : Good(x)}
<1>3. ASSUME NEW x \in 0 .. filled, \A y \in x + 1 .. filled : Good(y)
      PROVE  Good(x)
  <2>1. PICK e \in x .. filled : e = LineEnd(d, x, filled)
    BY LineEndIs
  <2>2. g[x].part = IF Waits(d, x, e, cnt) THEN x
                    ELSE IF e + 1 >= filled THEN filled ELSE g[e + 1].part
    BY <1>2, <2>1, TurnGives DEF Turned
  <2>3. CASE Waits(d, x, e, cnt)
    <3>1. x # 0
      BY <2>3 DEF Waits
    <3> QED
      BY <2>2, <2>3, <3>1
  <2>4. CASE ~Waits(d, x, e, cnt)
    <3>1. CASE e + 1 >= filled
      BY <2>2, <2>4, <3>1
    <3>2. CASE ~(e + 1 >= filled)
      <4>1. g[x].part = g[e + 1].part
        BY <2>2, <2>4, <3>2
      <4>2. e + 1 \in x + 1 .. filled
        BY <3>2
      <4>3. Good(e + 1)
        BY <1>3, <4>2
      <4> QED
        BY <4>1, <4>3
    <3> QED
      BY <3>1, <3>2
  <2> QED
    BY <2>3, <2>4
<1> HIDE DEF Good
<1>4. \A x \in 0 .. filled : x \in T
  <2>1. ASSUME NEW x \in 0 .. filled, \A y \in x + 1 .. filled : y \in T
        PROVE  x \in T
    BY <1>3, <2>1
  <2> HIDE DEF T
  <2> QED
    BY <2>1, DownTo
<1>5. Good(0)
  BY <1>4
<1> QED
  BY <1>2, <1>5 DEF Good

-----------------------------------------------------------------------------
(* The lines of a text                                                     *)

\* A line may start behind a.
Boundary(s, a) == a = 0 \/ s[a] = NEWLINE

\* No line of s ends behind a and before k.
Unbroken(s, a, k) == \A i \in a + 1 .. k - 1 : s[i] # NEWLINE

\* A line starts behind the last newline before its end.
LEMMA LineBeforeIs ==
    ASSUME NEW S, NEW s \in Seq(S), NEW k \in 1 .. Len(s) + 1,
           NEW a \in 0 .. k - 1, Boundary(s, a), Unbroken(s, a, k)
    PROVE  LineBefore(s, k) = SubSeq(s, a + 1, k - 1)
<1> DEFINE Starts(b) == Boundary(s, b) /\ Unbroken(s, b, k)
           start == CHOOSE b \in 0 .. k - 1 : Starts(b)
<1>1. LineBefore(s, k) = SubSeq(s, start + 1, k - 1)
  BY DEF LineBefore, Boundary, Unbroken
<1>2. start \in 0 .. k - 1 /\ Starts(start)
  OBVIOUS
<1> HIDE DEF start
<1>3. start \in Int /\ a \in Int /\ k \in Int
  BY <1>2, LenProperties
<1>4. ~(start < a)
  <2> SUFFICES ASSUME start < a PROVE FALSE
    OBVIOUS
  <2>1. a \in start + 1 .. k - 1 /\ a # 0
    BY <1>2, <1>3
  <2> QED
    BY <1>2, <2>1 DEF Boundary, Unbroken
<1>5. ~(a < start)
  <2> SUFFICES ASSUME a < start PROVE FALSE
    OBVIOUS
  <2>1. start \in a + 1 .. k - 1 /\ start # 0
    BY <1>2, <1>3
  <2> QED
    BY <1>2, <2>1 DEF Boundary, Unbroken
<1>6. start = a
  BY <1>3, <1>4, <1>5
<1> QED
  BY <1>1, <1>6

\* There is such a place.
LEMMA LineStarts ==
    ASSUME NEW S, NEW s \in Seq(S), NEW k \in 1 .. Len(s) + 1
    PROVE  \E a \in 0 .. k - 1 : Boundary(s, a) /\ Unbroken(s, a, k)
<1> DEFINE T == {m \in 0 .. k - 1 : Boundary(s, k - 1 - m)}
<1>1. k \in Nat /\ k >= 1
  BY LenProperties
<1>2. T \in SUBSET Nat
  OBVIOUS
<1>3. k - 1 \in T
  <2>1. k - 1 \in 0 .. k - 1 /\ (k - 1) - (k - 1) = 0
    BY <1>1
  <2> QED
    BY <2>1 DEF Boundary
<1>4. PICK m \in T : \A j \in T : m <= j
  BY <1>2, <1>3, Least
<1>5. m \in 0 .. k - 1 /\ Boundary(s, k - 1 - m)
  OBVIOUS
<1> DEFINE a == k - 1 - m
<1>6. a \in 0 .. k - 1
  BY <1>1, <1>5
<1>7. ASSUME NEW i \in a + 1 .. k - 1, s[i] = NEWLINE PROVE FALSE
  <2>1. /\ k - 1 - i \in 0 .. k - 1 /\ ~(m <= k - 1 - i)
        /\ k - 1 - (k - 1 - i) = i
    BY <1>1, <1>5
  <2>2. k - 1 - i \in T
    BY <1>7, <2>1 DEF Boundary
  <2> QED
    BY <1>4, <2>1, <2>2
<1> QED
  BY <1>5, <1>6, <1>7 DEF Unbroken

\* What the line that ends at k adds to what is to be printed.
Hits(s, k) ==
    IF k \in LineEnds(s) /\ Occurs(Pattern, LineBefore(s, k))
    THEN <<LineBefore(s, k)>> ELSE <<>>

\* It is a sequence of lines.
LEMMA HitsTyped ==
    ASSUME NEW S, NEW s \in Seq(S), NEW k \in 1 .. Len(s) + 1
    PROVE  Hits(s, k) \in Seq(Seq(S))
<1>1. PICK a \in 0 .. k - 1 : Boundary(s, a) /\ Unbroken(s, a, k)
  BY LineStarts
<1>2. LineBefore(s, k) = SubSeq(s, a + 1, k - 1)
  BY <1>1, LineBeforeIs
<1>3. SubSeq(s, a + 1, k - 1) \in Seq(S)
  <2>1. a + 1 \in Int /\ k - 1 \in Int /\ Len(s) \in Nat
    BY LenProperties
  <2>2. \A i \in a + 1 .. k - 1 : i \in 1 .. Len(s)
    BY <2>1
  <2>3. \A i \in a + 1 .. k - 1 : s[i] \in S
    BY <2>2, ElementOfSeq
  <2> QED
    BY <2>1, <2>3, SubSeqProperties
<1> DEFINE line == LineBefore(s, k)
<1>4. line \in Seq(S)
  BY <1>2, <1>3
<1> HIDE DEF line
<1>5. <<line>> \in Seq(Seq(S)) /\ <<>> \in Seq(Seq(S))
  BY <1>4
<1> QED
  BY <1>5 DEF Hits, line

IsMatching(s, f) ==
    f = [k \in 0 .. Len(s) + 1 |-> IF k = 0 THEN <<>> ELSE f[k - 1] \o Hits(s, k)]

\* The recursion of Matching has a function that satisfies it.
LEMMA MatchingExists ==
    ASSUME NEW S, NEW s \in Seq(S)
    PROVE  \E f : IsMatching(s, f)
<1> DEFINE n == Len(s) + 1
           Value(f, j) == IF j = 0 THEN <<>> ELSE f[j - 1] \o Hits(s, j)
           So(f, k) == \A j \in 0 .. k : f[j] = Value(f, j)
           T == {k \in 0 .. n : \E f : So(f, k)}
<1>1. n \in Nat
  BY LenProperties
<1>2. 0 \in T
  <2> DEFINE f == [j \in {0} |-> <<>>]
  <2>1. f[0] = <<>> /\ \A j \in 0 .. 0 : j = 0
    OBVIOUS
  <2> HIDE DEF f
  <2>2. So(f, 0)
    BY <2>1
  <2>3. \E h : So(h, 0)
    BY <2>2
  <2> QED
    BY <1>1, <2>3
<1>3. ASSUME NEW k \in 0 .. n - 1, k \in T PROVE k + 1 \in T
  <2>1. PICK f : So(f, k)
    BY <1>3
  <2>2. k \in Nat /\ k + 1 \in 0 .. n
    BY <1>1
  <2> DEFINE g == [j \in 0 .. k + 1 |-> IF j = k + 1 THEN Value(f, k + 1) ELSE f[j]]
  <2>3. \A j \in 0 .. k : g[j] = f[j]
    BY <2>2
  <2>4. g[k + 1] = Value(f, k + 1)
    BY <2>2
  <2> HIDE DEF g
  <2>5. ASSUME NEW j \in 0 .. k + 1 PROVE g[j] = Value(g, j)
    <3>1. CASE j = k + 1
      <4>1. k \in 0 .. k /\ (k + 1) - 1 = k /\ k + 1 # 0
        BY <2>2
      <4>2. g[(k + 1) - 1] = f[(k + 1) - 1]
        BY <2>3, <4>1
      <4> QED
        BY <2>4, <3>1, <4>2
    <3>2. CASE j # k + 1
      <4>1. j \in 0 .. k /\ (j # 0 => j - 1 \in 0 .. k)
        BY <2>2, <3>2
      <4>2. f[j] = Value(f, j) /\ g[j] = f[j] /\ (j # 0 => g[j - 1] = f[j - 1])
        BY <2>1, <2>3, <4>1
      <4> QED
        BY <4>2
    <3> QED
      BY <3>1, <3>2
  <2>6. So(g, k + 1)
    BY <2>5
  <2> QED
    BY <2>2, <2>6
<1>4. 0 .. n \subseteq T
  <2> HIDE DEF T, n
  <2> QED
    BY <1>1, <1>2, <1>3, UpTo
<1>5. n \in T
  BY <1>1, <1>4
<1>6. PICK f : So(f, n)
  BY <1>5
<1> HIDE DEF T
<1> DEFINE g == [j \in 0 .. n |-> f[j]]
<1>7. ASSUME NEW j \in 0 .. n PROVE f[j] = Value(g, j)
  <2>1. j # 0 => j - 1 \in 0 .. n
    BY <1>1
  <2>2. j # 0 => g[j - 1] = f[j - 1]
    BY <2>1
  <2>3. f[j] = Value(f, j)
    BY <1>6
  <2> HIDE DEF g
  <2> QED
    BY <2>2, <2>3
<1>8. IsMatching(s, g)
  BY <1>7 DEF IsMatching
<1> HIDE DEF g
<1> QED
  BY <1>8

\* So Matching can be followed from one end of a line to the next.
LEMMA MatchingIs ==
    ASSUME NEW S, NEW s \in Seq(S)
    PROVE  /\ Matching(s)[0] = <<>>
           /\ \A k \in 1 .. Len(s) + 1 :
                 Matching(s)[k] = Matching(s)[k - 1] \o Hits(s, k)
<1> DEFINE F == CHOOSE f : IsMatching(s, f)
<1>1. IsMatching(s, F)
  BY MatchingExists, Zenon
<1>2. Matching(s) = F
  BY DEF Matching, IsMatching, Hits
<1> HIDE DEF F
<1>3. IsMatching(s, Matching(s))
  BY <1>1, <1>2
<1> DEFINE M == Matching(s)
<1> HIDE DEF M
<1>4. \A k \in 0 .. Len(s) + 1 :
         M[k] = IF k = 0 THEN <<>> ELSE M[k - 1] \o Hits(s, k)
  BY <1>3 DEF IsMatching, M
<1>5. 0 \in 0 .. Len(s) + 1 /\ \A k \in 1 .. Len(s) + 1 : k \in 0 .. Len(s) + 1 /\ k # 0
  BY LenProperties
<1> QED
  BY <1>4, <1>5 DEF M

\* What is to be printed is a sequence of lines.
LEMMA MatchingTyped ==
    ASSUME NEW S, NEW s \in Seq(S), NEW k \in 0 .. Len(s) + 1
    PROVE  Matching(s)[k] \in Seq(Seq(S))
<1> DEFINE n == Len(s) + 1
           M == Matching(s)
           T == {j \in 0 .. n : M[j] \in Seq(Seq(S))}
<1>1. n \in Nat
  BY LenProperties
<1>2. M[0] = <<>> /\ \A j \in 1 .. n : M[j] = M[j - 1] \o Hits(s, j)
  BY MatchingIs
<1>3. \A j \in 1 .. n : Hits(s, j) \in Seq(Seq(S))
  BY HitsTyped
<1> HIDE DEF M, n
<1>4. 0 \in T
  <2>1. 0 \in 0 .. n /\ <<>> \in Seq(Seq(S))
    BY <1>1, EmptySeq
  <2> QED
    BY <1>2, <2>1
<1>5. ASSUME NEW j \in 0 .. n - 1, j \in T PROVE j + 1 \in T
  <2>1. j + 1 \in 1 .. n /\ j + 1 \in 0 .. n /\ (j + 1) - 1 = j
    BY <1>1
  <2>2. M[j] \in Seq(Seq(S)) /\ Hits(s, j + 1) \in Seq(Seq(S))
    BY <1>3, <1>5, <2>1
  <2>3. M[j] \o Hits(s, j + 1) \in Seq(Seq(S))
    BY <2>2, ConcatProperties
  <2>4. M[j + 1] = M[j] \o Hits(s, j + 1)
    BY <1>2, <2>1
  <2> QED
    BY <2>1, <2>3, <2>4
<1>6. 0 .. n \subseteq T
  <2> HIDE DEF T
  <2> QED
    BY <1>1, <1>4, <1>5, UpTo
<1> QED
  BY <1>6 DEF n, M

\* Where no line ends nothing is added.
LEMMA NothingAdded ==
    ASSUME NEW S, NEW s \in Seq(S), NEW a \in 0 .. Len(s) + 1,
           NEW b \in a .. Len(s) + 1, \A i \in a + 1 .. b : i \notin LineEnds(s)
    PROVE  Matching(s)[b] = Matching(s)[a]
<1> DEFINE n == b - a
           M == Matching(s)
           T == {j \in 0 .. n : M[a + j] = M[a]}
<1>1. n \in Nat /\ a \in Nat /\ b \in Nat /\ Len(s) \in Nat /\ a + n = b
  BY LenProperties
<1>2. \A j \in 1 .. Len(s) + 1 : M[j] = M[j - 1] \o Hits(s, j)
  BY MatchingIs
<1>3. M[a] \in Seq(Seq(S))
  BY MatchingTyped
<1> HIDE DEF M, n
<1>4. 0 \in T
  BY <1>1
<1>5. ASSUME NEW j \in 0 .. n - 1, j \in T PROVE j + 1 \in T
  <2>1. /\ j + 1 \in 0 .. n /\ a + (j + 1) \in a + 1 .. b
        /\ a + (j + 1) \in 1 .. Len(s) + 1
        /\ (a + (j + 1)) - 1 = a + j
    BY <1>1
  <2>2. Hits(s, a + (j + 1)) = <<>>
    BY <2>1 DEF Hits
  <2>3. M[a + (j + 1)] = M[a + j] \o <<>>
    BY <1>2, <2>1, <2>2
  <2>4. M[a + j] = M[a]
    BY <1>5
  <2>5. M[a] \o <<>> = M[a]
    BY <1>3, ConcatEmptySeq
  <2> QED
    BY <2>1, <2>3, <2>4, <2>5
<1>6. 0 .. n \subseteq T
  <2> HIDE DEF T
  <2> QED
    BY <1>1, <1>4, <1>5, UpTo
<1>7. n \in T
  BY <1>1, <1>6
<1> QED
  BY <1>1, <1>7 DEF M

\* From its start to its end a line adds what grep prints of it.
LEMMA LineAdded ==
    ASSUME NEW S, NEW s \in Seq(S), NEW k \in 1 .. Len(s) + 1, k \in LineEnds(s),
           NEW a \in 0 .. k - 1, Boundary(s, a), Unbroken(s, a, k)
    PROVE  Matching(s)[k] = Matching(s)[a] \o IfMatches(SubSeq(s, a + 1, k - 1))
<1>1. Len(s) \in Nat /\ k \in Nat /\ a \in Nat
  BY LenProperties
<1>2. LineBefore(s, k) = SubSeq(s, a + 1, k - 1)
  BY LineBeforeIs
<1>3. Hits(s, k) = IfMatches(SubSeq(s, a + 1, k - 1))
  BY <1>2 DEF Hits, IfMatches
<1>4. Matching(s)[k] = Matching(s)[k - 1] \o Hits(s, k)
  BY MatchingIs
<1>5. \A i \in a + 1 .. k - 1 : i \notin LineEnds(s)
  BY <1>1 DEF LineEnds, Unbroken
<1>6. k - 1 \in a .. Len(s) + 1 /\ a \in 0 .. Len(s) + 1
  BY <1>1
<1>7. Matching(s)[k - 1] = Matching(s)[a]
  BY <1>5, <1>6, NothingAdded
<1> QED
  BY <1>3, <1>4, <1>7

\* An empty line does not match.
LEMMA EmptyLine == IfMatches(<<>>) = <<>> /\ IfShown(<<>>) = <<>>
<1>1. Len(Pattern) \in Nat /\ Len(Pattern) # 0
  BY ProgramsAssumption, LenProperties, EmptySeq
<1>2. 0 .. Len(<<>>) - Len(Pattern) = {}
  BY <1>1
<1> QED
  BY <1>2 DEF IfMatches, IfShown, Occurs

-----------------------------------------------------------------------------
(* What the inner loop prints                                              *)

\* A line that fills the buffer ends right behind it.
LEMMA FullLine ==
    ASSUME NEW S, NEW s \in Seq(S), Short(s), NEW base \in Nat, Boundary(s, base),
           base + BUFSIZE <= Len(s), Unbroken(s, base, base + BUFSIZE + 1)
    PROVE  base + BUFSIZE + 1 \in LineEnds(s)
<1> DEFINE T == {k \in LineEnds(s) : k > base + BUFSIZE}
<1>1. BUFSIZE \in Nat /\ Len(s) \in Nat /\ DOMAIN s = 1 .. Len(s)
  BY LenProperties, ProgramsAssumption
<1>2. LineEnds(s) \subseteq 1 .. Len(s) + 1 /\ Len(s) + 1 \in LineEnds(s)
  BY <1>1 DEF LineEnds
<1>3. T \in SUBSET Nat /\ Len(s) + 1 \in T
  BY <1>1, <1>2
<1>4. PICK k \in T : \A j \in T : k <= j
  BY <1>3, Least
<1>5. k \in LineEnds(s) /\ k \in 1 .. Len(s) + 1 /\ k > base + BUFSIZE
  BY <1>2
<1>6. Unbroken(s, base, k)
  <2> SUFFICES ASSUME NEW i \in base + 1 .. k - 1, s[i] = NEWLINE
               PROVE  FALSE
    BY DEF Unbroken
  <2>1. CASE i <= base + BUFSIZE
    <3>1. i \in base + 1 .. (base + BUFSIZE + 1) - 1
      BY <1>1, <1>5, <2>1
    <3> QED
      BY <3>1 DEF Unbroken
  <2>2. CASE ~(i <= base + BUFSIZE)
    <3>1. i \in 1 .. Len(s) /\ i > base + BUFSIZE /\ ~(k <= i)
      BY <1>1, <1>5, <2>2
    <3>2. i \in T
      BY <1>1, <3>1 DEF LineEnds
    <3> QED
      BY <1>4, <3>1, <3>2
  <2> QED
    BY <2>1, <2>2
<1>7. base \in 0 .. k - 1
  BY <1>1, <1>5
<1>8. LineBefore(s, k) = SubSeq(s, base + 1, k - 1)
  BY <1>5, <1>6, <1>7, LineBeforeIs
<1>9. Len(SubSeq(s, base + 1, k - 1)) = (k - 1) - base
  <2>1. base + 1 \in Int /\ k - 1 \in Int
        /\ \A i \in base + 1 .. k - 1 : i \in 1 .. Len(s)
    BY <1>1, <1>5
  <2>2. \A i \in base + 1 .. k - 1 : s[i] \in S
    BY <2>1, ElementOfSeq
  <2>3. Len(SubSeq(s, base + 1, k - 1)) =
          IF base + 1 <= k - 1 THEN (k - 1) - (base + 1) + 1 ELSE 0
    BY <2>1, <2>2, SubSeqProperties
  <2> QED
    BY <1>1, <1>5, <2>3
<1>10. (k - 1) - base <= BUFSIZE
  <2> DEFINE n == Len(LineBefore(s, k))
  <2>1. n <= BUFSIZE
    BY <1>5 DEF Short
  <2>2. n = (k - 1) - base
    BY <1>8, <1>9, Zenon
  <2> HIDE DEF n
  <2> QED
    BY <2>1, <2>2
<1>11. k = base + BUFSIZE + 1
  <2>1. k \in Nat /\ BUFSIZE \in Nat /\ k > base + BUFSIZE
    BY <1>1, <1>5
  <2> HIDE DEF T
  <2> QED
    BY <1>10, <2>1
<1> QED
  BY <1>5, <1>11

\* The buffer holds filled characters of s from base, and no newline behind them.
Holds(d, s, base, filled) ==
    /\ base \in Nat /\ filled \in Nat /\ base + filled <= Len(s)
    /\ \A c \in 0 .. filled - 1 : d[c] = s[base + 1 + c]
    /\ d[filled] # NEWLINE

\* A piece of the buffer is a piece of the text.
LEMMA PieceIs ==
    ASSUME NEW S, NEW s \in Seq(S), NEW d, NEW base, NEW filled,
           Holds(d, s, base, filled), NEW x \in 0 .. filled, NEW e \in x .. filled
    PROVE  /\ Piece(d, x, e) = SubSeq(s, base + x + 1, base + e)
           /\ Piece(d, x, e) \in Seq(S)
<1>1. /\ base \in Nat /\ filled \in Nat /\ Len(s) \in Nat /\ x \in Nat /\ e \in Nat
      /\ x <= e /\ e <= filled /\ base + filled <= Len(s)
  BY LenProperties DEF Holds
<1> DEFINE p == Piece(d, x, e)
           q == SubSeq(s, base + x + 1, base + e)
<1>2. /\ q \in Seq(S) /\ Len(q) = e - x
      /\ \A k \in 1 .. e - x : q[k] = s[base + x + k]
  <2>1. base + x + 1 \in Int /\ base + e \in Int
        /\ \A i \in base + x + 1 .. base + e : i \in 1 .. Len(s)
    BY <1>1
  <2>2. \A i \in base + x + 1 .. base + e : s[i] \in S
    BY <2>1, ElementOfSeq
  <2>3. /\ q \in Seq(S)
        /\ Len(q) = IF base + x + 1 <= base + e
                    THEN (base + e) - (base + x + 1) + 1 ELSE 0
        /\ \A k \in 1 .. (base + e) - (base + x + 1) + 1 :
              q[k] = s[(base + x + 1) + k - 1]
    BY <2>1, <2>2, SubSeqProperties
  <2>4. (base + e) - (base + x + 1) + 1 = e - x
    BY <1>1
  <2>5. \A k \in 1 .. e - x : (base + x + 1) + k - 1 = base + x + k
    BY <1>1
  <2>6. base + x + 1 <= base + e \/ e - x = 0
    BY <1>1
  <2> HIDE DEF q
  <2> QED
    BY <2>3, <2>4, <2>5, <2>6
<1>3. ASSUME NEW k \in 1 .. e - x PROVE d[x + k - 1] = s[base + x + k]
  <2>1. x + k - 1 \in 0 .. filled - 1 /\ base + 1 + (x + k - 1) = base + x + k
    BY <1>1
  <2> QED
    BY <2>1 DEF Holds
<1>4. p = [k \in 1 .. e - x |-> s[base + x + k]]
  BY <1>3 DEF Piece
<1>5. \A k \in 1 .. e - x : base + x + k \in 1 .. Len(s)
  BY <1>1
<1>6. \A k \in 1 .. e - x : s[base + x + k] \in S
  BY <1>5, ElementOfSeq
<1> HIDE DEF p, q
<1>7. p \in [1 .. e - x -> S] /\ e - x \in Nat
  BY <1>1, <1>4, <1>6
<1>8. p \in Seq(S) /\ Len(p) = e - x
  <2>1. PICK m \in Nat : m = e - x
    BY <1>7
  <2>2. p \in [1 .. m -> S]
    BY <1>7, <2>1
  <2>3. p \in Seq(S) /\ DOMAIN p = 1 .. m
    BY <2>2
  <2>4. Len(p) = m
    BY <2>3, LenProperties
  <2> QED
    BY <2>1, <2>3, <2>4
<1>9. \A k \in 1 .. Len(p) : p[k] = q[k]
  BY <1>2, <1>4, <1>8
<1>10. p = q
  BY <1>2, <1>8, <1>9, SeqEqual
<1> QED
  BY <1>8, <1>10 DEF p, q

\* The result r of the search from x: every newline is among the ends, none of
\* them in the part that waits, and nothing waits at the end of the file.
Shaped(d, filled, cnt, C, x, r) ==
    /\ r.part \in x .. filled
    /\ r.lines \in Seq(Seq(C))
    /\ cnt = 0 => r.part = filled
    /\ \A c \in x .. filled - 1 : d[c] = NEWLINE => c \in r.ends
    /\ \A c \in r.part .. filled - 1 : c \notin r.ends

\* All the lines up to base have been printed, or also the one that ends there
\* but for its newline.
Done(s, base, waiting, out) ==
    \/ Boundary(s, base) /\ out = Matching(s)[base]
    \/ /\ waiting = 0 /\ base + 1 \in LineEnds(s)
       /\ out = Matching(s)[base + 1]

Prints(s, base, filled, x, r) ==
    Boundary(s, base + x) =>
      Done(s, base + r.part, filled - r.part, Matching(s)[base + x] \o r.lines)

\* A read fills the buffer or comes to the end of the file.
Enough(s, base, filled, cnt) ==
    /\ cnt = 0 => base + filled = Len(s)
    /\ filled = BUFSIZE \/ base + filled = Len(s)

\* What is visible of a line is a piece of it, all of it where it has no NUL.
LEMMA VisibleIs ==
    ASSUME NEW S, NEW line \in Seq(S)
    PROVE  Visible(line) \in Seq(S) /\ (NoNul(line) => Visible(line) = line)
<1>1. PICK n \in Nat : n = Len(line) /\ DOMAIN line = 1 .. n
  BY LenProperties
<1> DEFINE Stops(m) == m = n \/ line[m + 1] = NUL
           T == {m \in 0 .. n : Stops(m)}
           Upto(m) == (m = n \/ line[m + 1] = NUL) /\ \A k \in 1 .. m : line[k] # NUL
           v == CHOOSE m \in 0 .. n : Upto(m)
<1>2. T \in SUBSET Nat /\ n \in T
  BY <1>1
<1>3. PICK x \in T : \A y \in T : x <= y
  BY <1>2, Least
<1>4. x \in 0 .. n /\ Stops(x)
  OBVIOUS
<1>5. ASSUME NEW k \in 1 .. x PROVE line[k] # NUL
  <2>1. k - 1 \in 0 .. n /\ ~(x <= k - 1) /\ (k - 1) + 1 = k
    BY <1>1, <1>4
  <2>2. k - 1 \notin T
    BY <1>3, <2>1
  <2> QED
    BY <2>1, <2>2
<1>6. Upto(x)
  BY <1>4, <1>5
<1>7. Visible(line) = SubSeq(line, 1, v)
  BY <1>1 DEF Visible
<1> HIDE DEF Upto, T
<1>8. v \in 0 .. n /\ Upto(v)
  BY <1>4, <1>6
<1> HIDE DEF v
<1>9. \A i \in 1 .. n : line[i] \in S
  BY <1>1, ElementOfSeq
<1>10. /\ SubSeq(line, 1, v) \in Seq(S) /\ Len(SubSeq(line, 1, v)) = v
       /\ \A k \in 1 .. v : SubSeq(line, 1, v)[k] = line[k]
  <2>1. 1 \in Int /\ v \in Int /\ \A i \in 1 .. v : i \in 1 .. n
    BY <1>1, <1>8
  <2>2. \A i \in 1 .. v : line[i] \in S
    BY <1>9, <2>1
  <2>3. /\ SubSeq(line, 1, v) \in Seq(S)
        /\ Len(SubSeq(line, 1, v)) = IF 1 <= v THEN v - 1 + 1 ELSE 0
        /\ \A k \in 1 .. v - 1 + 1 : SubSeq(line, 1, v)[k] = line[1 + k - 1]
    BY <2>1, <2>2, SubSeqProperties
  <2>4. v - 1 + 1 = v /\ (1 <= v \/ v = 0) /\ \A k \in 1 .. v : 1 + k - 1 = k
    BY <1>8
  <2> QED
    BY <2>3, <2>4
<1>11. ASSUME NoNul(line) PROVE v = n
  <2>1. v # n => v + 1 \in 1 .. n
    BY <1>1, <1>8
  <2> QED
    BY <1>1, <1>8, <1>11, <2>1 DEF NoNul, Upto
<1>12. ASSUME NoNul(line) PROVE SubSeq(line, 1, v) = line
  BY <1>1, <1>10, <1>11, <1>12, SeqEqual
<1> QED
  BY <1>7, <1>10, <1>12

\* What is printed of a line is a sequence of lines.
LEMMA PrintTyped ==
    ASSUME NEW S, NEW line \in Seq(S)
    PROVE  IfMatches(line) \in Seq(Seq(S)) /\ IfShown(line) \in Seq(Seq(S))
<1> DEFINE T == Seq(S)
<1>1. line \in T /\ Visible(line) \in T
  BY VisibleIs
<1> HIDE DEF T
<1>2. <<line>> \in Seq(T) /\ <<Visible(line)>> \in Seq(T) /\ <<>> \in Seq(T)
  BY <1>1
<1> QED
  BY <1>2 DEF IfMatches, IfShown, T

\* Where the text has no NUL, all of a line is visible.
LEMMA ShownWhole ==
    ASSUME NEW S, NEW s \in Seq(S), NoNul(s), NEW d, NEW base, NEW filled,
           Holds(d, s, base, filled), NEW x \in 0 .. filled, NEW e \in x .. filled
    PROVE  IfShown(Piece(d, x, e)) = IfMatches(Piece(d, x, e))
<1>1. Piece(d, x, e) \in Seq(S)
  BY PieceIs
<1>2. NoNul(Piece(d, x, e))
  <2>1. /\ base \in Nat /\ filled \in Nat /\ Len(s) \in Nat /\ base + filled <= Len(s)
        /\ DOMAIN s = 1 .. Len(s)
    BY LenProperties DEF Holds
  <2>2. ASSUME NEW k \in 1 .. e - x PROVE d[x + k - 1] # NUL
    <3>1. x + k - 1 \in 0 .. filled - 1 /\ base + 1 + (x + k - 1) \in 1 .. Len(s)
      BY <2>1
    <3> QED
      BY <2>1, <3>1 DEF Holds, NoNul
  <2> QED
    BY <2>2 DEF Piece, NoNul
<1>3. Visible(Piece(d, x, e)) = Piece(d, x, e)
  BY <1>1, <1>2, VisibleIs
<1> QED
  BY <1>3 DEF IfShown, IfMatches

\* If the search from behind this line is shaped so, so is that from this line.
LEMMA TurnShaped ==
    ASSUME NEW S, NEW s \in Seq(S), NEW d, NEW base, NEW filled,
           Holds(d, s, base, filled), NEW cnt, NEW g, NEW x \in 0 .. filled,
           \A y \in x + 1 .. filled : Shaped(d, filled, cnt, S, y, g[y])
    PROVE  Shaped(d, filled, cnt, S, x, Turn(d, filled, cnt, g, x))
<1>1. PICK r : r = Turn(d, filled, cnt, g, x)
  OBVIOUS
<1>2. SUFFICES Shaped(d, filled, cnt, S, x, r)
  BY <1>1, Zenon
<1>3. filled \in Nat /\ x \in Nat
  BY DEF Holds
<1>4. PICK e \in x .. filled :
         /\ e = LineEnd(d, x, filled) /\ (e = filled \/ d[e] = NEWLINE)
         /\ \A c \in x .. e - 1 : d[c] # NEWLINE
  BY <1>3, LineEndIs
<1>5. Piece(d, x, e) \in Seq(S)
  BY PieceIs
<1>6. PICK line \in Seq(Seq(S)) : line = IfShown(Piece(d, x, e))
  BY <1>5, PrintTyped
<1>7. Turned(d, filled, cnt, g, x, e, r)
  BY <1>1, <1>4, TurnGives, Zenon
<1>8. /\ Waits(d, x, e, cnt) =>
           r.lines = <<>> /\ r.ends = {e} /\ r.part = x
      /\ ~Waits(d, x, e, cnt) /\ e + 1 >= filled =>
           r.lines = line \o <<>> /\ r.ends = {e} /\ r.part = filled
      /\ ~Waits(d, x, e, cnt) /\ ~(e + 1 >= filled) =>
           /\ r.lines = line \o g[e + 1].lines
           /\ r.ends = g[e + 1].ends \cup {e} /\ r.part = g[e + 1].part
  BY <1>6, <1>7 DEF Turned
<1>9. CASE Waits(d, x, e, cnt)
  <2>1. d[e] # NEWLINE /\ cnt # 0 /\ e = filled
    BY <1>4, <1>9 DEF Waits
  <2>2. <<>> \in Seq(Seq(S))
    BY EmptySeq
  <2>3. /\ \A c \in x .. filled - 1 : d[c] # NEWLINE
        /\ \A c \in x .. filled - 1 : c \notin {e}
    BY <1>3, <1>4, <2>1
  <2>4. r.lines = <<>> /\ r.ends = {e} /\ r.part = x /\ x \in x .. filled
    BY <1>3, <1>8, <1>9
  <2> QED
    BY <2>1, <2>2, <2>3, <2>4 DEF Shaped
<1>10. CASE ~Waits(d, x, e, cnt) /\ e + 1 >= filled
  <2>1. line \o <<>> \in Seq(Seq(S))
    BY <1>6, ConcatEmptySeq
  <2>2. \A c \in x .. filled - 1 : c \in x .. e - 1 \/ c = e
    BY <1>3, <1>4, <1>10
  <2>3. \A c \in x .. filled - 1 : d[c] = NEWLINE => c \in {e}
    BY <1>4, <2>2
  <2>4. filled \in x .. filled /\ filled .. filled - 1 = {}
    BY <1>3
  <2> QED
    BY <1>8, <1>10, <2>1, <2>3, <2>4 DEF Shaped
<1>11. CASE ~Waits(d, x, e, cnt) /\ ~(e + 1 >= filled)
  <2>1. e + 1 \in x + 1 .. filled
    BY <1>3, <1>4, <1>11
  <2> DEFINE rest == g[e + 1]
  <2>2. Shaped(d, filled, cnt, S, e + 1, rest)
    BY <2>1
  <2>3. r.lines = line \o rest.lines /\ r.ends = rest.ends \cup {e} /\ r.part = rest.part
    BY <1>8, <1>11
  <2> HIDE DEF rest
  <2>4. line \o rest.lines \in Seq(Seq(S))
    BY <1>6, <2>2, ConcatProperties DEF Shaped
  <2>5. PICK part \in e + 1 .. filled : part = rest.part
    BY <2>2 DEF Shaped
  <2>6. part \in x .. filled /\ \A c \in part .. filled - 1 : c # e
    BY <1>3, <1>4, <2>5
  <2>7. ASSUME NEW c \in x .. filled - 1, d[c] = NEWLINE
        PROVE  c \in rest.ends \cup {e}
    <3>1. c \in x .. e - 1 \/ c = e \/ c \in e + 1 .. filled - 1
      BY <1>3, <1>4
    <3> QED
      BY <1>4, <2>2, <2>7, <3>1 DEF Shaped
  <2>8. \A c \in part .. filled - 1 : c \notin rest.ends \cup {e}
    BY <2>2, <2>5, <2>6 DEF Shaped
  <2>9. cnt = 0 => part = filled
    BY <2>2, <2>5 DEF Shaped
  <2> QED
    BY <2>3, <2>4, <2>5, <2>6, <2>7, <2>8, <2>9 DEF Shaped
<1> QED
  BY <1>9, <1>1, <1>10, <1>11

\* The line that ends at place e of the buffer adds what the search prints of it.
LEMMA LineFound ==
    ASSUME NEW S, NEW s \in Seq(S), NEW d, NEW base, NEW filled,
           Holds(d, s, base, filled), NEW x \in 0 .. filled, NEW e \in x .. filled,
           \A c \in x .. e - 1 : d[c] # NEWLINE,
           Boundary(s, base + x), base + e + 1 \in LineEnds(s)
    PROVE  Matching(s)[base + e + 1] = Matching(s)[base + x] \o IfMatches(Piece(d, x, e))
<1>1. /\ base \in Nat /\ filled \in Nat /\ Len(s) \in Nat /\ x \in Nat /\ e \in Nat
      /\ x <= e /\ e <= filled /\ base + filled <= Len(s)
  BY LenProperties DEF Holds
<1>2. PICK k \in 1 .. Len(s) + 1 : k = base + e + 1
  BY <1>1
<1>3. PICK a \in 0 .. k - 1 : a = base + x
  BY <1>1, <1>2
<1>4. Unbroken(s, a, k)
  <2> SUFFICES ASSUME NEW i \in a + 1 .. k - 1 PROVE s[i] # NEWLINE
    BY DEF Unbroken
  <2>1. PICK c \in x .. e - 1 : c = i - 1 - base
    BY <1>1, <1>2, <1>3
  <2>2. c \in 0 .. filled - 1 /\ base + 1 + c = i
    BY <1>1, <1>2, <1>3, <2>1
  <2>3. d[c] = s[i]
    BY <2>2 DEF Holds
  <2> QED
    BY <2>1, <2>3
<1>5. Matching(s)[k] = Matching(s)[a] \o IfMatches(SubSeq(s, a + 1, k - 1))
  BY <1>2, <1>3, <1>4, LineAdded
<1>6. a + 1 = base + x + 1 /\ k - 1 = base + e
  BY <1>1, <1>2, <1>3
<1>7. Piece(d, x, e) = SubSeq(s, base + x + 1, base + e)
  BY PieceIs
<1> QED
  BY <1>2, <1>3, <1>5, <1>6, <1>7

\* A line that ends where the buffer does, and does not wait, ends there in the text.
LEMMA LastLineEnds ==
    ASSUME NEW S, NEW s \in Seq(S), Short(s), NEW d, NEW base, NEW filled,
           Holds(d, s, base, filled), filled <= BUFSIZE, NEW cnt,
           Enough(s, base, filled, cnt), NEW x \in 0 .. filled,
           \A c \in x .. filled - 1 : d[c] # NEWLINE, Boundary(s, base + x),
           cnt = 0 \/ x = 0
    PROVE  base + filled + 1 \in LineEnds(s)
<1>1. /\ base \in Nat /\ filled \in Nat /\ Len(s) \in Nat /\ base + filled <= Len(s)
  BY LenProperties DEF Holds
<1>2. CASE base + filled = Len(s)
  BY <1>1, <1>2 DEF LineEnds
<1>3. CASE base + filled # Len(s)
  <2>1. filled = BUFSIZE /\ x = 0 /\ base + x = base
    BY <1>1, <1>3 DEF Enough
  <2>2. Boundary(s, base)
    BY <2>1
  <2>3. Unbroken(s, base, base + BUFSIZE + 1)
    <3> SUFFICES ASSUME NEW i \in base + 1 .. (base + BUFSIZE + 1) - 1
                 PROVE  s[i] # NEWLINE
      BY DEF Unbroken
    <3>1. PICK c \in 0 .. filled - 1 : c = i - 1 - base
      BY <1>1, <2>1
    <3>2. base + 1 + c = i
      BY <1>1, <3>1
    <3>3. d[c] = s[i]
      BY <3>2 DEF Holds
    <3> QED
      BY <2>1, <3>1, <3>3
  <2> QED
    BY <1>1, <2>1, <2>2, <2>3, FullLine
<1> QED
  BY <1>2, <1>3

\* An opaque name for \o, whose associativity is used as a whole.
Joined(a, b) == a \o b

\* That is associative.
LEMMA Regroup ==
    ASSUME NEW S, NEW a \in Seq(S), NEW b \in Seq(S), NEW c \in Seq(S)
    PROVE  Joined(Joined(a, b), c) = Joined(a, Joined(b, c))
  BY ConcatAssociative DEF Joined

\* If the search prints what it should from behind this line, so does it from
\* this line.
LEMMA TurnPrints ==
    ASSUME NEW S, NEW s \in Seq(S), Short(s), NoNul(s), NEW d, NEW base, NEW filled,
           Holds(d, s, base, filled), filled <= BUFSIZE, NEW cnt,
           Enough(s, base, filled, cnt), NEW g, NEW x \in 0 .. filled,
           \A y \in x + 1 .. filled :
              Shaped(d, filled, cnt, S, y, g[y]) /\ Prints(s, base, filled, y, g[y])
    PROVE  Prints(s, base, filled, x, Turn(d, filled, cnt, g, x))
<1>1. PICK r : r = Turn(d, filled, cnt, g, x)
  OBVIOUS
<1>2. SUFFICES ASSUME Boundary(s, base + x)
               PROVE  Done(s, base + r.part, filled - r.part,
                           Matching(s)[base + x] \o r.lines)
  BY <1>1 DEF Prints
<1>3. /\ base \in Nat /\ filled \in Nat /\ Len(s) \in Nat /\ x \in Nat
      /\ base + filled <= Len(s) /\ d[filled] # NEWLINE
      /\ \A c \in 0 .. filled - 1 : d[c] = s[base + 1 + c]
  BY LenProperties DEF Holds
<1>4. PICK e \in x .. filled :
         /\ e = LineEnd(d, x, filled) /\ (e = filled \/ d[e] = NEWLINE)
         /\ \A c \in x .. e - 1 : d[c] # NEWLINE
  <2>1. filled \in Nat
    BY <1>3
  <2> QED
    BY <2>1, LineEndIs
<1>5. Turned(d, filled, cnt, g, x, e, r)
  BY <1>1, <1>4, TurnGives, Zenon
<1>6. Piece(d, x, e) \in Seq(S)
  BY PieceIs
<1>7. PICK line \in Seq(Seq(S)) :
         line = IfMatches(Piece(d, x, e)) /\ line = IfShown(Piece(d, x, e))
  BY <1>6, PrintTyped, ShownWhole
<1>8. base + x \in 0 .. Len(s) + 1
  BY <1>3
<1>9. PICK before \in Seq(Seq(S)) : before = Matching(s)[base + x]
  BY <1>8, MatchingTyped
<1>10. line \o <<>> = line /\ before \o <<>> = before
  BY ConcatEmptySeq
<1>11. base + e + 1 \in LineEnds(s) => Matching(s)[base + e + 1] = before \o line
  <2> SUFFICES ASSUME base + e + 1 \in LineEnds(s)
               PROVE  Matching(s)[base + e + 1] = before \o line
    OBVIOUS
  <2>1. \A c \in x .. e - 1 : d[c] # NEWLINE
    BY <1>4
  <2>2. Matching(s)[base + e + 1] = Matching(s)[base + x] \o IfMatches(Piece(d, x, e))
    BY <1>2, <2>1, LineFound
  <2> QED
    BY <1>7, <1>9, <2>2
<1>12. CASE Waits(d, x, e, cnt)
  <2>1. r.lines = <<>> /\ r.part = x
    BY <1>5, <1>12 DEF Turned
  <2> QED
    BY <1>2, <1>9, <1>10, <2>1 DEF Done
<1>13. CASE e = filled /\ ~Waits(d, x, e, cnt)
  <2>1. r.lines = line \o <<>> /\ r.part = filled
    BY <1>3, <1>5, <1>7, <1>13 DEF Turned
  <2>2. cnt = 0 \/ x = 0
    BY <1>3, <1>13 DEF Waits
  <2>3. base + filled + 1 \in LineEnds(s)
    BY <1>2, <1>4, <1>13, <2>2, LastLineEnds
  <2>4. Matching(s)[base + filled + 1] = before \o line
    BY <1>11, <1>13, <2>3
  <2>5. filled - filled = 0
    BY <1>3
  <2> QED
    BY <1>9, <1>10, <2>1, <2>3, <2>4, <2>5 DEF Done
<1>14. CASE e # filled
  <2>1. d[e] = NEWLINE
    BY <1>4, <1>14
  <2>2. d[e] = NEWLINE /\ ~Waits(d, x, e, cnt)
    BY <2>1 DEF Waits
  <2>3. e \in 0 .. filled - 1 /\ base + 1 + e = base + e + 1 /\ e + 1 <= filled
        /\ base + (e + 1) = base + e + 1
    <3>1. e \in Nat /\ base \in Nat /\ filled \in Nat /\ e < filled
      BY <1>3, <1>14
    <3> QED
      BY <3>1
  <2>4. s[base + e + 1] = NEWLINE /\ base + e + 1 \in 1 .. Len(s)
    BY <1>3, <2>2, <2>3
  <2>5. base + e + 1 \in LineEnds(s) /\ Boundary(s, base + e + 1)
    BY <2>4, LenProperties DEF LineEnds, Boundary
  <2>6. PICK after : after = Matching(s)[base + e + 1]
    OBVIOUS
  <2>7. after = before \o line
    BY <1>11, <2>5, <2>6
  <2>8. CASE e + 1 >= filled
    <3>1. r.lines = line \o <<>> /\ r.part = filled /\ base + filled = base + e + 1
      BY <1>3, <1>5, <1>7, <2>2, <2>3, <2>8 DEF Turned
    <3> QED
      BY <1>9, <1>10, <2>5, <2>6, <2>7, <3>1 DEF Done
  <2>9. CASE ~(e + 1 >= filled)
    <3>1. PICK rest : rest = g[e + 1]
      OBVIOUS
    <3>2. r.lines = line \o rest.lines /\ r.part = rest.part
      BY <1>5, <1>7, <2>2, <2>9, <3>1 DEF Turned
    <3>3. e + 1 \in x + 1 .. filled
      BY <1>3, <1>4, <2>3
    <3>4. Shaped(d, filled, cnt, S, e + 1, rest) /\ Prints(s, base, filled, e + 1, rest)
      BY <3>1, <3>3
    <3>5. Done(s, base + rest.part, filled - rest.part, after \o rest.lines)
      BY <2>3, <2>5, <2>6, <3>4 DEF Prints
    <3>6. rest.lines \in Seq(Seq(S))
      BY <3>4 DEF Shaped
    <3>7. (before \o line) \o rest.lines = before \o (line \o rest.lines)
      <4>1. PICK u \in Seq(Seq(S)) : u = rest.lines
        BY <3>6
      <4>2. Joined(Joined(before, line), u) = Joined(before, Joined(line, u))
        BY Regroup
      <4>3. (before \o line) \o u = before \o (line \o u)
        BY <4>2 DEF Joined
      <4> QED
        BY <4>1, <4>3
    <3> QED
      BY <1>9, <2>7, <3>2, <3>5, <3>7
  <2> QED
    BY <2>8, <2>9
<1> QED
  BY <1>12, <1>13, <1>14

\* The search from every place has the shape, and prints what it should.
LEMMA EachShaped ==
    ASSUME NEW S, NEW s \in Seq(S), NEW d, NEW base, NEW filled,
           Holds(d, s, base, filled), NEW cnt, NEW g, IsLoop(d, filled, cnt, g)
    PROVE  \A x \in 0 .. filled : Shaped(d, filled, cnt, S, x, g[x])
<1> DEFINE T == {x \in 0 .. filled : Shaped(d, filled, cnt, S, x, g[x])}
<1>1. filled \in Nat
  BY DEF Holds
<1>2. ASSUME NEW x \in 0 .. filled, \A y \in x + 1 .. filled : y \in T
      PROVE  x \in T
  <2>1. \A y \in x + 1 .. filled : Shaped(d, filled, cnt, S, y, g[y])
    BY <1>2
  <2>2. Shaped(d, filled, cnt, S, x, Turn(d, filled, cnt, g, x))
    BY <2>1, TurnShaped
  <2>3. g[x] = Turn(d, filled, cnt, g, x)
    BY DEF IsLoop
  <2>4. Shaped(d, filled, cnt, S, x, g[x])
    BY <2>2, <2>3, Zenon
  <2> QED
    BY <2>4
<1>3. \A x \in 0 .. filled : x \in T
  <2> HIDE DEF T
  <2> QED
    BY <1>1, <1>2, DownTo
<1> QED
  BY <1>3

\* And it prints what it should from there.
LEMMA EachPrints ==
    ASSUME NEW S, NEW s \in Seq(S), Short(s), NoNul(s), NEW d, NEW base, NEW filled,
           Holds(d, s, base, filled), filled <= BUFSIZE, NEW cnt,
           Enough(s, base, filled, cnt), NEW g, IsLoop(d, filled, cnt, g)
    PROVE  \A x \in 0 .. filled : Prints(s, base, filled, x, g[x])
<1> DEFINE T == {x \in 0 .. filled : Prints(s, base, filled, x, g[x])}
<1>1. filled \in Nat
  BY DEF Holds
<1>2. \A x \in 0 .. filled : Shaped(d, filled, cnt, S, x, g[x])
  BY EachShaped
<1>3. ASSUME NEW x \in 0 .. filled, \A y \in x + 1 .. filled : y \in T
      PROVE  x \in T
  <2>1. \A y \in x + 1 .. filled : y \in 0 .. filled
    BY <1>1
  <2>2. \A y \in x + 1 .. filled :
           Shaped(d, filled, cnt, S, y, g[y]) /\ Prints(s, base, filled, y, g[y])
    BY <1>2, <1>3, <2>1
  <2>3. Prints(s, base, filled, x, Turn(d, filled, cnt, g, x))
    BY <2>2, TurnPrints
  <2>4. g[x] = Turn(d, filled, cnt, g, x)
    BY DEF IsLoop
  <2>5. Prints(s, base, filled, x, g[x])
    BY <2>3, <2>4, Zenon
  <2> QED
    BY <2>5
<1>4. \A x \in 0 .. filled : x \in T
  <2> HIDE DEF T
  <2> QED
    BY <1>1, <1>3, DownTo
<1> QED
  BY <1>4

\* An empty piece of a line prints nothing.
LEMMA EmptyPiece ==
    ASSUME NEW d
    PROVE  IfShown(Piece(d, 0, 0)) = <<>>
<1>1. Piece(d, 0, 0) = <<>>
  BY DEF Piece
<1> QED
  BY <1>1, EmptyLine

\* The search goes on with what has been printed, whether all the lines up to
\* the start of the buffer or also the one that ends there.
LEMMA SearchPrints ==
    ASSUME NEW S, NEW s \in Seq(S), Short(s), NoNul(s), NEW d, NEW base, NEW filled,
           Holds(d, s, base, filled), filled <= BUFSIZE, NEW cnt,
           Enough(s, base, filled, cnt), NEW r, r = Search(d, filled, cnt),
           NEW out, Done(s, base, 0, out)
    PROVE  Done(s, base + r.part, filled - r.part, out \o r.lines)
<1>1. /\ base \in Nat /\ filled \in Nat /\ Len(s) \in Nat /\ base + filled <= Len(s)
      /\ d[filled] # NEWLINE /\ \A c \in 0 .. filled - 1 : d[c] = s[base + 1 + c]
  BY LenProperties DEF Holds
<1>2. PICK g : IsLoop(d, filled, cnt, g) /\ Search(d, filled, cnt) = g[0]
  <2>1. filled \in Nat
    BY <1>1
  <2> QED
    BY <2>1, SearchIs, Zenon
<1>3. 0 \in 0 .. filled /\ base + 0 = base
  BY <1>1
<1>4. r = g[0] /\ g[0] = Turn(d, filled, cnt, g, 0)
  BY <1>2, <1>3 DEF IsLoop
<1>5. /\ \A x \in 0 .. filled : Shaped(d, filled, cnt, S, x, g[x])
      /\ \A x \in 0 .. filled : Prints(s, base, filled, x, g[x])
  BY <1>2, EachShaped, EachPrints
<1>6. CASE Boundary(s, base) /\ out = Matching(s)[base]
  <2>1. Prints(s, base, filled, 0, r)
    BY <1>3, <1>4, <1>5
  <2> QED
    BY <1>3, <1>6, <2>1 DEF Prints
<1>7. CASE base + 1 \in LineEnds(s) /\ out = Matching(s)[base + 1]
  <2>1. base + 1 \in 0 .. Len(s) + 1
    BY <1>1
  <2>2. PICK before \in Seq(Seq(S)) : before = Matching(s)[base + 1]
    BY <2>1, MatchingTyped
  <2>3. before \o <<>> = before /\ <<>> \o <<>> = <<>>
    BY ConcatEmptySeq
  <2>4. PICK e \in 0 .. filled :
           /\ e = LineEnd(d, 0, filled) /\ (e = filled \/ d[e] = NEWLINE)
           /\ \A c \in 0 .. e - 1 : d[c] # NEWLINE
    <3>1. filled \in Nat /\ 0 \in 0 .. filled
      BY <1>1
    <3> QED
      BY <3>1, LineEndIs
  <2>5. Turned(d, filled, cnt, g, 0, e, r)
    BY <1>4, <2>4, TurnGives, Zenon
  <2>6. ~Waits(d, 0, e, cnt)
    BY DEF Waits
  <2>7. CASE base = Len(s)
    <3>1. filled = 0 /\ e = 0
      BY <1>1, <2>4, <2>7
    <3>2. r.lines = IfShown(Piece(d, 0, 0)) \o <<>> /\ r.part = 0
      BY <2>5, <2>6, <3>1 DEF Turned
    <3>3. r.lines = <<>>
      BY <2>3, <3>2, EmptyPiece
    <3>4. out \o r.lines = out
      BY <1>7, <2>2, <2>3, <3>3
    <3>5. base + r.part = base /\ filled - r.part = 0
      BY <1>3, <3>1, <3>2
    <3> QED
      BY <1>7, <3>4, <3>5 DEF Done
  <2>8. CASE base # Len(s)
    <3>1. filled \in Nat \ {0} /\ 0 \in 0 .. filled - 1 /\ base + 1 \in 1 .. Len(s)
      BY <1>1, <2>8, ProgramsAssumption DEF Enough
    <3>2. s[base + 1] = NEWLINE
      BY <1>1, <1>7, <2>8, <3>1 DEF LineEnds
    <3>3. d[0] = NEWLINE
      <4>1. d[0] = s[base + 1 + 0] /\ base + 1 + 0 = base + 1
        BY <1>1, <3>1
      <4> QED
        BY <3>2, <4>1
    <3>4. Boundary(s, base + 1)
      BY <3>2 DEF Boundary
    <3>5. e = 0
      <4>1. ~(0 \in 0 .. e - 1)
        BY <2>4, <3>3
      <4> QED
        BY <4>1
    <3>6. CASE e + 1 >= filled
      <4>1. filled = 1
        BY <3>1, <3>5, <3>6
      <4>2. r.lines = IfShown(Piece(d, 0, 0)) \o <<>> /\ r.part = 1
        BY <2>5, <2>6, <3>5, <3>6, <4>1 DEF Turned
      <4>3. r.lines = <<>>
        BY <2>3, <4>2, EmptyPiece
      <4> QED
        BY <1>7, <2>2, <2>3, <3>4, <4>2, <4>3 DEF Done
    <3>7. CASE ~(e + 1 >= filled)
      <4>1. 1 \in 0 .. filled /\ e + 1 = 1
        BY <3>1, <3>5
      <4>2. PICK rest : rest = g[1]
        OBVIOUS
      <4>3. r.lines = IfShown(Piece(d, 0, 0)) \o rest.lines /\ r.part = rest.part
        BY <2>5, <2>6, <3>5, <3>7, <4>1, <4>2 DEF Turned
      <4>4. Shaped(d, filled, cnt, S, 1, rest) /\ Prints(s, base, filled, 1, rest)
        BY <1>5, <4>1, <4>2
      <4>5. rest.lines \in Seq(Seq(S))
        BY <4>4 DEF Shaped
      <4>6. r.lines = rest.lines
        BY <4>3, <4>5, EmptyPiece, ConcatEmptySeq
      <4> QED
        BY <1>7, <3>4, <4>3, <4>4, <4>6 DEF Prints
    <3> QED
      BY <3>6, <3>7
  <2> QED
    BY <2>7, <2>8
<1> QED
  BY <1>6, <1>7 DEF Done

\* At the end of the file all of it has been printed.
LEMMA AllPrinted ==
    ASSUME NEW S, NEW s \in Seq(S), NEW out, Done(s, Len(s), 0, out)
    PROVE  out = Matching(s)[Len(s) + 1]
<1>1. PICK n \in Nat : n = Len(s)
  BY LenProperties
<1>2. CASE Boundary(s, n) /\ out = Matching(s)[n]
  <2>1. n + 1 \in 1 .. Len(s) + 1 /\ n + 1 \in LineEnds(s) /\ n \in 0 .. (n + 1) - 1
    BY <1>1 DEF LineEnds
  <2>2. Unbroken(s, n, n + 1)
    BY <1>1 DEF Unbroken
  <2>3. PICK k \in 1 .. Len(s) + 1 : k = n + 1
    BY <2>1
  <2>4. Matching(s)[k] = Matching(s)[n] \o IfMatches(SubSeq(s, n + 1, k - 1))
    BY <1>2, <2>1, <2>2, <2>3, LineAdded
  <2>5. SubSeq(s, n + 1, k - 1) = <<>>
    <3>1. k - 1 = n /\ n + 1 \in Int /\ n \in Int
      BY <2>3
    <3>2. \A i \in n + 1 .. n : s[i] \in S
      BY <3>1
    <3>3. SubSeq(s, n + 1, n) \in Seq(S) /\ Len(SubSeq(s, n + 1, n)) = 0
      BY <3>1, <3>2, SubSeqProperties
    <3> QED
      BY <3>1, <3>3, EmptySeq
  <2>6. n \in 0 .. Len(s) + 1
    BY <1>1
  <2>7. PICK before \in Seq(Seq(S)) : before = Matching(s)[n]
    BY <2>6, MatchingTyped
  <2>8. before \o <<>> = before
    BY ConcatEmptySeq
  <2> QED
    BY <1>1, <1>2, <2>3, <2>4, <2>5, <2>7, <2>8, EmptyLine
<1> QED
  BY <1>1, <1>2 DEF Done

-----------------------------------------------------------------------------
(* grep's buffer between two reads                                         *)

NoNewline(d) == \A c \in DataCells : d[c] # NEWLINE

\* Between two reads the buffer holds n characters of s from base, and no newline.
Keeps(d, s, base, n) ==
    NoNewline(d) /\ \A c \in 0 .. n - 1 : d[c] = s[base + 1 + c]

\* After a read it holds filled of them, and no newline behind them.
Receives(d, s, base, filled) ==
    Holds(d, s, base, filled) /\ \A c \in filled .. BUFSIZE : d[c] # NEWLINE

\* Behind what is read there is no newline either.
LEMMA ReadClean ==
    ASSUME NEW d, NoNewline(d), NEW s, NEW from \in Nat, NEW cnt \in Nat, NEW pos
    PROVE  \A c \in from + cnt .. BUFSIZE : Filled(d, s, from, cnt, pos)[c] # NEWLINE
<1> SUFFICES ASSUME NEW c \in from + cnt .. BUFSIZE
             PROVE  Filled(d, s, from, cnt, pos)[c] # NEWLINE
  OBVIOUS
<1>1. BUFSIZE \in Nat /\ DataCells = 0 .. BUFSIZE
  BY ProgramsAssumption DEF DataCells
<1>2. c \in DataCells /\ c \notin from .. from + cnt - 1
  BY <1>1
<1> QED
  BY <1>2 DEF Filled, NoNewline

\* What is read lands behind what waited.
LEMMA ReadHolds ==
    ASSUME NEW d, NEW s, NEW base \in Nat, NEW from \in Nat, Keeps(d, s, base, from),
           NEW cnt \in Nat, from + cnt <= BUFSIZE, base + from + cnt <= Len(s)
    PROVE  Receives(Filled(d, s, from, cnt, base + from), s, base, from + cnt)
<1> DEFINE m == Filled(d, s, from, cnt, base + from)
<1>1. BUFSIZE \in Nat /\ DataCells = 0 .. BUFSIZE
  BY ProgramsAssumption DEF DataCells
<1>2. \A c \in DataCells :
         m[c] = IF c \in from .. from + cnt - 1
                THEN s[base + from + 1 + c - from] ELSE d[c]
  BY DEF Filled
<1> HIDE DEF m
<1>3. ASSUME NEW c \in from + cnt .. BUFSIZE PROVE m[c] # NEWLINE
  <2>1. c \in DataCells /\ c \notin from .. from + cnt - 1
    BY <1>1
  <2> QED
    BY <1>2, <2>1 DEF Keeps, NoNewline
<1>4. ASSUME NEW c \in 0 .. (from + cnt) - 1 PROVE m[c] = s[base + 1 + c]
  <2>1. c \in DataCells
    BY <1>1
  <2>2. CASE c \in from .. from + cnt - 1
    <3>1. m[c] = s[base + from + 1 + c - from]
      BY <1>2, <2>1, <2>2
    <3>2. base + from + 1 + c - from = base + 1 + c
      OBVIOUS
    <3> QED
      BY <3>1, <3>2
  <2>3. CASE c \notin from .. from + cnt - 1
    <3>1. c \in 0 .. from - 1
      BY <2>3
    <3> QED
      BY <1>2, <2>1, <2>3, <3>1 DEF Keeps
  <2> QED
    BY <2>2, <2>3
<1>5. from + cnt \in Nat /\ from + cnt \in from + cnt .. BUFSIZE /\ base + (from + cnt) <= Len(s)
  <2>1. from + cnt \in Nat
    OBVIOUS
  <2>2. from + cnt \in from + cnt .. BUFSIZE
    BY <1>1
  <2>3. base + (from + cnt) = base + from + cnt
    OBVIOUS
  <2> QED
    BY <2>1, <2>2, <2>3
<1>6. Holds(m, s, base, from + cnt)
  BY <1>3, <1>4, <1>5 DEF Holds
<1> QED
  BY <1>3, <1>6 DEF m, Receives

\* However much of what waits is moved, no newline is left in the buffer.
LEMMA MovedClean ==
    ASSUME NEW d, NEW filled \in 0 .. BUFSIZE,
           \A c \in filled .. BUFSIZE : d[c] # NEWLINE,
           NEW cnt, NEW C, NEW r, Shaped(d, filled, cnt, C, 0, r)
    PROVE  NoNewline(Moved(Ended(d, r.ends), r.part, filled))
<1>1. BUFSIZE \in Nat /\ DataCells = 0 .. BUFSIZE /\ NUL # NEWLINE /\ filled \in Nat
  BY ProgramsAssumption DEF DataCells, NUL, NEWLINE
<1>2. PICK part \in 0 .. filled : part = r.part
  BY DEF Shaped
<1> DEFINE ended == Ended(d, r.ends)
<1>3. \A c \in DataCells : ended[c] = IF c \in r.ends THEN NUL ELSE d[c]
  BY DEF Ended
<1> HIDE DEF ended
<1>4. ASSUME NEW c \in DataCells PROVE ended[c] # NEWLINE
  <2>1. c \in 0 .. filled - 1 \/ c \in filled .. BUFSIZE
    BY <1>1
  <2>2. d[c] = NEWLINE => c \in r.ends
    BY <2>1 DEF Shaped
  <2> QED
    BY <1>1, <1>3, <2>2
<1>5. ASSUME NEW c \in DataCells PROVE Moved(ended, part, filled)[c] # NEWLINE
  <2>1. c \in UptoNul(ended, part, filled) => part + c \in DataCells
    BY <1>1 DEF UptoNul
  <2> QED
    BY <1>4, <2>1 DEF Moved
<1> QED
  BY <1>2, <1>5 DEF ended, NoNewline

\* Of a text without NUL, what waits is moved to the start.
LEMMA MovedHolds ==
    ASSUME NEW d, NEW s, NoNul(s), DOMAIN s = 1 .. Len(s), Len(s) \in Nat,
           NEW base, NEW filled, Receives(d, s, base, filled),
           filled <= BUFSIZE, NEW cnt, NEW C, NEW r, Shaped(d, filled, cnt, C, 0, r)
    PROVE  Keeps(Moved(Ended(d, r.ends), r.part, filled), s, base + r.part,
                 filled - r.part)
<1>1. /\ BUFSIZE \in Nat /\ DataCells = 0 .. BUFSIZE
      /\ base \in Nat /\ filled \in Nat /\ base + filled <= Len(s)
  BY ProgramsAssumption DEF DataCells, Holds, Receives
<1>2. PICK part \in 0 .. filled : part = r.part
  BY DEF Shaped
<1> DEFINE ended == Ended(d, r.ends)
           m == Moved(ended, part, filled)
<1>3. \A c \in DataCells : ended[c] = IF c \in r.ends THEN NUL ELSE d[c]
  BY DEF Ended
<1>4. \A c \in DataCells : m[c] = IF c \in UptoNul(ended, part, filled)
                                  THEN ended[part + c] ELSE ended[c]
  BY DEF Moved
<1>5. NoNewline(m)
  <2>1. filled \in 0 .. BUFSIZE /\ \A c \in filled .. BUFSIZE : d[c] # NEWLINE
    BY <1>1 DEF Receives
  <2> QED
    BY <1>2, <2>1, MovedClean
<1> HIDE DEF ended, m
<1>6. ASSUME NEW k \in part .. filled - 1
      PROVE  ended[k] = s[base + 1 + k] /\ ended[k] # NUL
  <2>1. k \in DataCells /\ k \in 0 .. filled - 1 /\ base + 1 + k \in 1 .. Len(s)
    BY <1>1
  <2>2. k \notin r.ends
    BY <1>2 DEF Shaped
  <2>3. ended[k] = d[k] /\ d[k] = s[base + 1 + k]
    BY <1>3, <2>1, <2>2 DEF Holds, Receives
  <2> QED
    BY <2>1, <2>3 DEF NoNul
<1>7. ASSUME NEW c \in 0 .. (filled - part) - 1
      PROVE  m[c] = s[base + part + 1 + c]
  <2>1. /\ c \in DataCells /\ part < filled /\ part + c <= filled
        /\ part + c \in part .. filled - 1
        /\ \A k \in part .. part + c - 1 : k \in part .. filled - 1
        /\ base + 1 + (part + c) = base + part + 1 + c
    BY <1>1
  <2>2. c \in UptoNul(ended, part, filled)
    BY <1>6, <2>1 DEF UptoNul
  <2>3. m[c] = ended[part + c]
    BY <1>4, <2>1, <2>2
  <2> QED
    BY <1>6, <2>1, <2>3
<1> QED
  BY <1>2, <1>5, <1>7 DEF m, ended, Keeps

-----------------------------------------------------------------------------
(* What a call does to the program that makes it                           *)

\* A call is a step of the file arrays, or changes nothing, by the one who runs.
LEMMA CallsAreSteps ==
    ASSUME NEW result,
           \/ \E filename : CallOpen(filename, result)
           \/ \E f : CallClose(f, result)
           \/ \E f : \E n \in Nat : CallRead(f, n, result)
           \/ \E f, n : CallWrite(f, n, result)
           \/ \E n : CallNumber(n, result)
    PROVE  AnyStep /\ UNCHANGED current_pid
<1>1. UNCHANGED vars => AnyStep /\ UNCHANGED current_pid
  BY DEF AnyStep, vars
<1>2. ASSUME NEW filename, CallOpen(filename, result)
      PROVE  AnyStep /\ UNCHANGED current_pid
  BY <1>1, <1>2
     DEF CallOpen, AnyStep, Refused, OpenStandard, OpenFile, OpenDir, OpenEntry
<1>3. ASSUME NEW f, CallClose(f, result)
      PROVE  AnyStep /\ UNCHANGED current_pid
  BY <1>1, <1>3 DEF CallClose, AnyStep, Refused, Close
<1>4. ASSUME NEW f, NEW n \in Nat, CallRead(f, n, result)
      PROVE  AnyStep /\ UNCHANGED current_pid
  <2>1. ASSUME FileRead(f, n, result) PROVE AnyStep /\ UNCHANGED current_pid
    BY <2>1 DEF AnyStep, FileRead, InUse
  <2>2. ASSUME DirReadName(f) \/ DirReadEnd(f) PROVE AnyStep /\ UNCHANGED current_pid
    BY <1>1, <2>2 DEF AnyStep, DirReadName, DirReadEnd, InUse
  <2> QED
    BY <1>1, <1>4, <2>1, <2>2 DEF CallRead, Refused, ReadTerminal
<1>5. ASSUME NEW f, NEW n, CallWrite(f, n, result)
      PROVE  AnyStep /\ UNCHANGED current_pid
  BY <1>1, <1>5 DEF CallWrite
<1>6. ASSUME NEW n, CallNumber(n, result)
      PROVE  AnyStep /\ UNCHANGED current_pid
  BY <1>1, <1>6 DEF CallNumber, Refused
<1> QED
  BY <1>2, <1>3, <1>4, <1>5, <1>6

\* There is one first free descriptor.
LEMMA FreeOnce ==
    ASSUME NEW f \in Fds, NEW g \in Fds, Free(f), Free(g)
    PROVE  f = g
<1>1. f \in Nat /\ g \in Nat /\ f >= 2 /\ g >= 2
  BY DEF Free, Fds
<1>2. ~(f < g) /\ ~(g < f)
  BY <1>1 DEF Free
<1> QED
  BY <1>1, <1>2

\* An open that succeeds, of what is no device.
Opening(filename, result, i, d) ==
    /\ result \in Fds \ {0, 1} /\ Mine[result].flags = 0
    /\ IsEntry(i, filename) /\ Directory[i].filetype \in {0, 1, 2}
    /\ d = Opened(Mine[result], Directory[i])
    /\ d.flags = 1 /\ d.file_position = 0
    /\ Up' /\ Mine' = [Mine EXCEPT ![result] = d]
    /\ Mine'[result] = d /\ \A f \in Fds \ {result} : Mine'[f] = Mine[f]
    /\ Directory[i].filetype = 1 => dir_index' = 0

\* An open that succeeds puts an entry of that name into a free descriptor.
LEMMA Opens ==
    ASSUME IInv, NEW filename, ~IsDevice(filename), NEW result, result # -1,
           CallOpen(filename, result)
    PROVE  \E i \in 1 .. dir_count, d \in Descriptor : Opening(filename, result, i, d)
<1>1. /\ Up /\ (OpenFile(filename) \/ OpenDir(filename))
      /\ result \in Fds /\ Free(result)
  BY DEF CallOpen, Refused, OpenStandard
<1>2. PICK f \in Fds, types \in SUBSET {0, 1, 2} :
         /\ OpenEntry(filename, types, f)
         /\ 1 \in types => dir_index' = 0
  <2>1. {1} \in SUBSET {0, 1, 2} /\ {0, 2} \in SUBSET {0, 1, 2} /\ 1 \notin {0, 2}
    OBVIOUS
  <2> QED
    BY <1>1, <2>1, Zenon DEF OpenFile, OpenDir
<1>3. f = result
  BY <1>1, <1>2, FreeOnce DEF OpenEntry
<1>4. PICK i \in 1 .. dir_count :
         /\ IsEntry(i, filename) /\ Directory[i].filetype \in types
         /\ Becomes(f, Opened(Mine[f], Directory[i]))
  BY <1>2, OpenEntryBecomes DEF IInv
<1>5. Up /\ f \notin {0, 1} /\ Mine[f].flags = 0
  BY <1>2, OpenEntryBecomes DEF IInv
<1>6. Mine[f] \in Descriptor /\ Mine \in Arrays
  <2>1. Mine \in Arrays
    BY <1>1, MineTyped DEF IInv
  <2> QED
    BY <2>1 DEF Arrays
<1>7. PICK d \in Descriptor :
         /\ d = Opened(Mine[f], Directory[i])
         /\ d.flags = 1 /\ d.file_position = 0
  BY <1>2, <1>4, <1>6, OpenedSound
<1>8. Mine' = [Mine EXCEPT ![f] = d] /\ Mine'[f] = d /\ Up'
  BY <1>4, <1>5, <1>7, OpenFdsAfter
<1>9. \A g \in Fds \ {f} : Mine'[g] = Mine[g]
  BY <1>6, <1>8 DEF Arrays
<1> QED
  BY <1>2, <1>3, <1>4, <1>5, <1>7, <1>8, <1>9 DEF Opening

\* The operations follow from the type of the entry.
LEMMA OpenedIs ==
    ASSUME NEW d \in Descriptor, NEW i \in 1 .. dir_count,
           Directory[i].filetype \in {0, 1, 2}
    PROVE  Opened(d, Directory[i]).optable_ptr =
             IF Directory[i].filetype = 0 THEN "rtc"
             ELSE IF Directory[i].filetype = 1 THEN "dir" ELSE "regular"
  BY DEF Opened, Descriptor

\* What reading a directory and a file returns.
LEMMA DirRead ==
    ASSUME IInv, NEW f, InUse(f, "dir"), NEW n \in Nat, NEW result,
           CallRead(f, n, result)
    PROVE  /\ UNCHANGED <<current_pid, file_array>>
           /\ \/ /\ dir_index + 1 \in 1 .. dir_count /\ dir_index' = dir_index + 1
                 /\ result = Len(Directory[dir_index + 1].filename)
                 /\ result \notin {0, -1}
              \/ dir_index = dir_count /\ dir_index' = dir_index /\ result = 0
<1>1. ~Unusable(f) /\ ~InUse(f, "rtc") /\ ~InUse(f, "regular") /\ ~Terminal(f)
  BY DEF InUse, Unusable, Terminal
<1>2. dir_index \in 0 .. dir_count /\ dir_count \in Nat
  BY Entries DEF IInv, TypeOK
<1>3. CASE DirReadName(f) /\ result = Len(Directory[dir_index + 1].filename)
  <2>1. dir_index + 1 \in 1 .. dir_count /\ dir_index' = dir_index + 1
    <3>1. dir_index < dir_count /\ dir_index' = dir_index + 1
      BY <1>3 DEF DirReadName
    <3>2. \A a, b \in Nat : a < b => a + 1 \in 1 .. b
      OBVIOUS
    <3>3. dir_index \in Nat
      BY <1>2
    <3> QED
      BY <1>2, <3>1, <3>2, <3>3
  <2>2. result \in 1 .. FILENAME_LEN
    BY <1>3, <2>1
  <2> QED
    BY <1>3, <2>1, <2>2 DEF DirReadName
<1>4. CASE DirReadEnd(f) /\ result = 0
  BY <1>2, <1>4 DEF DirReadEnd, vars
<1> QED
  BY <1>1, <1>3, <1>4 DEF CallRead, FileRead, ReadTerminal

\* What a read of anything but a file leaves.
LEMMA OtherRead ==
    ASSUME NEW f, ~InUse(f, "regular"), NEW n, NEW result, CallRead(f, n, result)
    PROVE  UNCHANGED <<current_pid, file_array>>
<1>1. ~FileRead(f, n, result)
  BY DEF FileRead
<1> QED
  BY <1>1 DEF CallRead, Refused, DirReadName, DirReadEnd, ReadTerminal, vars

\* What a read of n bytes that returns result does to the position.
Moves(f, n, result) ==
    /\ result \in 0 .. n
    /\ Mine[f].file_position + result <= length_of_file[Mine[f].inode]
    /\ result = 0 => n = 0 \/ Mine[f].file_position = length_of_file[Mine[f].inode]
    /\ Up' /\ Mine'[f] = [Mine[f] EXCEPT !.file_position = @ + result]
    /\ \A g \in Fds \ {f} : Mine'[g] = Mine[g]

\* A read of a file fails and changes nothing, or moves the position.
LEMMA RegularRead ==
    ASSUME IInv, NEW f, InUse(f, "regular"), NEW n \in Nat, NEW result,
           CallRead(f, n, result)
    PROVE  /\ f \in Fds \ {0, 1} /\ Mine[f].inode \in Inodes
           /\ Mine[f] \in Descriptor
           /\ (result = -1 /\ UNCHANGED vars) \/ Moves(f, n, result)
<1>1. f \in Fds /\ Up /\ ~Unusable(f) /\ ~InUse(f, "rtc") /\ ~InUse(f, "dir") /\ ~Terminal(f)
  BY DEF InUse, Unusable, Terminal
<1>2. FileRead(f, n, result)
  BY <1>1 DEF CallRead, DirReadName, DirReadEnd, ReadTerminal
<1>3. Mine \in Arrays /\ Mine[f] \in Descriptor
  <2>1. Mine \in Arrays
    BY <1>1, MineTyped DEF IInv
  <2> QED
    BY <1>1, <2>1 DEF Arrays
<1>4. f \notin {0, 1} /\ Mine[f].inode \in Inodes
  BY <1>1, <1>2, FileReadBecomes
<1>5. CASE result = -1 /\ UNCHANGED vars
  BY <1>1, <1>3, <1>4, <1>5
<1>6. CASE ~(result = -1 /\ UNCHANGED vars)
  <2> DEFINE d == [Mine[f] EXCEPT !.file_position = @ + result]
  <2>1. /\ result \in 0 .. n
        /\ Mine[f].file_position + result <= length_of_file[Mine[f].inode]
        /\ result = 0 =>
             n = 0 \/ Mine[f].file_position = length_of_file[Mine[f].inode]
        /\ Becomes(f, d)
    BY <1>1, <1>2, <1>6, FileReadBecomes
  <2>2. d \in Descriptor
    <3>1. Mine[f].optable_ptr = "regular" /\ result \in Nat
      BY <2>1 DEF InUse
    <3> QED
      BY <1>3, <1>4, <2>1, <3>1, ReadSound
  <2> HIDE DEF d
  <2>3. Mine' = [Mine EXCEPT ![f] = d] /\ Mine'[f] = d /\ Up'
    BY <1>1, <1>4, <2>1, <2>2, OpenFdsAfter
  <2>4. \A g \in Fds \ {f} : Mine'[g] = Mine[g]
    BY <1>3, <2>3 DEF Arrays
  <2> QED
    BY <1>1, <1>3, <1>4, <2>1, <2>3, <2>4 DEF d, Moves
<1> QED
  BY <1>5, <1>6

\* "." opens as the directory.
LEMMA OpensDot ==
    ASSUME IInv, NEW result, result # -1, CallOpen(DotName, result)
    PROVE  /\ result \in Fds /\ Up' /\ dir_index' = 0
           /\ Mine'[result].flags = 1 /\ Mine'[result].optable_ptr = "dir"
<1>1. ~IsDevice(DotName)
  BY DotIsFound
<1>2. PICK i \in 1 .. dir_count, d \in Descriptor : Opening(DotName, result, i, d)
  BY <1>1, Opens
<1>3. DotName \in Seq({"."}) /\ Directory[i].filename \in Seq(STRING)
  <2>1. DotName \in Seq({"."})
    BY DEF DotName
  <2>2. Directory[i] \in [filename : Seq(STRING), filetype : Nat, inode_num : Nat]
    BY Entries
  <2> QED
    BY <2>1, <2>2
<1>4. Directory[i].filename = DotName
  BY <1>2, <1>3, SameNameIs DEF Opening, IsEntry
<1>5. Directory[i].filetype = 1
  BY <1>4, FileSystemAssumption
<1>6. Up /\ Mine[result] \in Descriptor
  <2>1. Up /\ Mine \in Arrays
    BY MineTyped DEF IInv, CallOpen
  <2> QED
    BY <1>2, <2>1 DEF Opening, Arrays
<1>7. d.optable_ptr = "dir"
  <2>1. Directory[i].filetype = 1 /\ 1 \in {0, 1, 2} /\ 1 # 0
    BY <1>5
  <2>2. Opened(Mine[result], Directory[i]).optable_ptr =
          IF Directory[i].filetype = 0 THEN "rtc"
          ELSE IF Directory[i].filetype = 1 THEN "dir" ELSE "regular"
    BY <1>6, <2>1, OpenedIs, Zenon
  <2> QED
    BY <1>2, <2>1, <2>2 DEF Opening
<1> QED
  BY <1>2, <1>5, <1>7 DEF Opening

-----------------------------------------------------------------------------
(* How far each program has come                                           *)

\* A program runs directly above the shell.
Running ==
    IF client = "none" THEN current_pid \in {-1, 0} ELSE current_pid = 1

\* The variables of the programs.
Locals ==
    /\ client \in Clients
    /\ pc \in {"open", "ask", "test", "read", "do_one_file", "search", "close",
               "end", "failed"}
    /\ fd \in Fds \cup {-1} /\ file \in Fds \cup {-1}
    /\ step \in Nat /\ count \in Nat /\ failed = {}
    /\ copied \in Nat \cup {Wrong}
    /\ data \in [DataCells -> TextChars \cup {NUL}]
    /\ last \in 0 .. BUFSIZE /\ (pc = "search" => last < BUFSIZE)

\* Before a program starts.
Clean == tests = <<>> /\ step = 1 /\ count = 0 /\ listed = <<>> /\ copied = 0

\* ls has listed what the cursor has passed.
LsAt ==
   /\ pc \in {"open", "read", "end"}
   /\ pc = "open" => OpenFds = {} /\ listed = <<>>
   /\ pc = "read" => InUse(fd, "dir") /\ Len(listed) = dir_index
   /\ pc = "end" => Len(listed) = dir_count
   /\ listed \in Seq(Seq(STRING))
   /\ \A k \in 1 .. Len(listed) : listed[k] = Directory[k].filename

\* cat has copied what is in front of the position.
CatAt ==
   /\ copied \in Nat
   /\ pc = "open" => copied = 0
   /\ pc \in {"read", "end"} /\ InUse(fd, "regular") => copied = Mine[fd].file_position
   /\ pc = "end" /\ InUse(fd, "regular") => copied = length_of_file[Mine[fd].inode]

\* The entries grep looks into.
Shown == {i \in 1 .. dir_count : Head(Directory[i].filename) # "."}

\* grep holds the directory and, while it searches one, another file.
GrepAt ==
   /\ pc \in {"read", "do_one_file", "search", "close"} => InUse(fd, "dir")
   /\ pc = "do_one_file" => \E i \in Shown : listed = <<Directory[i].filename>>
   /\ pc \in {"search", "close"} =>
        file # fd /\ (InUse(file, "rtc") \/ InUse(file, "regular"))
   /\ pc = "search" => text \in TextsOf(Mine[file])

Progress ==
    /\ client = "none" => Clean
    /\ client = "syserr" => SyserrAt
    /\ client = "ls" => LsAt
    /\ client = "cat" => CatAt
    /\ client = "grep" => GrepAt

PInv == IInv /\ Running /\ Locals /\ Progress

\* A call leaves the arrays sound and the program running.
LEMMA CallKeeps ==
    ASSUME PInv, AnyStep, UNCHANGED <<current_pid, client>>
    PROVE  IInv' /\ Running'
<1>1. IInv'
  BY AnyStepKeeps DEF PInv
<1>2. Running'
  BY DEF PInv, Running
<1> QED
  BY <1>1, <1>2

-----------------------------------------------------------------------------
(* syserr                                                                  *)

\* There are eight tests, each a finite sequence of calls.
LEMMA TestsAre ==
    /\ DOMAIN Tests = 1 .. 8 /\ OpenLots \in 1 .. 8
    /\ \A t \in 1 .. 8 : Len(Tests[t]) \in Nat
<1>1. DOMAIN Tests = 1 .. 8 /\ OpenLots \in 1 .. 8
  BY DEF Tests, OpenLots
<1>2. ASSUME NEW t \in 1 .. 8 PROVE Len(Tests[t]) \in Nat
  <2>1. CASE t = OpenLots
    BY <2>1, OpenLotsIs
  <2>2. CASE t # OpenLots
    BY <2>2, BadTests, LenProperties
  <2> QED
    BY <2>1, <2>2
<1> QED
  BY <1>1, <1>2

\* So are the calls of syserr.
LEMMA DoIsStep ==
    ASSUME NEW call, NEW result, Do(call, result)
    PROVE  AnyStep /\ UNCHANGED current_pid
<1>1. \/ CallRead(call.on, 31, result) \/ CallWrite(call.on, 31, result)
      \/ CallClose(call.on, result) \/ CallOpen(call.on, result)
      \/ CallNumber(call.on, result)
  BY DEF Do
<1>2. 31 \in Nat
  OBVIOUS
<1>3. PICK arg : \/ CallRead(arg, 31, result) \/ CallWrite(arg, 31, result)
                \/ CallClose(arg, result) \/ CallOpen(arg, result)
                \/ CallNumber(arg, result)
  BY <1>1, Zenon
<1>4. \/ \E filename : CallOpen(filename, result)
      \/ \E f : CallClose(f, result)
      \/ \E f : \E n \in Nat : CallRead(f, n, result)
      \/ \E f, n : CallWrite(f, n, result)
      \/ \E n : CallNumber(n, result)
  BY <1>2, <1>3, Zenon
<1> QED
  BY <1>4, CallsAreSteps, Zenon

\* Where a call that must be refused leaves syserr.
LEMMA BadCallKeeps ==
    ASSUME IInv, NEW t \in 1 .. 8, t # OpenLots, NEW s \in 1 .. Len(Tests[t]),
           OpenFds = OpenAt(t, s), NEW result, Do(Tests[t][s], result)
    PROVE  /\ OpenFds' = OpenAt(t, s + 1) /\ CountAt(t, s + 1) = CountAt(t, s)
           /\ ~Counts(t, Tests[t][s], result)
<1>1. OpenFds = {} /\ OpenAt(t, s + 1) = {} /\ CountAt(t, s + 1) = CountAt(t, s)
  BY DEF OpenAt, CountAt
<1>2. Tests[t][s] \in Bad
  BY BadTests, ElementOfSeq
<1>3. result = -1 /\ UNCHANGED vars
  BY <1>1, <1>2, BadCall
<1>4. ~Counts(t, Tests[t][s], result)
  BY <1>3 DEF Counts
<1>5. OpenFds' = OpenFds
  BY <1>3 DEF OpenFds, Mine, vars
<1> QED
  BY <1>1, <1>4, <1>5

\* Each call of err_open_lots opens or closes the descriptor it is meant to.
LEMMA OpenLotsKeeps ==
    ASSUME IInv, NEW s \in 1 .. Len(Tests[OpenLots]),
           OpenFds = OpenAt(OpenLots, s), NEW result, Do(Tests[OpenLots][s], result)
    PROVE  /\ OpenFds' = OpenAt(OpenLots, s + 1)
           /\ CountAt(OpenLots, s + 1) =
                CountAt(OpenLots, s)
                  + IF Counts(OpenLots, Tests[OpenLots][s], result) THEN 1 ELSE 0
<1>1. PICK m \in Nat : m = MAX_FILE_DESCRIPTOR /\ m >= 3
  OBVIOUS
<1>2. s \in 1 .. 2 * m - 3
  BY <1>1, OpenLotsIs
<1>3. CASE s < m
  <2>1. Tests[OpenLots][s] = Open(DotName) /\ s \in 1 .. MAX_FILE_DESCRIPTOR - 1
    BY <1>1, <1>2, <1>3, OpenLotsIs
  <2>2. OpenFds = 2 .. s
    BY <1>1, <1>3 DEF OpenAt
  <2>3. CallOpen(DotName, result)
    BY <2>1 DEF Do, Open
  <2>4. IF s < m - 1 THEN OpenFds' = 2 .. s + 1 /\ result # -1
        ELSE UNCHANGED vars /\ result = -1
    BY <1>1, <2>1, <2>2, <2>3, OpenDot
  <2>5. Counts(OpenLots, Tests[OpenLots][s], result) <=> result = -1
    BY <2>1 DEF Counts, Open
  <2>6. CASE s < m - 1
    <3>1. s + 1 < m
      BY <1>1, <1>2, <2>6
    <3>2. OpenAt(OpenLots, s + 1) = 2 .. s + 1
      BY <1>1, <3>1 DEF OpenAt
    <3>3. CountAt(OpenLots, s + 1) = 0 /\ CountAt(OpenLots, s) = 0
      BY <1>1, <1>2, <1>3, <3>1 DEF CountAt
    <3> QED
      BY <2>4, <2>5, <2>6, <3>2, <3>3
  <2>7. CASE ~(s < m - 1)
    <3>1. s = m - 1 /\ s + 1 = m
      BY <1>1, <1>2, <1>3, <2>7
    <3>2. OpenAt(OpenLots, s + 1) = 2 .. s
      BY <1>1, <1>2, <3>1 DEF OpenAt
    <3>3. CountAt(OpenLots, s + 1) = 1 /\ CountAt(OpenLots, s) = 0
      BY <1>1, <1>2, <1>3, <3>1 DEF CountAt
    <3>4. OpenFds' = OpenFds
      BY <2>4, <2>7 DEF OpenFds, Mine, vars
    <3> QED
      BY <2>2, <2>4, <2>5, <2>7, <3>2, <3>3, <3>4
  <2> QED
    BY <2>6, <2>7
<1>4. CASE ~(s < m)
  <2> DEFINE f == s - m + 2
  <2>1. /\ s \in MAX_FILE_DESCRIPTOR .. 2 * MAX_FILE_DESCRIPTOR - 3
        /\ f \in 2 .. m - 1 /\ m - 1 \in Nat /\ f <= m - 1
        /\ (s + 1) - m + 2 = f + 1 /\ ~(s + 1 < m) /\ s >= m /\ s + 1 >= m
    BY <1>1, <1>2, <1>4
  <2>2. Tests[OpenLots][s] = CloseFd(f)
    BY <1>1, <2>1, OpenLotsIs
  <2>3. OpenFds = f .. m - 1 /\ OpenAt(OpenLots, s + 1) = f + 1 .. m - 1
    BY <1>1, <1>4, <2>1 DEF OpenAt
  <2>4. CallClose(f, result)
    BY <2>2 DEF Do, CloseFd
  <2>5. f \in Fds \ {0, 1}
    <3>1. f \in 0 .. m - 1 /\ f # 0 /\ f # 1
      BY <1>1, <2>1
    <3> HIDE DEF f
    <3> QED
      BY <1>1, <3>1 DEF Fds
  <2>6. ~Counts(OpenLots, Tests[OpenLots][s], result)
    BY <2>2 DEF Counts, CloseFd
  <2>7. CountAt(OpenLots, s + 1) = 1 /\ CountAt(OpenLots, s) = 1
    BY <1>1, <2>1 DEF CountAt
  <2> HIDE DEF f
  <2>8. OpenFds' = f + 1 .. m - 1
    BY <2>1, <2>3, <2>4, <2>5, CloseLowest
  <2> QED
    BY <2>3, <2>6, <2>7, <2>8
<1> QED
  BY <1>3, <1>4

LEMMA SyserrAskKeeps ==
    ASSUME PInv, SyserrAsk
    PROVE  PInv'
<1>1. /\ client = "syserr" /\ pc = "ask" /\ client' = client
      /\ tests' \in {<<n>> : n \in DOMAIN Tests}
                     \cup {[n \in DOMAIN Tests |-> n], <<>>}
      /\ pc' = (IF tests' = <<>> THEN "end" ELSE "test")
      /\ UNCHANGED <<fd, step, count, failed, cat, grep>>
  BY DEF SyserrAsk, At
<1>2. PICK result \in LineCounts : CallRead(0, 127, result)
  BY DEF SyserrAsk
<1>3. Up
  BY <1>2 DEF CallRead
<1>4. UNCHANGED vars
  <2>1. ~Unusable(0) /\ ~InUse(0, "regular") /\ ~InUse(0, "dir") /\ ~InUse(0, "rtc")
    BY <1>3, StandardInUse DEF PInv
  <2> QED
    BY <1>2, <2>1 DEF CallRead, FileRead, DirReadName, DirReadEnd, ReadTerminal,
                      Refused
<1>5. SyserrAt /\ step = 1 /\ count = 0 /\ OpenFds = {}
  BY <1>1 DEF PInv, Progress, SyserrAt
<1>6. OpenFds' = {}
  BY <1>4, <1>5 DEF OpenFds, Mine, vars
<1>7. tests' \in Seq(1 .. 8)
  <2>1. tests' \in {<<n>> : n \in 1 .. 8} \cup {[n \in 1 .. 8 |-> n], <<>>}
    BY <1>1, TestsAre
  <2>2. \A n \in 1 .. 8 : <<n>> \in Seq(1 .. 8)
    OBVIOUS
  <2>3. [n \in 1 .. 8 |-> n] \in Seq(1 .. 8)
    OBVIOUS
  <2> QED
    BY <2>1, <2>2, <2>3, EmptySeq
<1>8. SyserrAt'
  <2>1. ASSUME tests' # <<>>
        PROVE  /\ step' \in 1 .. Len(Tests[tests'[1]]) + 1
               /\ OpenFds' = OpenAt(tests'[1], step')
               /\ count' = CountAt(tests'[1], step')
    <3>1. PICK t \in 1 .. 8 : t = tests'[1]
      BY <1>7, <2>1, ElementOfSeq
    <3>2. PICK n \in Nat : n = Len(Tests[t])
      BY TestsAre
    <3>3. 1 \in 1 .. n + 1
      BY <3>2
    <3>4. OpenAt(t, 1) = {} /\ CountAt(t, 1) = 0
      BY OpenAtEnds
    <3> QED
      BY <1>1, <1>5, <1>6, <3>1, <3>2, <3>3, <3>4
  <2>2. pc' # "ask"
    BY <1>1
  <2> QED
    BY <1>7, <2>1, <2>2 DEF SyserrAt
<1>9. IInv' /\ Running'
  <2>1. AnyStep /\ UNCHANGED <<current_pid, client>>
    BY <1>1, <1>4 DEF AnyStep, vars
  <2> QED
    BY <2>1, CallKeeps
<1>10. Locals'
  BY <1>1 DEF PInv, Locals, cat, grep
<1>11. Progress'
  BY <1>1, <1>8 DEF Progress
<1> QED
  BY <1>9, <1>10, <1>11 DEF PInv

LEMMA SyserrCallKeeps ==
    ASSUME PInv, SyserrCall
    PROVE  PInv'
<1>1. /\ client = "syserr" /\ tests # <<>> /\ step <= Len(Tests[tests[1]])
      /\ step' = step + 1
      /\ UNCHANGED <<client, pc, fd, tests, failed, cat, grep>>
  BY DEF SyserrCall
<1>2. PICK result \in Results :
         /\ Do(Tests[tests[1]][step], result)
         /\ count' = count + (IF Counts(tests[1], Tests[tests[1]][step], result)
                              THEN 1 ELSE 0)
  BY DEF SyserrCall
<1>3. IInv' /\ Running'
  BY <1>1, <1>2, DoIsStep, CallKeeps
<1>4. SyserrAt
  BY <1>1 DEF PInv, Progress
<1>5. PICK t \in 1 .. 8 : t = tests[1]
  BY <1>1, <1>4, ElementOfSeq DEF SyserrAt
<1>6. PICK n \in Nat : n = Len(Tests[t])
  BY TestsAre
<1>7. PICK s \in 1 .. Len(Tests[t]) : s = step
  <2>1. step \in 1 .. n + 1 /\ step <= n
    BY <1>1, <1>4, <1>5, <1>6 DEF SyserrAt
  <2>2. step \in 1 .. n
    BY <2>1
  <2> QED
    BY <1>6, <2>2
<1>8. OpenFds = OpenAt(t, s) /\ count = CountAt(t, s)
  BY <1>1, <1>4, <1>5, <1>7 DEF SyserrAt
<1>9. OpenFds' = OpenAt(t, s + 1) /\ count' = CountAt(t, s + 1)
  <2>1. CASE t # OpenLots
    <3>1. OpenFds' = OpenAt(t, s + 1) /\ CountAt(t, s + 1) = CountAt(t, s)
          /\ ~Counts(t, Tests[t][s], result)
      BY <1>2, <1>5, <1>7, <1>8, <2>1, BadCallKeeps DEF PInv
    <3>2. CountAt(t, s) \in Nat
      BY DEF CountAt
    <3> QED
      BY <1>2, <1>5, <1>7, <1>8, <3>1, <3>2
  <2>2. CASE t = OpenLots
    <3>1. s \in 1 .. Len(Tests[OpenLots]) /\ OpenFds = OpenAt(OpenLots, s)
          /\ Do(Tests[OpenLots][s], result) /\ IInv
      BY <1>2, <1>5, <1>7, <1>8, <2>2 DEF PInv
    <3>2. /\ OpenFds' = OpenAt(OpenLots, s + 1)
          /\ CountAt(OpenLots, s + 1) =
               CountAt(OpenLots, s)
                 + IF Counts(OpenLots, Tests[OpenLots][s], result) THEN 1 ELSE 0
      BY <3>1, OpenLotsKeeps
    <3> QED
      BY <1>2, <1>5, <1>7, <1>8, <2>2, <3>2
  <2> QED
    BY <2>1, <2>2
<1>10. SyserrAt'
  <2>0. pc' # "ask"
    BY <1>1, <1>4 DEF SyserrAt
  <2>1. step' \in 1 .. Len(Tests[t]) + 1
    <3>1. s \in 1 .. n
      BY <1>6
    <3>2. s + 1 \in 1 .. n + 1
      BY <3>1
    <3> QED
      BY <1>1, <1>7, <1>6, <3>2
  <2> QED
    BY <1>1, <1>4, <1>5, <1>7, <1>9, <2>0, <2>1 DEF SyserrAt
<1>11. Locals'
  <2>1. step' \in Nat /\ count' \in Nat
    BY <1>1, <1>2 DEF PInv, Locals
  <2> QED
    BY <1>1, <2>1 DEF PInv, Locals, cat, grep
<1>12. Progress'
  BY <1>1, <1>10 DEF Progress
<1> QED
  BY <1>3, <1>11, <1>12 DEF PInv

LEMMA SyserrVerdictKeeps ==
    ASSUME PInv, SyserrVerdict
    PROVE  PInv'
<1>1. /\ client = "syserr" /\ tests # <<>> /\ step > Len(Tests[tests[1]])
      /\ failed' = (IF Passed(tests[1]) THEN failed ELSE failed \cup {tests[1]})
      /\ tests' = Tail(tests) /\ step' = 1 /\ count' = 0
      /\ pc' = IF Len(tests) = 1 THEN "end" ELSE pc
      /\ UNCHANGED <<vars, client, fd, cat, grep>>
  BY DEF SyserrVerdict
<1>2. SyserrAt
  BY <1>1 DEF PInv, Progress
<1>3. PICK t \in 1 .. 8 : t = tests[1]
  BY <1>1, <1>2, ElementOfSeq DEF SyserrAt
<1>4. step = Len(Tests[t]) + 1
  <2>1. PICK n \in Nat : n = Len(Tests[t])
    BY TestsAre
  <2>2. step \in 1 .. n + 1 /\ step > n
    BY <1>1, <1>2, <1>3, <2>1 DEF SyserrAt
  <2>3. step = n + 1
    BY <2>2
  <2> QED
    BY <2>1, <2>3
<1>5. OpenFds = {} /\ count = IF t = OpenLots THEN 1 ELSE 0
  BY <1>1, <1>2, <1>3, <1>4, OpenAtEnds DEF SyserrAt
<1>6. failed' = {}
  <2>1. Passed(t)
    BY <1>5 DEF Passed
  <2> QED
    BY <1>1, <1>3, <2>1 DEF PInv, Locals
<1>7. OpenFds' = {}
  BY <1>1, <1>5 DEF OpenFds, Mine, vars
<1>8. SyserrAt'
  <2>0. pc' # "ask"
    BY <1>1, <1>2 DEF SyserrAt
  <2>1. tests' \in Seq(1 .. 8)
    BY <1>1, <1>2, HeadTailProperties DEF SyserrAt
  <2>2. ASSUME tests' # <<>>
        PROVE  /\ step' \in 1 .. Len(Tests[tests'[1]]) + 1
               /\ OpenFds' = OpenAt(tests'[1], step')
               /\ count' = CountAt(tests'[1], step')
    <3>1. PICK u \in 1 .. 8 : u = tests'[1]
      BY <2>1, <2>2, ElementOfSeq
    <3>2. PICK n \in Nat : n = Len(Tests[u])
      BY TestsAre
    <3>3. 1 \in 1 .. n + 1
      BY <3>2
    <3>4. OpenAt(u, 1) = {} /\ CountAt(u, 1) = 0
      BY OpenAtEnds
    <3> QED
      BY <1>1, <1>7, <3>1, <3>2, <3>3, <3>4
  <2> QED
    BY <2>0, <2>1, <2>2 DEF SyserrAt
<1>9. IInv' /\ Running'
  <2>1. AnyStep /\ UNCHANGED <<current_pid, client>>
    BY <1>1 DEF AnyStep, vars
  <2> QED
    BY <2>1, CallKeeps
<1>10. Locals'
  BY <1>1, <1>6 DEF PInv, Locals, cat, grep
<1>11. Progress'
  BY <1>1, <1>8 DEF Progress
<1> QED
  BY <1>9, <1>10, <1>11 DEF PInv

-----------------------------------------------------------------------------
(* ls                                                                      *)

LEMMA LsOpenKeeps ==
    ASSUME PInv, LsOpen
    PROVE  PInv'
<1>1. /\ client = "ls" /\ pc = "open" /\ client' = client
      /\ UNCHANGED <<syserr, cat, grep>>
  BY DEF LsOpen, At
<1>2. PICK result \in Fds \cup {-1} :
         /\ CallOpen(DotName, result) /\ fd' = result
         /\ pc' = IF result = -1 THEN "end" ELSE "read"
  BY DEF LsOpen, MainOpens
<1>3. AnyStep /\ UNCHANGED current_pid
  BY <1>2, CallsAreSteps
<1>4. IInv' /\ Running'
  BY <1>1, <1>3, CallKeeps
<1>5. LsAt /\ OpenFds = {} /\ listed = <<>>
  BY <1>1 DEF PInv, Progress, LsAt
<1>6. result # -1
  <2>1. 1 \in 1 .. MAX_FILE_DESCRIPTOR - 1 /\ 2 .. 1 = {} /\ 1 < MAX_FILE_DESCRIPTOR - 1
    OBVIOUS
  <2> QED
    BY <1>2, <1>5, <2>1, OpenDot DEF PInv
<1>7. /\ result \in Fds /\ Up' /\ dir_index' = 0
      /\ Mine'[result].flags = 1 /\ Mine'[result].optable_ptr = "dir"
  BY <1>2, <1>6, OpensDot DEF PInv
<1>8. LsAt'
  <2>1. pc' = "read" /\ listed' = <<>>
    BY <1>1, <1>2, <1>5, <1>6 DEF cat
  <2>2. InUse(fd, "dir")'
    BY <1>2, <1>7 DEF InUse
  <2>3. Len(listed') = 0 /\ listed' \in Seq(Seq(STRING))
    BY <2>1, EmptySeq
  <2> QED
    BY <1>7, <2>1, <2>2, <2>3 DEF LsAt
<1>9. Locals'
  BY <1>1, <1>2 DEF PInv, Locals, syserr, cat, grep
<1>10. Progress'
  BY <1>1, <1>8 DEF Progress
<1> QED
  BY <1>4, <1>9, <1>10 DEF PInv

LEMMA LsReadKeeps ==
    ASSUME PInv, LsRead
    PROVE  PInv'
<1>1. /\ client = "ls" /\ pc = "read" /\ client' = client
      /\ UNCHANGED <<fd, syserr, copied, grep>>
  BY DEF LsRead, At
<1>2. PICK result \in -1 .. SBUFSIZE - 1 :
         /\ CallRead(fd, SBUFSIZE - 1, result)
         /\ pc' = IF result \in {0, -1} THEN "end" ELSE "read"
         /\ listed' = IF result \in {0, -1} THEN listed
                      ELSE Append(listed, Directory[dir_index + 1].filename)
  BY DEF LsRead
<1>3. SBUFSIZE - 1 \in Nat
  BY ProgramsAssumption
<1>4. AnyStep /\ UNCHANGED current_pid
  BY <1>2, <1>3, CallsAreSteps
<1>5. IInv' /\ Running'
  BY <1>1, <1>4, CallKeeps
<1>6. /\ LsAt /\ InUse(fd, "dir") /\ Len(listed) = dir_index
      /\ listed \in Seq(Seq(STRING))
      /\ \A k \in 1 .. Len(listed) : listed[k] = Directory[k].filename
  BY <1>1 DEF PInv, Progress, LsAt
<1>7. /\ UNCHANGED <<current_pid, file_array>>
      /\ \/ /\ dir_index + 1 \in 1 .. dir_count /\ dir_index' = dir_index + 1
            /\ result \notin {0, -1}
         \/ dir_index = dir_count /\ dir_index' = dir_index /\ result = 0
  BY <1>2, <1>3, <1>6, DirRead DEF PInv
<1>8. InUse(fd, "dir")'
  BY <1>1, <1>6, <1>7 DEF InUse, Up, Mine
<1>9. LsAt'
  <2>1. CASE result = 0
    BY <1>2, <1>6, <1>7, <2>1 DEF LsAt
  <2>2. CASE result # 0
    <3>1. /\ dir_index + 1 \in 1 .. dir_count /\ dir_index' = dir_index + 1
          /\ pc' = "read" /\ listed' = Append(listed, Directory[dir_index + 1].filename)
      BY <1>2, <1>7, <2>2
    <3>2. PICK n \in Nat : n = dir_index
      BY <1>6, LenProperties
    <3>3. PICK name \in Seq(STRING) : name = Directory[n + 1].filename
      BY <3>1, <3>2, Entries
    <3>4. /\ listed' \in Seq(Seq(STRING)) /\ Len(listed') = n + 1
          /\ \A k \in 1 .. n : listed'[k] = listed[k]
          /\ listed'[n + 1] = name
      BY <1>6, <3>1, <3>2, <3>3, AppendProperties
    <3>5. \A k \in 1 .. n + 1 : k \in 1 .. n \/ k = n + 1
      BY <3>2
    <3> QED
      BY <1>6, <1>8, <3>1, <3>2, <3>3, <3>4, <3>5 DEF LsAt
  <2> QED
    BY <2>1, <2>2
<1>10. Locals'
  BY <1>1, <1>2 DEF PInv, Locals, syserr, cat, grep
<1>11. Progress'
  BY <1>1, <1>9 DEF Progress
<1> QED
  BY <1>5, <1>10, <1>11 DEF PInv

-----------------------------------------------------------------------------
(* cat                                                                     *)

LEMMA CatOpenKeeps ==
    ASSUME PInv, CatOpen
    PROVE  PInv'
<1>1. /\ client = "cat" /\ pc = "open" /\ client' = client
      /\ UNCHANGED <<syserr, cat, grep>>
  BY DEF CatOpen, At
<1>2. PICK filename \in Names, result \in Fds \cup {-1} :
         /\ CallOpen(filename, result) /\ fd' = result
         /\ pc' = IF result = -1 THEN "end" ELSE "read"
  BY DEF CatOpen, MainOpens
<1>3. AnyStep /\ UNCHANGED current_pid
  BY <1>2, CallsAreSteps
<1>4. IInv' /\ Running'
  BY <1>1, <1>3, CallKeeps
<1>5. copied = 0 /\ copied' = 0
  BY <1>1 DEF PInv, Progress, CatAt, cat
<1>6. pc' # "open" /\ (pc' = "end" => fd' = -1)
  BY <1>2
<1>7. fd' = -1 => ~InUse(fd, "regular")'
  BY DEF InUse, Fds
<1>8. InUse(fd, "regular")' => Mine'[fd'].file_position = 0
  <2>1. CASE result = -1
    BY <1>2, <1>7, <2>1
  <2>2. CASE result # -1 /\ IsDevice(filename)
    <3>1. ~OpenFile(filename) /\ ~OpenDir(filename)
      BY <2>2 DEF OpenFile, OpenDir, OpenEntry
    <3>2. OpenStandard(filename) /\ result \in {0, 1} /\ Up
      BY <1>2, <2>2, <3>1 DEF CallOpen, Refused
    <3>3. UNCHANGED vars
      BY <3>2, StandardIsOpen DEF PInv
    <3>4. ~InUse(result, "regular")
      BY <3>2, StandardInUse DEF PInv
    <3> QED
      BY <1>2, <3>3, <3>4 DEF InUse, Up, Mine, vars
  <2>3. CASE result # -1 /\ ~IsDevice(filename)
    <3>1. PICK i \in 1 .. dir_count, d \in Descriptor : Opening(filename, result, i, d)
      BY <1>2, <2>3, Opens DEF PInv
    <3> QED
      BY <1>2, <3>1 DEF Opening
  <2> QED
    BY <2>1, <2>2, <2>3
<1>9. CatAt'
  BY <1>5, <1>6, <1>7, <1>8 DEF CatAt
<1>10. Locals'
  BY <1>1, <1>2 DEF PInv, Locals, syserr, cat, grep
<1>11. Progress'
  BY <1>1, <1>9 DEF Progress
<1> QED
  BY <1>4, <1>10, <1>11 DEF PInv

LEMMA CatReadKeeps ==
    ASSUME PInv, CatRead
    PROVE  PInv'
<1>1. /\ client = "cat" /\ pc = "read" /\ client' = client
      /\ UNCHANGED <<fd, syserr, listed, grep>>
  BY DEF CatRead, At
<1>2. PICK result \in -1 .. CatBuffer + FILENAME_LEN :
         /\ CallRead(fd, CatBuffer, result)
         /\ pc' = (CASE result = -1 -> "failed"
                     [] result = 0 -> "end"
                     [] OTHER -> "read")
         /\ copied' = IF result = -1 \/ ~InUse(fd, "regular") THEN copied
                      ELSE IF Mine[fd].file_position = copied THEN copied + result
                      ELSE Wrong
  BY DEF CatRead
<1>3. CatBuffer \in Nat /\ CatBuffer # 0
  BY ProgramsAssumption
<1>4. AnyStep /\ UNCHANGED current_pid
  BY <1>2, <1>3, CallsAreSteps
<1>5. IInv' /\ Running'
  BY <1>1, <1>4, CallKeeps
<1>6. CatAt /\ copied \in Nat
      /\ (InUse(fd, "regular") => copied = Mine[fd].file_position)
  BY <1>1 DEF PInv, Progress, CatAt
<1>7. /\ pc' \in {"failed", "end", "read"}
      /\ result = -1 => pc' = "failed"
      /\ pc' = "end" => result = 0
  BY <1>2
<1>8. CatAt'
  <2>1. CASE ~InUse(fd, "regular")
    <3>1. UNCHANGED <<current_pid, file_array>>
      BY <1>2, <2>1, OtherRead
    <3>2. ~InUse(fd, "regular")'
      BY <1>1, <2>1, <3>1 DEF InUse, Up, Mine
    <3> QED
      BY <1>2, <1>6, <1>7, <2>1, <3>2 DEF CatAt
  <2>2. CASE InUse(fd, "regular") /\ result = -1
    BY <1>2, <1>6, <1>7, <2>2 DEF CatAt
  <2>3. CASE InUse(fd, "regular") /\ result # -1
    <3>1. /\ Mine[fd] \in Descriptor
          /\ result \in 0 .. CatBuffer
          /\ result = 0 =>
               CatBuffer = 0 \/ Mine[fd].file_position = length_of_file[Mine[fd].inode]
          /\ Mine'[fd] = [Mine[fd] EXCEPT !.file_position = @ + result]
      <4>1. Mine[fd] \in Descriptor /\ Moves(fd, CatBuffer, result)
        BY <1>2, <1>3, <2>3, RegularRead DEF PInv
      <4> QED
        BY <4>1 DEF Moves
    <3>2. /\ Mine'[fd'].file_position = Mine[fd].file_position + result
          /\ Mine'[fd'].inode = Mine[fd].inode /\ result \in Nat
      BY <1>1, <1>3, <3>1 DEF Descriptor
    <3>3. copied' = copied + result /\ copied = Mine[fd].file_position
      BY <1>2, <1>6, <2>3
    <3>4. copied' \in Nat /\ copied' = Mine'[fd'].file_position
      BY <1>6, <3>2, <3>3
    <3>5. pc' = "end" => copied' = length_of_file[Mine'[fd'].inode]
      BY <1>3, <1>6, <1>7, <3>1, <3>2, <3>3
    <3> QED
      BY <1>7, <3>4, <3>5 DEF CatAt
  <2> QED
    BY <2>1, <2>2, <2>3
<1>9. Locals'
  <2>1. copied' \in Nat
    BY <1>8 DEF CatAt
  <2> QED
    BY <1>1, <1>7, <2>1 DEF PInv, Locals, syserr, cat, grep
<1>10. Progress'
  BY <1>1, <1>8 DEF Progress
<1> QED
  BY <1>5, <1>9, <1>10 DEF PInv

-----------------------------------------------------------------------------
(* grep                                                                    *)

LEMMA GrepOpenKeeps ==
    ASSUME PInv, GrepOpen
    PROVE  PInv'
<1>1. /\ client = "grep" /\ pc = "open" /\ client' = client
      /\ UNCHANGED <<syserr, cat, grep>>
  BY DEF GrepOpen, At
<1>2. PICK result \in Fds \cup {-1} :
         /\ CallOpen(DotName, result) /\ fd' = result
         /\ pc' = IF result = -1 THEN "end" ELSE "read"
  BY DEF GrepOpen, MainOpens
<1>3. AnyStep /\ UNCHANGED current_pid
  BY <1>2, CallsAreSteps
<1>4. IInv' /\ Running'
  BY <1>1, <1>3, CallKeeps
<1>5. pc' = "read" => InUse(fd, "dir")'
  <2>1. result # -1 => /\ result \in Fds /\ Up'
                       /\ Mine'[result].flags = 1 /\ Mine'[result].optable_ptr = "dir"
    BY <1>2, OpensDot DEF PInv
  <2> QED
    BY <1>2, <2>1 DEF InUse
<1>6. GrepAt'
  BY <1>2, <1>5 DEF GrepAt
<1>7. Locals'
  BY <1>1, <1>2 DEF PInv, Locals, syserr, cat, grep
<1>8. Progress'
  BY <1>1, <1>6 DEF Progress
<1> QED
  BY <1>4, <1>7, <1>8 DEF PInv

LEMMA GrepReadKeeps ==
    ASSUME PInv, GrepRead
    PROVE  PInv'
<1> DEFINE name == Directory[dir_index + 1].filename
<1>1. /\ client = "grep" /\ pc = "read" /\ client' = client
      /\ UNCHANGED <<fd, syserr, copied, grep>>
  BY DEF GrepRead, At
<1>2. PICK result \in -1 .. SBUFSIZE - 1 :
         /\ CallRead(fd, SBUFSIZE - 1, result)
         /\ IF result \in {0, -1} THEN pc' = "end" /\ UNCHANGED listed
            ELSE /\ pc' = IF Head(name) = "." THEN "read" ELSE "do_one_file"
                 /\ listed' = <<name>>
  BY DEF GrepRead
<1> HIDE DEF name
<1>3. SBUFSIZE - 1 \in Nat
  BY ProgramsAssumption
<1>4. AnyStep /\ UNCHANGED current_pid
  BY <1>2, <1>3, CallsAreSteps
<1>5. IInv' /\ Running'
  BY <1>1, <1>4, CallKeeps
<1>6. InUse(fd, "dir")
  BY <1>1 DEF PInv, Progress, GrepAt
<1>7. /\ UNCHANGED <<current_pid, file_array>>
      /\ dir_index + 1 \in 1 .. dir_count \/ result \in {0, -1}
  BY <1>2, <1>3, <1>6, DirRead DEF PInv
<1>8. InUse(fd, "dir")'
  BY <1>1, <1>6, <1>7 DEF InUse, Up, Mine
<1>9. pc' \in {"end", "read", "do_one_file"}
  BY <1>2
<1>10. pc' = "do_one_file" => \E i \in Shown : listed' = <<Directory[i].filename>>
  <2> SUFFICES ASSUME pc' = "do_one_file"
               PROVE  \E i \in Shown : listed' = <<Directory[i].filename>>
    OBVIOUS
  <2>1. result \notin {0, -1} /\ Head(name) # "." /\ listed' = <<name>>
    BY <1>2
  <2>2. PICK i \in 1 .. dir_count : i = dir_index + 1
    BY <1>7, <2>1
  <2> QED
    BY <2>1, <2>2 DEF Shown, name
<1>11. GrepAt'
  BY <1>8, <1>9, <1>10 DEF GrepAt
<1>12. Locals'
  BY <1>1, <1>9 DEF PInv, Locals, syserr, cat, grep
<1>13. Progress'
  BY <1>1, <1>11 DEF Progress
<1> QED
  BY <1>5, <1>12, <1>13 DEF PInv

\* No directory is shown: what grep opens is the clock or a file.
LEMMA ShownOpens ==
    ASSUME IInv, NEW i \in Shown, NEW result, result # -1,
           CallOpen(Directory[i].filename, result)
    PROVE  /\ result \in Fds \ {0, 1} /\ Mine[result].flags = 0
           /\ Up' /\ Mine'[result].flags = 1 /\ Mine'[result].file_position = 0
           /\ Mine'[result].optable_ptr \in {"rtc", "regular"}
           /\ \A f \in Fds \ {result} : Mine'[f] = Mine[f]
<1> DEFINE name == Directory[i].filename
<1>1. i \in 1 .. dir_count /\ Head(name) # "."
  BY DEF Shown
<1>2. ~IsDevice(name)
  BY <1>1, FileSystemAssumption
<1>3. PICK j \in 1 .. dir_count, d \in Descriptor : Opening(name, result, j, d)
  BY <1>2, Opens
<1>4. name \in Seq(STRING) /\ Directory[j].filename \in Seq(STRING)
  <2>1. \A k \in 1 .. dir_count :
           Directory[k] \in [filename : Seq(STRING), filetype : Nat, inode_num : Nat]
    BY Entries
  <2> QED
    BY <1>1, <2>1
<1> HIDE DEF name
<1>5. Directory[j].filename = name
  BY <1>3, <1>4, SameNameIs DEF Opening, IsEntry
<1>6. name # DotName
  BY <1>1 DEF DotName
<1>7. Directory[j].filetype # 1 /\ Directory[j].filetype \in {0, 1, 2}
  BY <1>3, <1>5, <1>6, FileSystemAssumption DEF Opening
<1>8. Up /\ Mine[result] \in Descriptor
  <2>1. Up /\ Mine \in Arrays
    BY MineTyped DEF IInv, CallOpen
  <2> QED
    BY <1>3, <2>1 DEF Opening, Arrays
<1>9. d.optable_ptr \in {"rtc", "regular"}
  <2>1. Opened(Mine[result], Directory[j]).optable_ptr =
          IF Directory[j].filetype = 0 THEN "rtc"
          ELSE IF Directory[j].filetype = 1 THEN "dir" ELSE "regular"
    BY <1>7, <1>8, OpenedIs, Zenon
  <2> QED
    BY <1>3, <1>7, <2>1 DEF Opening
<1> QED
  BY <1>3, <1>9 DEF Opening

LEMMA FileOpensKeeps ==
    ASSUME PInv, FileOpens
    PROVE  PInv'
<1>1. /\ client = "grep" /\ pc = "do_one_file" /\ client' = client
      /\ last' = 0 /\ UNCHANGED <<fd, syserr, cat, data, blank>>
  BY DEF FileOpens, At
<1>2. PICK result \in Fds \cup {-1} :
         /\ CallOpen(listed[1], result)
         /\ pc' = (IF result = -1 THEN "end" ELSE "search")
         /\ file' = result
         /\ IF result = -1 THEN UNCHANGED text
            ELSE text' \in TextsOf(file_array'[current_pid][result])
  BY DEF FileOpens
<1>3. AnyStep /\ UNCHANGED current_pid
  BY <1>2, CallsAreSteps
<1>4. IInv' /\ Running'
  BY <1>1, <1>3, CallKeeps
<1>5. /\ InUse(fd, "dir")
      /\ \E i \in Shown : listed = <<Directory[i].filename>>
  BY <1>1 DEF PInv, Progress, GrepAt
<1>6. PICK i \in Shown : listed[1] = Directory[i].filename
  BY <1>5
<1>7. GrepAt'
  <2>1. CASE result = -1
    BY <1>2, <2>1 DEF GrepAt
  <2>2. CASE result # -1
    <3>1. /\ result \in Fds /\ Mine[result].flags = 0
          /\ Up' /\ Mine'[result].flags = 1
          /\ Mine'[result].optable_ptr \in {"rtc", "regular"}
          /\ \A f \in Fds \ {result} : Mine'[f] = Mine[f]
      BY <1>2, <1>6, <2>2, ShownOpens DEF PInv
    <3>2. fd # result /\ InUse(fd, "dir")'
      BY <1>1, <1>5, <3>1 DEF InUse
    <3>3. InUse(file, "rtc")' \/ InUse(file, "regular")'
      BY <1>2, <3>1 DEF InUse
    <3>4. (text \in TextsOf(Mine[file]))'
      BY <1>2, <1>3, <2>2 DEF Mine, TextsOf
    <3> QED
      BY <1>1, <1>2, <2>2, <3>2, <3>3, <3>4 DEF GrepAt
  <2> QED
    BY <2>1, <2>2
<1>8. Locals'
  <2>1. last' \in 0 .. BUFSIZE /\ last' < BUFSIZE
    BY <1>1, ProgramsAssumption
  <2> QED
    BY <1>1, <1>2, <2>1 DEF PInv, Locals, syserr, cat
<1>9. Progress'
  BY <1>1, <1>7 DEF Progress
<1> QED
  BY <1>4, <1>8, <1>9 DEF PInv

AreText(s, pos, cnt) == \A k \in 1 .. cnt : s[pos + k] \in TextChars

\* What a read of a file adds to the buffer are characters of its text.
LEMMA FileGives ==
    ASSUME IInv, NEW f, InUse(f, "rtc") \/ InUse(f, "regular"),
           NEW s \in TextsOf(Mine[f]), NEW n \in Nat, NEW cnt, CallRead(f, n, cnt)
    PROVE  /\ Up' /\ Mine'[f].flags # 0
           /\ Mine'[f].optable_ptr = Mine[f].optable_ptr
           /\ Mine'[f].inode = Mine[f].inode
           /\ \A g \in Fds \ {f} : Mine'[g] = Mine[g]
           /\ Mine[f].file_position \in Nat
           /\ \/ cnt = -1
              \/ /\ cnt \in 0 .. n
                 /\ AreText(s, Mine[f].file_position, cnt)
<1>1. f \in Fds /\ Up /\ Mine[f].flags # 0
  BY DEF InUse
<1>2. Mine[f] \in Descriptor
  <2>1. Mine \in Arrays
    BY <1>1, MineTyped DEF IInv
  <2> QED
    BY <1>1, <2>1 DEF Arrays
<1>3. CASE InUse(f, "rtc")
  <2>1. ~InUse(f, "regular") /\ ~InUse(f, "dir") /\ ~Terminal(f) /\ ~Unusable(f)
    BY <1>3 DEF InUse, Unusable, Terminal
  <2>2. UNCHANGED <<current_pid, file_array>>
    BY <2>1, OtherRead
  <2>3. Mine' = Mine /\ Up'
    BY <1>1, <2>2 DEF Mine, Up
  <2>4. cnt = 0
    BY <2>1 DEF CallRead, FileRead, DirReadName, DirReadEnd, ReadTerminal
  <2>5. 1 .. cnt = {} /\ cnt \in 0 .. n
    BY <2>4
  <2> QED
    BY <1>1, <1>2, <2>3, <2>5 DEF Descriptor, AreText
<1>4. CASE InUse(f, "regular")
  <2>1. /\ Mine[f].inode \in Inodes
        /\ (cnt = -1 /\ UNCHANGED vars) \/ Moves(f, n, cnt)
    BY <1>4, RegularRead
  <2>2. CASE cnt = -1 /\ UNCHANGED vars
    <3>1. Mine' = Mine /\ Up'
      BY <1>1, <2>2 DEF Mine, Up, vars
    <3> QED
      BY <1>1, <1>2, <2>2, <3>1 DEF Descriptor
  <2>3. CASE ~(cnt = -1 /\ UNCHANGED vars)
    <3>1. PICK pos \in Nat : pos = Mine[f].file_position
      BY <1>2 DEF Descriptor
    <3>2. PICK size \in Nat : size = length_of_file[Mine[f].inode]
      BY <2>1
    <3>3. cnt \in 0 .. n /\ pos + cnt <= size
      BY <2>1, <2>3, <3>1, <3>2 DEF Moves
    <3>4. s \in [1 .. size -> TextChars]
      BY <1>4, <3>2 DEF TextsOf, InUse
    <3>5. ASSUME NEW k \in 1 .. cnt PROVE s[pos + k] \in TextChars
      <4>1. pos + k \in 1 .. size
        BY <3>3
      <4> QED
        BY <3>4, <4>1
    <3>6. /\ Mine'[f].flags # 0 /\ Mine'[f].optable_ptr = Mine[f].optable_ptr
          /\ Mine'[f].inode = Mine[f].inode
      BY <1>1, <1>2, <2>1, <2>3 DEF Descriptor, Moves
    <3> QED
      BY <2>1, <2>3, <3>1, <3>3, <3>5, <3>6 DEF Moves, AreText
  <2> QED
    BY <2>2, <2>3
<1> QED
  BY <1>3, <1>4

Buffers == [DataCells -> TextChars \cup {NUL}]

\* What is read into the buffer, and what is moved in it, are characters.
LEMMA FilledTyped ==
    ASSUME NEW d \in Buffers, NEW s, NEW from \in Nat, NEW cnt \in Nat,
           NEW pos \in Nat, AreText(s, pos, cnt)
    PROVE  Filled(d, s, from, cnt, pos) \in Buffers
<1>1. ASSUME NEW c \in DataCells, c \in from .. from + cnt - 1
      PROVE  s[pos + 1 + c - from] \in TextChars
  <2>1. c \in Int /\ c >= from /\ c <= from + cnt - 1
    BY <1>1
  <2>2. 1 + c - from \in 1 .. cnt /\ pos + (1 + c - from) = pos + 1 + c - from
    BY <2>1
  <2>3. s[pos + (1 + c - from)] \in TextChars
    BY <2>2 DEF AreText
  <2> QED
    BY <2>2, <2>3
<1> QED
  BY <1>1 DEF Filled, Buffers

LEMMA MovedTyped ==
    ASSUME NEW d \in Buffers, NEW ends, NEW filled \in 0 .. BUFSIZE,
           NEW part \in 0 .. filled
    PROVE  Moved(Ended(d, ends), part, filled) \in Buffers
<1>1. Ended(d, ends) \in Buffers
  BY DEF Ended, Buffers
<1>2. \A c \in UptoNul(Ended(d, ends), part, filled) : part + c \in DataCells
  BY ProgramsAssumption DEF DataCells, UptoNul
<1> QED
  BY <1>1, <1>2 DEF Moved, Buffers

LEMMA FileReadsKeeps ==
    ASSUME PInv, FileReads
    PROVE  PInv'
<1>1. /\ client = "grep" /\ pc = "search" /\ client' = client
      /\ UNCHANGED <<fd, syserr, cat, file, text, blank>>
  BY DEF FileReads, At
<1>2. PICK cnt \in -1 .. BUFSIZE :
         /\ CallRead(file, BUFSIZE - last, cnt)
         /\ pc' = (CASE cnt = -1 -> "end" [] cnt = 0 -> "close" [] OTHER -> "search")
         /\ IF cnt = -1 THEN UNCHANGED <<data, last, printed>>
            ELSE LET filled == last + cnt
                     read == Filled(data, text, last, cnt, Mine[file].file_position)
                     result == Search(read, filled, cnt)
                 IN  /\ data' = Moved(Ended(read, result.ends), result.part, filled)
                     /\ last' = filled - result.part
                     /\ printed' = printed \o result.lines
  BY Zenon DEF FileReads
<1> DEFINE read == Filled(data, text, last, cnt, Mine[file].file_position)
           result == Search(read, last + cnt, cnt)
<1>3. /\ CallRead(file, BUFSIZE - last, cnt)
      /\ pc' \in {"end", "close", "search"}
      /\ cnt = -1 => UNCHANGED <<data, last>>
      /\ cnt # -1 =>
           /\ data' = Moved(Ended(read, result.ends), result.part, last + cnt)
           /\ last' = (last + cnt) - result.part
  <2>1. pc' \in {"end", "close", "search"}
    BY <1>2
  <2>2. cnt = -1 => UNCHANGED <<data, last>>
    BY <1>2
  <2>3. cnt # -1 =>
           /\ data' = Moved(Ended(read, result.ends), result.part, last + cnt)
           /\ last' = (last + cnt) - result.part
    BY <1>2
  <2> QED
    BY <1>2, <2>1, <2>2, <2>3
<1> HIDE DEF result
<1>4. last \in 0 .. BUFSIZE /\ BUFSIZE \in Nat \ {0} /\ data \in Buffers
  BY ProgramsAssumption DEF PInv, Locals, Buffers
<1>5. BUFSIZE - last \in Nat /\ last \in Nat
  BY <1>4
<1>6. AnyStep /\ UNCHANGED current_pid
  BY <1>3, <1>5, CallsAreSteps
<1>7. IInv' /\ Running'
  BY <1>1, <1>6, CallKeeps
<1>8. /\ InUse(fd, "dir") /\ file # fd
      /\ InUse(file, "rtc") \/ InUse(file, "regular")
      /\ text \in TextsOf(Mine[file])
  BY <1>1 DEF PInv, Progress, GrepAt
<1>9. /\ Up' /\ Mine'[file].flags # 0
      /\ Mine'[file].optable_ptr = Mine[file].optable_ptr
      /\ Mine'[file].inode = Mine[file].inode
      /\ \A g \in Fds \ {file} : Mine'[g] = Mine[g]
      /\ Mine[file].file_position \in Nat
      /\ \/ cnt = -1
         \/ /\ cnt \in 0 .. BUFSIZE - last
            /\ AreText(text, Mine[file].file_position, cnt)
  BY <1>3, <1>5, <1>8, FileGives DEF PInv
<1>10. pc' \in {"end", "close", "search"}
  BY <1>3
<1>11. GrepAt'
  <2>1. InUse(fd, "dir")'
    BY <1>1, <1>8, <1>9 DEF InUse
  <2>2. InUse(file, "rtc")' \/ InUse(file, "regular")'
    BY <1>1, <1>8, <1>9 DEF InUse
  <2>3. (text \in TextsOf(Mine[file]))'
    BY <1>1, <1>8, <1>9 DEF TextsOf
  <2> QED
    BY <1>1, <1>8, <1>10, <2>1, <2>2, <2>3 DEF GrepAt
<1>12. /\ data' \in Buffers
       /\ (last' \in 0 .. BUFSIZE /\ last' < BUFSIZE) \/ (cnt = -1 /\ last' = last)
  <2>1. CASE cnt = -1
    BY <1>3, <1>4, <2>1
  <2>2. CASE cnt # -1
    <3>1. cnt \in Nat /\ last + cnt \in 0 .. BUFSIZE /\ last + cnt \in Nat
      BY <1>4, <1>9, <2>2
    <3>2. read \in Buffers
      BY <1>4, <1>5, <1>9, <2>2, <3>1, FilledTyped
    <3>3. /\ data' = Moved(Ended(read, result.ends), result.part, last + cnt)
          /\ last' = (last + cnt) - result.part
      BY <1>3, <2>2
    <3> HIDE DEF read
    <3>4. result.part \in 0 .. last + cnt /\ (result.part = 0 => last + cnt = 0)
      BY <3>1, SearchLeaves DEF result
    <3>5. data' \in Buffers
      BY <3>1, <3>2, <3>3, <3>4, MovedTyped
    <3>6. PICK part \in 0 .. last + cnt : part = result.part
      BY <3>4
    <3>7. last' \in 0 .. BUFSIZE /\ last' < BUFSIZE
      BY <1>4, <3>1, <3>3, <3>4, <3>6
    <3> QED
      BY <3>5, <3>7
  <2> QED
    BY <2>1, <2>2
<1>13. Locals'
  <2>1. last' \in 0 .. BUFSIZE /\ last' < BUFSIZE
    BY <1>1, <1>4, <1>12 DEF PInv, Locals
  <2> QED
    BY <1>1, <1>10, <1>12, <2>1 DEF PInv, Locals, syserr, cat, Buffers
<1>14. Progress'
  BY <1>1, <1>11 DEF Progress
<1> QED
  BY <1>7, <1>13, <1>14 DEF PInv

LEMMA FileClosesKeeps ==
    ASSUME PInv, FileCloses
    PROVE  PInv'
<1>1. /\ client = "grep" /\ pc = "close" /\ client' = client
      /\ UNCHANGED <<fd, syserr, cat, file, data, last, blank>>
  BY DEF FileCloses, At
<1>2. PICK result \in {0, -1} :
         /\ CallClose(file, result)
         /\ pc' = IF result = -1 THEN "end" ELSE "read"
  BY DEF FileCloses
<1>3. AnyStep /\ UNCHANGED current_pid
  BY <1>2, CallsAreSteps
<1>4. IInv' /\ Running'
  BY <1>1, <1>3, CallKeeps
<1>5. InUse(fd, "dir") /\ file # fd
  BY <1>1 DEF PInv, Progress, GrepAt
<1>6. result # -1 => InUse(fd, "dir")'
  <2> SUFFICES ASSUME result # -1 PROVE InUse(fd, "dir")'
    OBVIOUS
  <2>1. Close(file)
    BY <1>2 DEF CallClose, Refused
  <2>2. Up /\ file \in Fds \ {0, 1}
    BY <2>1 DEF Close
  <2> DEFINE d == [Mine[file] EXCEPT !.flags = 0, !.optable_ptr = "NULL",
                                     !.file_position = 0]
  <2>3. Becomes(file, d)
    BY <2>1, <2>2, CloseBecomes DEF PInv, IInv
  <2>4. Mine \in Arrays
    BY <2>2, MineTyped DEF PInv, IInv
  <2>5. d \in Descriptor
    BY <2>2, <2>4 DEF Arrays, Descriptor, Ops
  <2> HIDE DEF d
  <2>6. Mine' = [Mine EXCEPT ![file] = d] /\ Up'
    BY <2>2, <2>3, <2>5, OpenFdsAfter DEF PInv
  <2> QED
    BY <1>1, <1>5, <2>4, <2>6 DEF InUse, Arrays
<1>7. GrepAt'
  BY <1>2, <1>6 DEF GrepAt
<1>8. Locals'
  BY <1>1, <1>2 DEF PInv, Locals, syserr, cat
<1>9. Progress'
  BY <1>1, <1>7 DEF Progress
<1> QED
  BY <1>4, <1>8, <1>9 DEF PInv

-----------------------------------------------------------------------------
(* Starting and ending programs                                            *)

LEMMA InitPInv == PInit => PInv
<1> SUFFICES ASSUME PInit PROVE PInv
  OBVIOUS
<1>1. IInv /\ current_pid = -1
  BY InitInv DEF PInit, Init
<1>2. Locals
  BY ProgramsAssumption DEF PInit, Locals, Clients
<1>3. Running /\ Progress
  BY <1>1 DEF PInit, Running, Progress, Clean
<1> QED
  BY <1>1, <1>2, <1>3 DEF PInv

LEMMA BootKeeps ==
    ASSUME PInv, Boot
    PROVE  PInv'
<1>1. /\ current_pid = -1 /\ current_pid' = 0
      /\ UNCHANGED <<client, pc, locals>>
  BY DEF Boot, Execute
<1>2. IInv'
  BY AnyStepKeeps DEF PInv, Boot, AnyStep
<1>3. client = "none"
  BY <1>1 DEF PInv, Running
<1>4. Running'
  BY <1>1, <1>3 DEF Running
<1>5. Locals'
  BY <1>1 DEF PInv, Locals, locals, syserr, cat, grep
<1>6. Progress'
  BY <1>1, <1>3 DEF PInv, Progress, Clean, locals, syserr, cat
<1> QED
  BY <1>2, <1>4, <1>5, <1>6 DEF PInv

\* A program that is started has no more than the two standard descriptors.
LEMMA ExecuteOpens ==
    ASSUME IInv, Execute
    PROVE  OpenFds' = {}
<1> DEFINE p == current_pid + 1
<1>1. /\ p \in Slots /\ file_array \in [Slots -> Arrays] /\ current_pid' = p
      /\ file_array' = [file_array EXCEPT ![p] = Fresh(file_array[p])]
  BY DEF IInv, TypeOK, Execute, Slots, Arrays
<1> HIDE DEF p
<1>2. Mine' = Fresh(file_array[p])
  BY <1>1 DEF Mine
<1>3. \A f \in Fds \ {0, 1} : Fresh(file_array[p])[f].flags = 0
  BY <1>1, FreshUsable
<1> QED
  BY <1>2, <1>3 DEF OpenFds

LEMMA StartKeeps ==
    ASSUME PInv, NEW program \in Clients \ {"none"}, Start(program)
    PROVE  PInv'
<1>1. /\ current_pid = 0 /\ Execute
      /\ client' = program /\ fd' = -1
      /\ pc' = (IF program = "syserr" THEN "ask" ELSE "open")
      /\ UNCHANGED <<syserr, cat, file, text, last, printed>>
  BY DEF Start
<1>2. PICK garbage \in TextChars \cup {NUL} : data' = [c \in DataCells |-> garbage]
  BY DEF Start
<1>3. IInv'
  BY <1>1, AnyStepKeeps DEF PInv, AnyStep
<1>4. current_pid' = 1 /\ OpenFds' = {}
  BY <1>1, ExecuteOpens DEF PInv, Execute
<1>5. Running'
  BY <1>1, <1>4 DEF Running
<1>6. client = "none" /\ Clean
  BY <1>1 DEF PInv, Running, Progress
<1>7. Locals'
  BY <1>1, <1>2 DEF PInv, Locals, syserr, cat
<1>8. SyserrAt'
  <2>1. tests' = <<>> /\ step' = 1 /\ count' = 0
    BY <1>1, <1>6 DEF Clean, syserr
  <2> QED
    BY <1>4, <2>1, EmptySeq DEF SyserrAt
<1>9. program = "ls" => LsAt'
  <2>1. listed' = <<>> /\ Len(listed') = 0 /\ listed' \in Seq(Seq(STRING))
    BY <1>1, <1>6, EmptySeq DEF Clean, cat
  <2> QED
    BY <1>1, <1>4, <2>1 DEF LsAt
<1>10. CatAt'
  BY <1>1, <1>6 DEF CatAt, Clean, cat
<1>11. GrepAt'
  BY <1>1 DEF GrepAt
<1>12. Progress'
  BY <1>1, <1>8, <1>9, <1>10, <1>11 DEF Progress
<1> QED
  BY <1>3, <1>5, <1>7, <1>12 DEF PInv

LEMMA OtherKeeps ==
    ASSUME PInv, Other
    PROVE  PInv'
<1>1. client = "other" /\ UNCHANGED <<client, pc, locals>>
  BY DEF Other
<1>2. AnyStep /\ UNCHANGED current_pid
  <2>1. CASE \E filename \in Names : OpenStandard(filename) \/ OpenFile(filename)
                                     \/ OpenDir(filename)
    BY <2>1 DEF AnyStep, OpenStandard, OpenFile, OpenDir, OpenEntry
  <2>2. CASE \E f \in Fds : Close(f) \/ DirReadName(f)
    BY <2>2 DEF AnyStep, Close, DirReadName
  <2>3. CASE \E f \in Fds, nbytes \in Requests :
               \E result \in {-1} \cup 0 .. nbytes : FileRead(f, nbytes, result)
    <3>1. Requests \subseteq Nat
      OBVIOUS
    <3> QED
      BY <2>3, <3>1 DEF AnyStep, FileRead
  <2> QED
    BY <2>1, <2>2, <2>3 DEF Other
<1>3. IInv' /\ Running'
  BY <1>1, <1>2, CallKeeps
<1>4. Locals'
  BY <1>1 DEF PInv, Locals, locals, syserr, cat, grep
<1>5. Progress'
  BY <1>1 DEF Progress
<1> QED
  BY <1>3, <1>4, <1>5 DEF PInv

LEMMA EndsKeeps ==
    ASSUME PInv, Ends
    PROVE  PInv'
<1>1. client # "none" /\ Halt /\ client' = "none" /\ pc' = "open" /\ NoLocals
      /\ data' = [c \in DataCells |-> NUL]
  BY DEF Ends
<1>2. IInv'
  BY <1>1, AnyStepKeeps DEF PInv, AnyStep
<1>3. current_pid' = 0
  BY <1>1 DEF PInv, Running, Halt
<1>4. Running'
  BY <1>1, <1>3 DEF Running
<1>5. Locals'
  BY <1>1, ProgramsAssumption DEF Locals, NoLocals, Clients
<1>6. Progress'
  BY <1>1 DEF Progress, Clean, NoLocals
<1> QED
  BY <1>2, <1>4, <1>5, <1>6 DEF PInv

-----------------------------------------------------------------------------
(* What holds of the programs                                              *)

LEMMA StepPInv == PInv /\ [PNext]_allvars => PInv'
<1> SUFFICES ASSUME PInv, [PNext]_allvars PROVE PInv'
  OBVIOUS
<1>1. CASE Boot
  BY <1>1, BootKeeps
<1>2. ASSUME NEW p \in Clients \ {"none"}, Start(p) PROVE PInv'
  BY <1>2, StartKeeps
<1>3. CASE Other
  BY <1>3, OtherKeeps
<1>4. CASE Ends
  BY <1>4, EndsKeeps
<1>5. CASE SyserrAsk \/ SyserrCall \/ SyserrVerdict
  BY <1>5, SyserrAskKeeps, SyserrCallKeeps, SyserrVerdictKeeps
<1>6. CASE LsOpen \/ LsRead \/ CatOpen \/ CatRead
  BY <1>6, LsOpenKeeps, LsReadKeeps, CatOpenKeeps, CatReadKeeps
<1>7. CASE GrepOpen \/ GrepRead \/ FileOpens \/ FileReads \/ FileCloses
  BY <1>7, GrepOpenKeeps, GrepReadKeeps, FileOpensKeeps, FileReadsKeeps, FileClosesKeeps
<1>8. CASE UNCHANGED allvars
  <2>1. UNCHANGED <<vars, client, pc, locals>>
    BY <1>8 DEF allvars
  <2>2. IInv' /\ Running'
    BY <2>1, CallKeeps DEF AnyStep, vars
  <2>3. Locals'
    BY <2>1 DEF PInv, Locals, locals, syserr, cat, grep
  <2>4. UNCHANGED <<OpenFds, Mine, dir_index, Up>>
    BY <2>1 DEF vars, OpenFds, Mine, Up
  <2>5. \A f, op : InUse(f, op)' <=> InUse(f, op)
    BY <2>4 DEF InUse
  <2>6. Progress'
    <3>1. Clean => Clean'
      BY <2>1 DEF Clean, locals, syserr, cat
    <3>2. SyserrAt => SyserrAt'
      BY <2>1, <2>4 DEF SyserrAt, locals, syserr
    <3>3. LsAt => LsAt'
      BY <2>1, <2>4, <2>5 DEF LsAt, locals, cat
    <3>4. CatAt => CatAt'
      BY <2>1, <2>4, <2>5 DEF CatAt, locals, cat
    <3>5. GrepAt => GrepAt'
      BY <2>1, <2>4, <2>5 DEF GrepAt, locals, cat, grep
    <3> QED
      BY <2>1, <3>1, <3>2, <3>3, <3>4, <3>5 DEF PInv, Progress
  <2> QED
    BY <2>2, <2>3, <2>6 DEF PInv
<1> QED
  BY <1>1, <1>2, <1>3, <1>4, <1>5, <1>6, <1>7, <1>8 DEF PNext, Client

\* Every step of a program, or of the others, keeps the invariant.
LEMMA PInvariant == PSpec => []PInv
  BY InitPInv, StepPInv, PTL DEF PSpec

(***************************************************************************)
(* The types of what the programs keep: their place, their descriptors,    *)
(* the name and the pieces they were given, and grep's buffer with what    *)
(* waits in it.                                                            *)
(***************************************************************************)
THEOREM ProgramsTyped == PSpec => []PTypeOK
<1>1. PInv => PTypeOK
  BY DEF PInv, IInv, Locals, PTypeOK
<1> QED
  BY <1>1, PInvariant, PTL

(***************************************************************************)
(* No test of syserr fails, whatever programs ran before it and left in    *)
(* its slot, and for any directory, any number of descriptors and any      *)
(* names that only resemble one of the directory.                          *)
(***************************************************************************)
THEOREM SyserrIsPassed == PSpec => []SyserrPasses
<1>1. PInv => SyserrPasses
  BY DEF PInv, Locals, SyserrPasses
<1> QED
  BY <1>1, PInvariant, PTL

(***************************************************************************)
(* What ls has written are the names of the directory in order, at its end *)
(* all of them; what cat has written is the start of its file, at its end  *)
(* all of it unless a read failed; for any directory, any files and any    *)
(* size of the requests, and whatever ran before.                          *)
(***************************************************************************)
THEOREM WrittenAsThere == PSpec => []WritesWhatIsThere
<1>1. PInv => WritesWhatIsThere
  <2> SUFFICES ASSUME PInv PROVE WritesWhatIsThere
    OBVIOUS
  <2>1. CASE client = "ls"
    <3>1. LsAt
      BY <2>1 DEF PInv, Progress
    <3>2. DOMAIN listed = 1 .. Len(listed)
      BY <3>1, LenProperties DEF LsAt
    <3> QED
      BY <2>1, <3>1, <3>2 DEF LsAt, WritesWhatIsThere
  <2>2. CASE client = "cat"
    <3>1. CatAt
      BY <2>2 DEF PInv, Progress
    <3> QED
      BY <2>2, <3>1 DEF CatAt, WritesWhatIsThere, Wrong
  <2>3. CASE client \notin {"ls", "cat"}
    BY <2>3 DEF WritesWhatIsThere
  <2> QED
    BY <2>1, <2>2, <2>3
<1> QED
  BY <1>1, PInvariant, PTL

-----------------------------------------------------------------------------
(* What grep has printed                                                   *)

\* A text of n characters.
LEMMA TextIs ==
    ASSUME NEW T, NEW n \in Nat, NEW s \in [1 .. n -> T]
    PROVE  s \in Seq(T) /\ Len(s) = n
<1>1. s \in Seq(T) /\ DOMAIN s = 1 .. n
  OBVIOUS
<1> QED
  BY <1>1, LenProperties

\* A read that succeeds gives all that was asked for or the rest of the file.
LEMMA ReadEnough ==
    ASSUME IInv, NEW f, InUse(f, "rtc") \/ InUse(f, "regular"),
           NEW s \in TextsOf(Mine[f]), NEW n \in Nat \ {0}, NEW cnt, cnt # -1,
           CallRead(f, n, cnt), Mine[f].file_position <= Len(s)
    PROVE  /\ Mine[f].file_position \in Nat /\ cnt \in 0 .. n
           /\ Mine[f].file_position + cnt <= Len(s)
           /\ cnt = n \/ Mine[f].file_position + cnt = Len(s)
           /\ cnt = 0 => Mine[f].file_position = Len(s)
           /\ Mine'[f].file_position = Mine[f].file_position + cnt
<1>1. f \in Fds /\ Up /\ Mine[f].flags # 0
  BY DEF InUse
<1>2. Mine[f] \in Descriptor
  <2>1. Mine \in Arrays
    BY <1>1, MineTyped DEF IInv
  <2> QED
    BY <1>1, <2>1 DEF Arrays
<1>3. PICK pos \in Nat : pos = Mine[f].file_position
  BY <1>2 DEF Descriptor
<1>4. CASE InUse(f, "rtc")
  <2>1. ~InUse(f, "regular") /\ ~InUse(f, "dir") /\ ~Terminal(f) /\ ~Unusable(f)
    BY <1>4 DEF InUse, Unusable, Terminal
  <2>2. UNCHANGED <<current_pid, file_array>>
    BY <2>1, OtherRead
  <2>3. Mine' = Mine
    BY <2>2 DEF Mine
  <2>4. cnt = 0
    BY <2>1 DEF CallRead, FileRead, DirReadName, DirReadEnd, ReadTerminal
  <2>5. s \in [1 .. 0 -> TextChars]
    BY <1>4 DEF TextsOf, InUse
  <2>6. Len(s) = 0
    <3>1. 0 \in Nat
      OBVIOUS
    <3> QED
      BY <2>5, <3>1, TextIs
  <2> QED
    BY <1>3, <2>3, <2>4, <2>6
<1>5. CASE InUse(f, "regular")
  <2>1. /\ Mine[f].inode \in Inodes
        /\ (cnt = -1 /\ UNCHANGED vars) \/ Moves(f, n, cnt)
    BY <1>5, RegularRead
  <2>2. PICK size \in Nat : size = length_of_file[Mine[f].inode]
    BY <2>1
  <2>3. /\ cnt \in 0 .. n /\ pos + cnt <= size /\ (cnt = 0 => pos = size)
        /\ Mine'[f] = [Mine[f] EXCEPT !.file_position = pos + cnt]
    BY <1>3, <2>1, <2>2 DEF Moves
  <2>4. Len(s) = size
    <3>1. s \in [1 .. size -> TextChars]
      BY <1>5, <2>2 DEF TextsOf, InUse
    <3> QED
      BY <3>1, TextIs
  <2>5. cnt = n \/ pos + cnt = size
    <3>1. ~Unusable(f) /\ ~InUse(f, "rtc") /\ ~InUse(f, "dir") /\ ~Terminal(f)
      BY <1>5 DEF InUse, Unusable, Terminal
    <3>2. FileRead(f, n, cnt)
      BY <3>1 DEF CallRead, DirReadName, DirReadEnd, ReadTerminal
    <3>3. cnt \in ReadData(Mine[f].inode, pos, n)
      BY <1>3, <3>2 DEF FileRead
    <3> QED
      BY <2>2, <2>3, <3>3 DEF ReadData
  <2>6. Mine'[f].file_position = pos + cnt
    BY <1>2, <2>3 DEF Descriptor
  <2> QED
    BY <1>3, <2>3, <2>4, <2>5, <2>6
<1> QED
  BY <1>4, <1>5

\* Of a text without NUL, the buffer holds what is in front of the position, and
\* what was printed belongs to what is in front of that.
Searched ==
    \E base \in Nat :
       /\ Mine[file].file_position = base + last
       /\ base + last <= Len(text)
       /\ NoNul(text) => Keeps(data, text, base, last)
       /\ Short(text) /\ NoNul(text) => Done(text, base, last, printed)

GrepText ==
    client = "grep" /\ blank =>
      /\ NoNewline(data)
      /\ pc = "search" => Searched
      /\ pc = "close" /\ Short(text) /\ NoNul(text) =>
           printed = Matching(text)[Len(text) + 1]

\* A file that is opened is searched from its start.
LEMMA FileOpensText ==
    ASSUME PInv, GrepText, FileOpens
    PROVE  GrepText'
<1>1. /\ client = "grep" /\ pc = "do_one_file" /\ client' = client
      /\ last' = 0 /\ printed' = <<>> /\ UNCHANGED <<data, blank>>
  BY DEF FileOpens, At
<1>2. PICK result \in Fds \cup {-1} :
         /\ CallOpen(listed[1], result)
         /\ pc' = (IF result = -1 THEN "end" ELSE "search")
         /\ file' = result
  BY DEF FileOpens
<1>3. PInv'
  BY FileOpensKeeps
<1>4. blank' => NoNewline(data')
  BY <1>1 DEF GrepText
<1>5. ASSUME result # -1, blank' PROVE Searched'
  <2>1. PICK i \in Shown : listed[1] = Directory[i].filename
    BY <1>1 DEF PInv, Progress, GrepAt
  <2>2. /\ result \in Fds \ {0, 1} /\ Up' /\ Mine'[result].flags = 1
        /\ Mine'[result].file_position = 0
    BY <1>2, <1>5, <2>1, ShownOpens DEF PInv
  <2>3. text' \in TextsOf(Mine'[result])
    BY <1>1, <1>2, <1>3, <1>5 DEF PInv, Progress, GrepAt
  <2>4. Usable(Mine')
    <3>1. current_pid' \in 0 .. current_pid'
      BY <1>3, <2>2 DEF PInv, IInv, TypeOK, Slots, Up
    <3> QED
      BY <1>3, <3>1 DEF PInv, IInv, LiveArraysUsable, Mine
  <2>5. Mine'[result].optable_ptr = "regular" => Mine'[result].inode \in Inodes
    BY <2>2, <2>4 DEF Usable, Sound
  <2>6. text' \in Seq(TextChars) /\ Len(text') \in Nat
    <3>1. PICK n \in Nat : text' \in [1 .. n -> TextChars]
      BY <2>3, <2>5 DEF TextsOf
    <3> QED
      BY <3>1, TextIs
  <2>7. Done(text', 0, 0, printed')
    BY <1>1, <2>6, MatchingIs DEF Done, Boundary
  <2>8. 0 \in Nat /\ 0 + 0 = 0 /\ 0 .. 0 - 1 = {} /\ 0 <= Len(text')
    BY <2>6
  <2>9. Keeps(data', text', 0, 0)
    BY <1>4, <1>5, <2>8 DEF Keeps
  <2> QED
    BY <1>1, <1>2, <2>2, <2>7, <2>8, <2>9 DEF Searched
<1> QED
  BY <1>1, <1>2, <1>4, <1>5 DEF GrepText

\* One turn of the outer loop keeps what has been searched.
LEMMA TurnKeeps ==
    ASSUME PInv, client = "grep", pc = "search", NoNewline(data), Searched,
           NEW cnt \in 0 .. BUFSIZE - last, CallRead(file, BUFSIZE - last, cnt),
           NEW read, read = Filled(data, text, last, cnt, Mine[file].file_position),
           NEW r, r = Search(read, last + cnt, cnt),
           data' = Moved(Ended(read, r.ends), r.part, last + cnt),
           last' = (last + cnt) - r.part, printed' = printed \o r.lines,
           UNCHANGED <<file, text>>
    PROVE  /\ NoNewline(data') /\ Searched'
           /\ cnt = 0 /\ Short(text) /\ NoNul(text) =>
                printed' = Matching(text)[Len(text) + 1]
<1>1. PICK base \in Nat :
         /\ Mine[file].file_position = base + last
         /\ base + last <= Len(text)
         /\ NoNul(text) => Keeps(data, text, base, last)
         /\ Short(text) /\ NoNul(text) => Done(text, base, last, printed)
  BY DEF Searched
<1>2. last \in Nat /\ BUFSIZE \in Nat /\ last < BUFSIZE /\ cnt \in Nat
  BY ProgramsAssumption DEF PInv, Locals
<1>3. BUFSIZE - last \in Nat \ {0} /\ cnt # -1
  BY <1>2
<1>4. /\ InUse(file, "rtc") \/ InUse(file, "regular")
      /\ text \in TextsOf(Mine[file])
  BY DEF PInv, Progress, GrepAt
<1>5. text \in Seq(TextChars) /\ Len(text) \in Nat
  <2>1. Up /\ file \in Fds /\ Mine[file].flags # 0
    BY <1>4 DEF InUse
  <2>2. Usable(Mine)
    BY <2>1, MineUsable DEF PInv
  <2>3. Mine[file].optable_ptr = "regular" => Mine[file].inode \in Inodes
    BY <2>1, <2>2 DEF Usable, Sound, IsStandard
  <2>4. PICK n \in Nat : text \in [1 .. n -> TextChars]
    BY <1>4, <2>3 DEF TextsOf
  <2> QED
    BY <2>4, TextIs
<1>6. /\ base + last + cnt <= Len(text)
      /\ cnt = BUFSIZE - last \/ base + last + cnt = Len(text)
      /\ cnt = 0 => base + last = Len(text)
      /\ Mine'[file].file_position = base + last + cnt
  BY <1>1, <1>3, <1>4, ReadEnough DEF PInv
<1>7. PICK filled \in Nat : filled = last + cnt
  BY <1>2
<1>8. filled <= BUFSIZE /\ base + filled = base + last + cnt /\ base + filled <= Len(text)
  BY <1>2, <1>6, <1>7
<1>9. NoNul(text) => Receives(read, text, base, filled)
  <2> SUFFICES ASSUME NoNul(text) PROVE Receives(read, text, base, filled)
    OBVIOUS
  <2>1. last + cnt <= BUFSIZE
    BY <1>7, <1>8
  <2>2. read = Filled(data, text, last, cnt, base + last)
    BY <1>1
  <2>3. Receives(Filled(data, text, last, cnt, base + last), text, base, last + cnt)
    BY <1>1, <1>2, <1>6, <2>1, ReadHolds
  <2> QED
    BY <1>7, <2>2, <2>3, Zenon
<1>10. Enough(text, base, filled, cnt)
  BY <1>2, <1>6, <1>7, <1>8 DEF Enough
<1>11. r = Search(read, filled, cnt)
  BY <1>7
<1>12. filled \in 0 .. BUFSIZE /\ \A c \in filled .. BUFSIZE : read[c] # NEWLINE
  <2>1. \A c \in last + cnt .. BUFSIZE :
           Filled(data, text, last, cnt, Mine[file].file_position)[c] # NEWLINE
    BY <1>2, ReadClean
  <2> QED
    BY <1>7, <1>8, <2>1
<1>13. Shaped(read, filled, cnt, TextChars \cup {NUL}, 0, r)
  <2> DEFINE s0 == [k \in 1 .. filled |-> read[k - 1]]
  <2>1. read \in Buffers
    <3>1. AreText(text, base + last, cnt)
      <4>1. \A k \in 1 .. cnt : base + last + k \in 1 .. Len(text)
        BY <1>2, <1>5, <1>6
      <4> QED
        BY <1>5, <4>1, ElementOfSeq DEF AreText
    <3>2. data \in Buffers /\ base + last \in Nat
      BY <1>2 DEF PInv, Locals, Buffers
    <3> QED
      BY <1>1, <1>2, <3>1, <3>2, FilledTyped
  <2>2. s0 \in [1 .. filled -> TextChars \cup {NUL}]
    <3>1. \A k \in 1 .. filled : k - 1 \in DataCells
      BY <1>2, <1>7, <1>8 DEF DataCells
    <3> QED
      BY <2>1, <3>1 DEF Buffers
  <2>3. \A c \in 0 .. filled - 1 : read[c] = s0[0 + 1 + c]
    <3>1. \A c \in 0 .. filled - 1 : 0 + 1 + c \in 1 .. filled /\ (0 + 1 + c) - 1 = c
      BY <1>7
    <3> QED
      BY <3>1
  <2> HIDE DEF s0
  <2>4. s0 \in Seq(TextChars \cup {NUL}) /\ Len(s0) = filled
    BY <1>7, <2>2, TextIs
  <2>5. Holds(read, s0, 0, filled)
    <3>1. filled \in filled .. BUFSIZE /\ 0 \in Nat /\ 0 + filled <= filled
      BY <1>7, <1>12
    <3> QED
      BY <1>7, <1>12, <2>3, <2>4, <3>1 DEF Holds
  <2>6. PICK g : IsLoop(read, filled, cnt, g) /\ Search(read, filled, cnt) = g[0]
    BY SearchIs, Zenon
  <2>7. \A x \in 0 .. filled : Shaped(read, filled, cnt, TextChars \cup {NUL}, x, g[x])
    BY <2>4, <2>5, <2>6, EachShaped
  <2>8. 0 \in 0 .. filled
    BY <1>7
  <2> QED
    BY <1>11, <2>6, <2>7, <2>8
<1>14. PICK part \in 0 .. filled : part = r.part
  BY <1>13 DEF Shaped
<1>15. data' = Moved(Ended(read, r.ends), r.part, filled) /\ last' = filled - part
  BY <1>7, <1>14
<1>16. NoNewline(data')
  BY <1>12, <1>13, <1>15, MovedClean
<1>17. NoNul(text) => Keeps(data', text, base + part, filled - part)
  <2> SUFFICES ASSUME NoNul(text)
               PROVE  Keeps(data', text, base + part, filled - part)
    OBVIOUS
  <2>1. Receives(read, text, base, filled) /\ filled <= BUFSIZE
    BY <1>8, <1>9
  <2>2. DOMAIN text = 1 .. Len(text)
    BY <1>5, LenProperties
  <2>3. Keeps(Moved(Ended(read, r.ends), r.part, filled), text, base + r.part,
              filled - r.part)
    BY <1>5, <1>13, <2>1, <2>2, MovedHolds
  <2> QED
    BY <1>14, <1>15, <2>3, Zenon
<1>18. Short(text) /\ NoNul(text) => Done(text, base + part, filled - part, printed')
  <2> SUFFICES ASSUME Short(text), NoNul(text)
               PROVE  Done(text, base + part, filled - part, printed')
    OBVIOUS
  <2>1. Done(text, base, 0, printed)
    BY <1>1 DEF Done
  <2>2. Holds(read, text, base, filled)
    BY <1>9 DEF Receives
  <2>3. Done(text, base + r.part, filled - r.part, printed \o r.lines)
    BY <1>5, <1>8, <1>10, <1>11, <2>1, <2>2, SearchPrints
  <2> QED
    BY <1>14, <2>3
<1>19. Searched'
  <2>1. PICK start \in Nat : start = base + part
    OBVIOUS
  <2>2. start + last' = base + last + cnt
    BY <1>7, <1>8, <1>15, <2>1
  <2>3. Mine'[file'].file_position = start + last' /\ start + last' <= Len(text')
    BY <1>6, <2>2
  <2>4. NoNul(text') => Keeps(data', text', start, last')
    BY <1>15, <1>17, <2>1
  <2>5. Short(text') /\ NoNul(text') => Done(text', start, last', printed')
    BY <1>15, <1>18, <2>1
  <2> QED
    BY <2>3, <2>4, <2>5 DEF Searched
<1>20. ASSUME cnt = 0, Short(text), NoNul(text)
       PROVE  printed' = Matching(text)[Len(text) + 1]
  <2>1. part = filled
    BY <1>13, <1>14, <1>20 DEF Shaped
  <2>2. base + part = Len(text) /\ filled - part = 0
    BY <1>6, <1>8, <1>20, <2>1
  <2>3. Done(text, Len(text), 0, printed')
    BY <1>18, <1>20, <2>2
  <2> QED
    BY <1>5, <2>3, AllPrinted
<1> QED
  BY <1>16, <1>19, <1>20

\* A read that fails ends grep, any other is such a turn.
LEMMA FileReadsText ==
    ASSUME PInv, GrepText, FileReads
    PROVE  GrepText'
<1>1. /\ client = "grep" /\ pc = "search" /\ client' = client
      /\ UNCHANGED <<file, text, blank>>
  BY DEF FileReads, At
<1>2. PICK cnt \in -1 .. BUFSIZE :
         /\ CallRead(file, BUFSIZE - last, cnt)
         /\ pc' = (CASE cnt = -1 -> "end" [] cnt = 0 -> "close" [] OTHER -> "search")
         /\ IF cnt = -1 THEN UNCHANGED <<data, last, printed>>
            ELSE LET filled == last + cnt
                     read == Filled(data, text, last, cnt, Mine[file].file_position)
                     result == Search(read, filled, cnt)
                 IN  /\ data' = Moved(Ended(read, result.ends), result.part, filled)
                     /\ last' = filled - result.part
                     /\ printed' = printed \o result.lines
  BY Zenon DEF FileReads
<1>3. SUFFICES ASSUME blank PROVE GrepText'
  BY <1>1 DEF GrepText
<1>4. NoNewline(data) /\ Searched
  BY <1>1, <1>3 DEF GrepText
<1>5. CASE cnt = -1
  <2>1. pc' = "end" /\ data' = data
    BY <1>2, <1>5
  <2> QED
    BY <1>4, <2>1 DEF GrepText
<1>6. CASE cnt # -1
  <2>1. PICK read : read = Filled(data, text, last, cnt, Mine[file].file_position)
    OBVIOUS
  <2>2. PICK r : r = Search(read, last + cnt, cnt)
    OBVIOUS
  <2>3. /\ data' = Moved(Ended(read, r.ends), r.part, last + cnt)
        /\ last' = (last + cnt) - r.part /\ printed' = printed \o r.lines
    BY <1>2, <1>6, <2>1, <2>2
  <2>4. cnt \in 0 .. BUFSIZE - last
    <3>1. BUFSIZE - last \in Nat
      BY ProgramsAssumption DEF PInv, Locals
    <3>2. /\ InUse(file, "rtc") \/ InUse(file, "regular")
          /\ text \in TextsOf(Mine[file])
      BY <1>1 DEF PInv, Progress, GrepAt
    <3> QED
      BY <1>2, <1>6, <3>1, <3>2, FileGives DEF PInv
  <2>5. /\ NoNewline(data') /\ Searched'
        /\ cnt = 0 /\ Short(text) /\ NoNul(text) =>
             printed' = Matching(text)[Len(text) + 1]
    BY <1>1, <1>2, <1>4, <2>1, <2>2, <2>3, <2>4, TurnKeeps
  <2>6. pc' = "close" => cnt = 0
    BY <1>2, <1>6
  <2> QED
    BY <1>1, <2>5, <2>6 DEF GrepText
<1> QED
  BY <1>5, <1>6

\* No other step touches the buffer while grep runs.
LEMMA StepText == PInv /\ GrepText /\ [PNext]_allvars => GrepText'
<1> SUFFICES ASSUME PInv, GrepText, [PNext]_allvars PROVE GrepText'
  OBVIOUS
<1>1. CASE Boot
  <2>1. client' = "none"
    BY <1>1 DEF PInv, Running, Boot
  <2> QED
    BY <2>1 DEF GrepText
<1>2. ASSUME NEW p \in Clients \ {"none"}, Start(p) PROVE GrepText'
  <2>1. pc' \in {"ask", "open"}
    BY <1>2 DEF Start
  <2>2. PICK garbage : data' = [c \in DataCells |-> garbage] /\ blank' = (garbage # NEWLINE)
    BY <1>2 DEF Start
  <2>3. blank' => NoNewline(data')
    BY <2>2 DEF NoNewline
  <2> QED
    BY <2>1, <2>3 DEF GrepText
<1>3. CASE \/ Other \/ SyserrAsk \/ SyserrCall \/ SyserrVerdict
           \/ LsOpen \/ LsRead \/ CatOpen \/ CatRead
  <2>1. client' # "grep"
    BY <1>3 DEF Other, SyserrAsk, SyserrCall, SyserrVerdict, LsOpen, LsRead, CatOpen,
                CatRead, At
  <2> QED
    BY <2>1 DEF GrepText
<1>4. CASE Ends
  <2>1. client' = "none"
    BY <1>4 DEF Ends
  <2> QED
    BY <2>1 DEF GrepText
<1>5. CASE GrepOpen \/ GrepRead \/ FileCloses
  <2>1. UNCHANGED <<client, data, blank>>
    BY <1>5 DEF GrepOpen, GrepRead, FileCloses, At, grep
  <2>2. pc' \in {"end", "read", "do_one_file"}
    BY <1>5 DEF GrepOpen, GrepRead, FileCloses, MainOpens
  <2> QED
    BY <2>1, <2>2 DEF GrepText
<1>6. CASE FileOpens \/ FileReads
  BY <1>6, FileOpensText, FileReadsText
<1>7. CASE UNCHANGED allvars
  <2>1. UNCHANGED <<client, pc, file, text, data, last, printed, blank, Mine>>
    BY <1>7 DEF allvars, vars, locals, grep, Mine
  <2> QED
    BY <2>1 DEF GrepText, Searched
<1> QED
  BY <1>1, <1>2, <1>3, <1>4, <1>5, <1>6, <1>7 DEF PNext, Client

(***************************************************************************)
(* When grep comes to the end of a file without NUL it has printed exactly *)
(* its lines that contain the pattern, in their order: for any such text,  *)
(* any sizes of the buffer and of the pattern, however the reads cut the   *)
(* text, and whatever the memory under the buffer held but a newline, and  *)
(* whatever files with NUL it searched before.                             *)
(***************************************************************************)
THEOREM MatchesPrinted == PSpec => []GrepPrintsMatches
<1>1. PInit => GrepText
  BY DEF PInit, GrepText
<1>2. GrepText => GrepPrintsMatches
  BY DEF GrepText, GrepPrintsMatches, Short
<1> QED
  BY <1>1, <1>2, InitPInv, StepPInv, StepText, PTL DEF PSpec
=============================================================================
