--------------------------- MODULE ReadDataProofs ---------------------------
(***************************************************************************)
(* read_data is right for every block size, table size, disk, file, offset *)
(* and length.                                                             *)
(***************************************************************************)
EXTENDS ReadData, TLAPS

(***************************************************************************)
(* The loop invariant: i bytes have been copied, all of them inside the    *)
(* file, and the three locals that follow the file stand at byte           *)
(* offset + i of it.                                                       *)
(***************************************************************************)
Copied ==
    \A k \in 0 .. length - 1 :
        buf[k] = IF k < i THEN FileByte(offset + k) ELSE Untouched

InPlace ==
    /\ i <= length /\ i + offset <= length_of_file
    /\ data_id_in_block = (offset + i) % FOUR_KB
    /\ data_block_id = (offset + i) \div FOUR_KB
    /\ read_data_block = data_block_num[data_block_id]

LoopInvariant ==
    result = Running =>
        /\ Copied
        /\ offset < length_of_file => InPlace
        /\ offset >= length_of_file => i = 0

IInv == TypeOK /\ LoopInvariant /\ ReadsTheFile /\ FailsForAReason

USE DiskAssumption

-----------------------------------------------------------------------------
(* Places in blocks                                                        *)

LEMMA Division ==
    ASSUME NEW n \in Nat
    PROVE  /\ n \div FOUR_KB \in Nat
           /\ n % FOUR_KB \in 0 .. FOUR_KB - 1
           /\ n = FOUR_KB * (n \div FOUR_KB) + (n % FOUR_KB)
  BY SMTT(30)

\* A number has one quotient and one remainder.
LEMMA SamePlace ==
    ASSUME NEW q \in Nat, NEW r \in 0 .. FOUR_KB - 1,
           NEW p \in Nat, NEW s \in 0 .. FOUR_KB - 1,
           FOUR_KB * q + r = FOUR_KB * p + s
    PROVE  q = p /\ r = s
<1>1. ASSUME NEW a \in Nat, NEW b \in Nat, a < b
      PROVE  FOUR_KB * b >= FOUR_KB * a + FOUR_KB
  <2>1. b >= a + 1
    BY <1>1
  <2>2. FOUR_KB * b >= FOUR_KB * (a + 1)
    BY <2>1, SMTT(30)
  <2> QED
    BY <2>2, SMTT(30)
<1>2. FOUR_KB * q \in Nat /\ FOUR_KB * p \in Nat
  OBVIOUS
<1>3. ~(q < p)
  BY <1>1, <1>2
<1>4. ~(p < q)
  BY <1>1, <1>2
<1>5. q = p
  BY <1>3, <1>4
<1> QED
  BY <1>2, <1>5

\* The byte behind byte n: in the same block, or at the start of the next.
LEMMA NextByte ==
    ASSUME NEW n \in Nat
    PROVE  /\ (n % FOUR_KB) + 1 < FOUR_KB =>
                /\ (n + 1) % FOUR_KB = (n % FOUR_KB) + 1
                /\ (n + 1) \div FOUR_KB = n \div FOUR_KB
           /\ (n % FOUR_KB) + 1 >= FOUR_KB =>
                /\ (n + 1) % FOUR_KB = 0
                /\ (n + 1) \div FOUR_KB = (n \div FOUR_KB) + 1
<1> DEFINE q == n \div FOUR_KB
           r == n % FOUR_KB
           p == (n + 1) \div FOUR_KB
           s == (n + 1) % FOUR_KB
<1>1. q \in Nat /\ r \in 0 .. FOUR_KB - 1 /\ n = FOUR_KB * q + r
  BY Division
<1>2. p \in Nat /\ s \in 0 .. FOUR_KB - 1 /\ n + 1 = FOUR_KB * p + s
  BY Division
<1>3. FOUR_KB * q \in Nat /\ FOUR_KB * (q + 1) = FOUR_KB * q + FOUR_KB
  BY <1>1, SMTT(30)
<1> HIDE DEF q, r, p, s
<1>4. ASSUME r + 1 < FOUR_KB PROVE s = r + 1 /\ p = q
  <2>1. r + 1 \in 0 .. FOUR_KB - 1
    BY <1>1, <1>4
  <2>2. FOUR_KB * q + (r + 1) = FOUR_KB * p + s
    BY <1>1, <1>2, <1>3
  <2> QED
    BY <1>1, <1>2, <2>1, <2>2, SamePlace
<1>5. ASSUME r + 1 >= FOUR_KB PROVE s = 0 /\ p = q + 1
  <2>1. FOUR_KB * (q + 1) + 0 = FOUR_KB * p + s
    BY <1>1, <1>2, <1>3, <1>5
  <2>2. q + 1 \in Nat /\ 0 \in 0 .. FOUR_KB - 1
    BY <1>1
  <2> QED
    BY <1>2, <2>1, <2>2, SamePlace
<1> QED
  BY <1>4, <1>5 DEF q, r, p, s

\* Up to its end a file stays within its table and the word behind it.
LEMMA WithinTable ==
    ASSUME NEW n \in Nat, n <= TableSize * FOUR_KB
    PROVE  n \div FOUR_KB \in Entries
<1> DEFINE q == n \div FOUR_KB
<1>1. /\ q \in Nat /\ n % FOUR_KB \in 0 .. FOUR_KB - 1
      /\ n = FOUR_KB * q + (n % FOUR_KB)
  BY Division
<1> HIDE DEF q
<1>2. FOUR_KB * q <= FOUR_KB * TableSize
  BY <1>1, SMTT(30)
<1>3. q <= TableSize
  BY <1>1, <1>2, SMTT(30)
<1>4. q \in Entries
  BY <1>1, <1>3 DEF Entries
<1> QED
  BY <1>4 DEF q

\* What the type invariant says of byte n's place.
LEMMA FileBytePlace ==
    ASSUME TypeOK, NEW n \in Nat, n <= TableSize * FOUR_KB
    PROVE  FileByte(n) \in Places
<1>1. n \div FOUR_KB \in Entries /\ n % FOUR_KB \in 0 .. FOUR_KB - 1
  BY Division, WithinTable
<1> QED
  BY <1>1 DEF TypeOK, FileByte, Places

-----------------------------------------------------------------------------
(* The steps                                                               *)

LEMMA InitInv == Init => IInv
<1> SUFFICES ASSUME Init PROVE IInv
  OBVIOUS
<1> USE DEF Init
<1>1. /\ offset \in Nat /\ length \in Nat /\ length_of_file \in Nat
      /\ offset \div FOUR_KB \in Nat /\ offset % FOUR_KB \in 0 .. FOUR_KB - 1
  <2>1. TableSize * FOUR_KB \in Nat
    OBVIOUS
  <2>2. offset \in Nat /\ length \in Nat /\ length_of_file \in Nat
    BY <2>1
  <2> QED
    BY <2>2, Division
<1>2. read_data_block \in BlockIds
  OBVIOUS
<1>3. TypeOK
  BY <1>1, <1>2 DEF TypeOK, Running
<1>4. offset < length_of_file => InPlace
  <2> SUFFICES ASSUME offset < length_of_file PROVE InPlace
    OBVIOUS
  <2>1. TableSize * FOUR_KB \in Nat
    OBVIOUS
  <2>2. offset <= TableSize * FOUR_KB
    BY <1>1, <2>1
  <2>3. offset \div FOUR_KB \in Entries
    BY <1>1, <2>2, WithinTable
  <2>4. offset + i = offset
    BY <1>1
  <2> QED
    BY <1>1, <2>3, <2>4 DEF InPlace
<1>5. Copied
  BY <1>1 DEF Copied
<1>6. result = Running /\ Running = -2
  BY DEF Running
<1> QED
  BY <1>3, <1>4, <1>5, <1>6 DEF IInv, LoopInvariant, ReadsTheFile, FailsForAReason

\* The integers behind the names.
LEMMA Numbers ==
    ASSUME IInv
    PROVE  /\ offset \in Nat /\ length \in Nat /\ length_of_file \in Nat
           /\ i \in Nat /\ data_id_in_block \in Nat /\ data_block_id \in Nat
<1>1. TableSize * FOUR_KB \in Nat
  OBVIOUS
<1> QED
  BY <1>1 DEF IInv, TypeOK

LEMMA FitsTable ==
    ASSUME IInv, NEW n \in Nat, n <= length_of_file
    PROVE  n <= TableSize * FOUR_KB
<1> DEFINE all == TableSize * FOUR_KB
<1>1. all \in Nat
  OBVIOUS
<1>2. length_of_file \in 0 .. all
  BY DEF IInv, TypeOK
<1> QED
  BY <1>1, <1>2

\* A step that only returns keeps the invariant if its result is right.
LEMMA ReturnInv ==
    ASSUME IInv, NEW value \in Nat \cup {-1}, Return(value),
           value >= 0 => value = Available
             /\ \A k \in 0 .. length - 1 :
                   buf[k] = IF k < value THEN FileByte(offset + k) ELSE Untouched,
           value = -1 => ~ValidInode
    PROVE  IInv'
<1> USE DEF Return, request
<1>1. TypeOK'
  BY DEF IInv, TypeOK
<1>2. LoopInvariant'
  BY DEF LoopInvariant, Running
<1>3. ReadsTheFile'
  BY DEF ReadsTheFile, Available, AtMost, FileByte
<1>4. FailsForAReason'
  BY DEF FailsForAReason, ValidInode
<1> QED
  BY <1>1, <1>2, <1>3, <1>4 DEF IInv

LEMMA RejectInodeInv == IInv /\ RejectInode => IInv'
  BY ReturnInv DEF RejectInode

LEMMA StartsBeyondEndInv == IInv /\ StartsBeyondEnd => IInv'
<1> SUFFICES ASSUME IInv, StartsBeyondEnd PROVE IInv'
  OBVIOUS
<1>1. Available = 0
  BY DEF StartsBeyondEnd, Available
<1>2. Copied /\ i = 0
  BY DEF IInv, LoopInvariant, StartsBeyondEnd
<1>3. 0 \in Nat \cup {-1} /\ 0 >= 0 /\ 0 # -1
  OBVIOUS
<1> QED
  BY <1>1, <1>2, <1>3, ReturnInv DEF StartsBeyondEnd, Copied

\* The loop ends by either test with what the file has.
LEMMA LoopEndInv ==
    ASSUME IInv, InLoop, Return(i), i >= length \/ i + offset >= length_of_file
    PROVE  IInv'
<1>1. InPlace /\ Copied
  BY DEF IInv, LoopInvariant, InLoop
<1>2. i <= length /\ i + offset <= length_of_file
  BY <1>1 DEF InPlace
<1>3. i = Available
  BY <1>2, Numbers DEF Available, AtMost, InLoop
<1>4. i \in Nat \cup {-1} /\ i >= 0 /\ i # -1
  BY Numbers
<1> QED
  BY <1>1, <1>3, <1>4, ReturnInv DEF Copied

LEMMA ReachesEndInv == IInv /\ ReachesEnd => IInv'
  BY LoopEndInv DEF ReachesEnd

LEMMA FillsBufferInv == IInv /\ FillsBuffer => IInv'
<1> SUFFICES ASSUME IInv, FillsBuffer PROVE IInv'
  OBVIOUS
<1>1. i = length
  BY Numbers DEF IInv, LoopInvariant, InPlace, FillsBuffer, InLoop
<1> QED
  BY <1>1, LoopEndInv DEF FillsBuffer

\* A copied byte is the next one of the file.
LEMMA CopiesTheByte ==
    ASSUME IInv, CopiesByte
    PROVE  /\ InPlace /\ Copied
           /\ i < length /\ i + offset < length_of_file
           /\ buf' = [buf EXCEPT ![i] = FileByte(offset + i)]
           /\ buf' \in [0 .. length - 1 -> Places \cup {Untouched}]
<1>1. InPlace /\ Copied
  BY DEF IInv, LoopInvariant, CopiesByte, InLoop
<1>2. i < length /\ i + offset < length_of_file
  BY DEF CopiesByte
<1>3. [block |-> read_data_block, index |-> data_id_in_block]
        = FileByte(offset + i)
  BY <1>1 DEF InPlace, FileByte
<1>4. buf' = [buf EXCEPT ![i] = FileByte(offset + i)]
  BY <1>3 DEF CopiesByte
<1>5. offset + i \in Nat /\ offset + i <= TableSize * FOUR_KB
  BY <1>2, Numbers, FitsTable
<1>6. FileByte(offset + i) \in Places
  BY <1>5, FileBytePlace DEF IInv
<1>7. i \in 0 .. length - 1
  BY <1>2, Numbers
<1> QED
  BY <1>1, <1>2, <1>4, <1>6, <1>7 DEF IInv, TypeOK

\* One more byte, by either way through the body of the loop.
LEMMA AdvanceInv ==
    ASSUME IInv, CopiesByte, i' = i + 1, UNCHANGED <<request, result>>,
           data_id_in_block' = (offset + i + 1) % FOUR_KB,
           data_block_id' = (offset + i + 1) \div FOUR_KB,
           read_data_block' = data_block_num[data_block_id']
    PROVE  IInv'
<1> DEFINE n == offset + i + 1
<1> USE DEF request
<1>1. /\ InPlace /\ Copied
      /\ i < length /\ i + offset < length_of_file
      /\ buf' = [buf EXCEPT ![i] = FileByte(offset + i)]
      /\ buf' \in [0 .. length - 1 -> Places \cup {Untouched}]
  BY CopiesTheByte
<1>2. n \in Nat /\ n <= length_of_file /\ offset + i' = n /\ i' <= length
  <2>1. i < length /\ i + offset < length_of_file /\ i' = i + 1
    BY <1>1
  <2>2. offset \in Nat /\ length \in Nat /\ length_of_file \in Nat /\ i \in Nat
    BY Numbers
  <2> QED
    BY ONLY <2>1, <2>2
<1>3. /\ n \div FOUR_KB \in Entries /\ n \div FOUR_KB \in Nat
      /\ n % FOUR_KB \in 0 .. FOUR_KB - 1
  BY <1>2, Division, WithinTable, FitsTable
<1>4. result = Running /\ offset < length_of_file
  BY DEF CopiesByte, InLoop
<1>5. TypeOK'
  <2>1. read_data_block' \in BlockIds
    BY <1>3 DEF IInv, TypeOK
  <2>2. i' \in 0 .. length
    BY <1>1, Numbers
  <2> QED
    BY <1>1, <1>3, <2>1, <2>2 DEF IInv, TypeOK
<1>6. InPlace'
  <2>1. i' + offset = n
    BY <1>2, Numbers
  <2>2. /\ data_id_in_block' = n % FOUR_KB /\ data_block_id' = n \div FOUR_KB
        /\ offset' = offset /\ length' = length
        /\ length_of_file' = length_of_file /\ data_block_num' = data_block_num
    OBVIOUS
  <2> HIDE DEF n
  <2> QED
    BY <1>2, <2>1, <2>2 DEF InPlace
<1>7. Copied'
  <2> SUFFICES ASSUME NEW k \in 0 .. length - 1
               PROVE  buf'[k] = IF k < i + 1 THEN FileByte(offset + k) ELSE Untouched
    BY DEF Copied, FileByte
  <2>1. CASE k = i
    BY <1>1, <2>1, Numbers DEF IInv, TypeOK
  <2>2. CASE k # i
    <3>1. buf'[k] = buf[k]
      BY <1>1, <2>2 DEF IInv, TypeOK
    <3>2. k < i + 1 <=> k < i
      BY <2>2, Numbers
    <3> QED
      BY <1>1, <3>1, <3>2 DEF Copied
  <2> QED
    BY <2>1, <2>2
<1>8. LoopInvariant'
  BY <1>4, <1>6, <1>7, Numbers DEF LoopInvariant
<1>9. result' = -2
  BY <1>4 DEF Running
<1> QED
  BY <1>5, <1>8, <1>9 DEF IInv, ReadsTheFile, FailsForAReason

\* Within a block.
LEMMA StaysInBlockInv == IInv /\ StaysInBlock => IInv'
<1> SUFFICES ASSUME IInv, StaysInBlock PROVE IInv'
  OBVIOUS
<1>1. InPlace /\ CopiesByte
  BY CopiesTheByte DEF StaysInBlock
<1>2. offset + i \in Nat
  BY Numbers
<1>3. /\ ((offset + i) % FOUR_KB) + 1 < FOUR_KB
      /\ data_id_in_block' = ((offset + i) % FOUR_KB) + 1
      /\ data_block_id' = (offset + i) \div FOUR_KB
  BY <1>1 DEF StaysInBlock, InPlace
<1>4. /\ data_id_in_block' = (offset + i + 1) % FOUR_KB
      /\ data_block_id' = (offset + i + 1) \div FOUR_KB
  BY <1>2, <1>3, NextByte
<1>5. read_data_block' = data_block_num[data_block_id']
  BY <1>1 DEF StaysInBlock, InPlace
<1> QED
  BY <1>1, <1>4, <1>5, AdvanceInv DEF StaysInBlock

\* The copied byte was the last of its block.
LEMMA AtBlockEnd ==
    ASSUME IInv, CopiesByte, data_id_in_block + 1 >= FOUR_KB
    PROVE  /\ (offset + i + 1) % FOUR_KB = 0
           /\ (offset + i + 1) \div FOUR_KB = data_block_id + 1
<1>1. InPlace
  BY CopiesTheByte
<1>2. offset + i \in Nat
  BY Numbers
<1> QED
  BY <1>1, <1>2, NextByte DEF InPlace

LEMMA EntersBlockInv == IInv /\ EntersBlock => IInv'
<1> SUFFICES ASSUME IInv, EntersBlock PROVE IInv'
  OBVIOUS
<1>1. CopiesByte /\ data_id_in_block + 1 >= FOUR_KB
  BY DEF EntersBlock
<1>2. /\ data_id_in_block' = (offset + i + 1) % FOUR_KB
      /\ data_block_id' = (offset + i + 1) \div FOUR_KB
  BY <1>1, AtBlockEnd DEF EntersBlock
<1>3. read_data_block' = data_block_num[data_block_id']
  BY DEF EntersBlock
<1> QED
  BY <1>1, <1>2, <1>3, AdvanceInv DEF EntersBlock

\* The next table entry is bad, and byte offset + i + 1 would be in its block.
LEMMA MissesBlockInv == IInv /\ MissesBlock => IInv'
<1> SUFFICES ASSUME IInv, MissesBlock PROVE IInv'
  OBVIOUS
<1> DEFINE n == offset + i + 1
<1> USE DEF request
<1>1. CopiesByte /\ data_id_in_block + 1 >= FOUR_KB
  BY DEF MissesBlock
<1>2. n % FOUR_KB = 0 /\ n \div FOUR_KB = data_block_id + 1
  BY <1>1, AtBlockEnd
<1>3. /\ InPlace /\ Copied
      /\ i < length /\ i + offset < length_of_file
      /\ buf' \in [0 .. length - 1 -> Places \cup {Untouched}]
  BY <1>1, CopiesTheByte
<1>4. /\ n \in offset + 1 .. offset + Available
      /\ n \in Nat /\ n <= length_of_file
  <2>1. i < length /\ i + offset < length_of_file
    BY <1>3
  <2> QED
    BY <2>1, Numbers DEF Available, AtMost
<1>5. data_block_num[n \div FOUR_KB] >= data_count
  <2>1. n \div FOUR_KB \in Entries
    BY <1>4, FitsTable, WithinTable
  <2>2. data_block_num[n \div FOUR_KB] \in Nat
    BY <2>1 DEF IInv, TypeOK, BlockIds
  <2>3. ~(data_block_num[n \div FOUR_KB] < data_count)
    BY <1>2 DEF MissesBlock, BlockExists
  <2> QED
    BY <2>2, <2>3
<1>6. result' = -1
  BY DEF MissesBlock
<1>7. TypeOK'
  <2>1. data_block_id' = data_block_id + 1 /\ data_block_id' \in Nat
    BY Numbers DEF MissesBlock
  <2> QED
    BY <1>3, <1>6, <2>1 DEF MissesBlock, IInv, TypeOK
<1>8. LoopInvariant' /\ ReadsTheFile'
  BY <1>6 DEF LoopInvariant, ReadsTheFile, Running
<1>9. FailsForAReason'
  <2>1. \E m \in offset + 1 .. offset + Available :
           m % FOUR_KB = 0 /\ data_block_num[m \div FOUR_KB] >= data_count
    BY <1>2, <1>4, <1>5
  <2>2. /\ offset' = offset /\ Available' = Available
        /\ data_block_num' = data_block_num
    BY DEF MissesBlock, Available, AtMost
  <2> QED
    BY <2>1, <2>2 DEF FailsForAReason
<1> QED
  BY <1>7, <1>8, <1>9 DEF IInv

LEMMA StepInv == IInv /\ [Next]_vars => IInv'
<1> SUFFICES ASSUME IInv, [Next]_vars PROVE IInv'
  OBVIOUS
<1>1. CASE RejectInode
  BY <1>1, RejectInodeInv
<1>2. CASE StartsBeyondEnd
  BY <1>2, StartsBeyondEndInv
<1>3. CASE ReachesEnd
  BY <1>3, ReachesEndInv
<1>4. CASE FillsBuffer
  BY <1>4, FillsBufferInv
<1>5. CASE StaysInBlock
  BY <1>5, StaysInBlockInv
<1>6. CASE EntersBlock
  BY <1>6, EntersBlockInv
<1>7. CASE MissesBlock
  BY <1>7, MissesBlockInv
<1>8. CASE UNCHANGED vars
  BY <1>8 DEF vars, request, IInv, TypeOK, LoopInvariant, Copied, InPlace,
     ReadsTheFile, FailsForAReason, Available, AtMost, FileByte, ValidInode
<1> QED
  BY <1>1, <1>2, <1>3, <1>4, <1>5, <1>6, <1>7, <1>8 DEF Next

LEMMA Invariance == Spec => []IInv
  BY InitInv, StepInv, PTL DEF Spec

-----------------------------------------------------------------------------
(* The results                                                             *)

(***************************************************************************)
(* The indices of read_data stay in range: the index in a block below the  *)
(* block's size, the place in the buffer below the length asked for; and   *)
(* what is read are always bytes of the disk's data blocks.                *)
(***************************************************************************)
THEOREM TypeCorrect == Spec => []TypeOK
<1>1. IInv => TypeOK
  BY DEF IInv
<1> QED
  BY <1>1, Invariance, PTL

(***************************************************************************)
(* Whatever the file, the block size, the offset and the length: a         *)
(* successful read_data returns the bytes the request covers, all of them  *)
(* and nothing else.                                                       *)
(***************************************************************************)
THEOREM ReadsCorrectly == Spec => []ReadsTheFile
<1>1. IInv => ReadsTheFile
  BY DEF IInv
<1> QED
  BY <1>1, Invariance, PTL

(***************************************************************************)
(* read_data returns -1 only for an inode that does not exist or at the    *)
(* border to a block that does not.                                        *)
(***************************************************************************)
THEOREM FailsRightly == Spec => []FailsForAReason
<1>1. IInv => FailsForAReason
  BY DEF IInv
<1> QED
  BY <1>1, Invariance, PTL
=============================================================================
