------------------------------ MODULE ReadData ------------------------------
(***************************************************************************)
(* read_data of file_sys.c: the loop that copies a range of a file to a    *)
(* buffer, following the inode's table of data blocks.  One iteration of   *)
(* the loop is one step.  The file, its block table and the arguments are  *)
(* chosen at the start; a byte of the disk is known by its place.          *)
(***************************************************************************)
EXTENDS Integers

CONSTANTS
    FOUR_KB,      \* bytes in a data block
    TableSize,    \* entries of data_block_num
    inode_count, data_count,
    MaxRequest    \* bound on offset and length, for model checking

ASSUME DiskAssumption ==
    /\ FOUR_KB \in Nat \ {0}
    /\ TableSize \in Nat \ {0}
    /\ inode_count \in Nat /\ data_count \in Nat
    /\ MaxRequest \in Nat

VARIABLES
    inode, offset, length,      \* the arguments
    length_of_file,             \* of that inode
    data_block_num,             \* its table, and the word behind it
    i, data_id_in_block, data_block_id, read_data_block, buf,
    result                      \* Running until the function returns

request == <<inode, offset, length, length_of_file, data_block_num>>
vars == <<request, i, data_id_in_block, data_block_id, read_data_block, buf,
          result>>

Running == -2
Entries == 0 .. TableSize   \* the last one is the word after the table
BlockIds == 0 .. data_count \* data_count stands for every id out of range
Places == [block : BlockIds, index : 0 .. FOUR_KB - 1]
Untouched == [block |-> -1, index |-> -1]

\* Byte n of the file, by the layout of the file system.
FileByte(n) == [block |-> data_block_num[n \div FOUR_KB], index |-> n % FOUR_KB]

TypeOK ==
    /\ inode \in -1 .. inode_count
    /\ offset \in 0 .. MaxRequest /\ length \in 0 .. MaxRequest
    /\ length_of_file \in 0 .. TableSize * FOUR_KB
    /\ data_block_num \in [Entries -> BlockIds]
    /\ i \in 0 .. length
    /\ data_id_in_block \in 0 .. FOUR_KB - 1
    /\ data_block_id \in Nat
    /\ read_data_block \in BlockIds
    /\ buf \in [0 .. length - 1 -> Places \cup {Untouched}]
    /\ result \in {Running, -1} \cup Nat

(***************************************************************************)
(* Entry, with the locals set up from the offset.  The first table entry   *)
(* is fetched before the range check; for an offset behind the table it is *)
(* whatever lies there, and is not used.                                   *)
(***************************************************************************)
Init ==
    /\ inode \in -1 .. inode_count
    /\ offset \in 0 .. MaxRequest
    /\ length \in 0 .. MaxRequest
    /\ length_of_file \in 0 .. TableSize * FOUR_KB
    /\ data_block_num \in [Entries -> BlockIds]
    /\ i = 0
    /\ data_id_in_block = offset % FOUR_KB
    /\ data_block_id = offset \div FOUR_KB
    /\ \/ /\ data_block_id \in Entries
          /\ read_data_block = data_block_num[data_block_id]
       \/ data_block_id \notin Entries /\ read_data_block \in BlockIds
    /\ buf = [k \in 0 .. length - 1 |-> Untouched]
    /\ result = Running

ValidInode == inode >= 0 /\ inode < inode_count

Return(value) ==
    /\ result' = value
    /\ UNCHANGED <<request, i, data_id_in_block, data_block_id,
                   read_data_block, buf>>

RejectInode == result = Running /\ ~ValidInode /\ Return(-1)

StartsBeyondEnd ==
    /\ result = Running
    /\ ValidInode /\ offset >= length_of_file
    /\ Return(0)

InLoop == result = Running /\ ValidInode /\ offset < length_of_file

ReachesEnd == InLoop /\ i < length /\ i + offset >= length_of_file /\ Return(i)

FillsBuffer == InLoop /\ i >= length /\ Return(length)

CopiesByte ==
    /\ InLoop /\ i < length /\ i + offset < length_of_file
    /\ buf' = [buf EXCEPT ![i] =
                 [block |-> read_data_block, index |-> data_id_in_block]]

\* Mutant: the block's end off by one.
StaysTooLong ==
    /\ CopiesByte
    /\ data_id_in_block + 1 <= FOUR_KB
    /\ data_id_in_block' = data_id_in_block + 1
    /\ i' = i + 1
    /\ UNCHANGED <<request, data_block_id, read_data_block, result>>

\* The next byte is in the same block.
StaysInBlock ==
    /\ CopiesByte
    /\ data_id_in_block + 1 < FOUR_KB
    /\ data_id_in_block' = data_id_in_block + 1
    /\ i' = i + 1
    /\ UNCHANGED <<request, data_block_id, read_data_block, result>>

\* Mutant: off by one.
BlockBelowLast(id) == data_block_num[id] < data_count - 1

BlockExists(id) == data_block_num[id] < data_count

\* Mutant: the pointer to the block is not moved.
EntersSameBlock ==
    /\ CopiesByte
    /\ data_id_in_block + 1 >= FOUR_KB
    /\ data_block_id' = data_block_id + 1
    /\ BlockExists(data_block_id + 1)
    /\ data_id_in_block' = 0
    /\ i' = i + 1
    /\ UNCHANGED <<request, read_data_block, result>>

\* The next byte is in the next block; its table entry is checked here, even
\* if no byte of that block is wanted.
EntersBlock ==
    /\ CopiesByte
    /\ data_id_in_block + 1 >= FOUR_KB
    /\ data_block_id' = data_block_id + 1
    /\ BlockExists(data_block_id + 1)
    /\ data_id_in_block' = 0
    /\ read_data_block' = data_block_num[data_block_id + 1]
    /\ i' = i + 1
    /\ UNCHANGED <<request, result>>

MissesBlock ==
    /\ CopiesByte
    /\ data_id_in_block + 1 >= FOUR_KB
    /\ data_block_id' = data_block_id + 1
    /\ ~BlockExists(data_block_id + 1)
    /\ result' = -1
    /\ UNCHANGED <<request, i, data_id_in_block, read_data_block>>

Next ==
    \/ RejectInode \/ StartsBeyondEnd \/ ReachesEnd \/ FillsBuffer
    \/ StaysInBlock \/ EntersBlock \/ MissesBlock

Spec == Init /\ [][Next]_vars

-----------------------------------------------------------------------------
(* What must hold                                                          *)

AtMost(a, b) == IF a < b THEN a ELSE b

\* How many bytes of the file the request covers.
Available ==
    IF offset >= length_of_file THEN 0
    ELSE AtMost(length, length_of_file - offset)

(***************************************************************************)
(* A successful read returns as many bytes as there are, and they are the  *)
(* bytes of the file from offset on, across any number of block borders;   *)
(* the rest of the buffer is not written.                                  *)
(***************************************************************************)
ReadsTheFile ==
    result >= 0 =>
      /\ result = Available
      /\ \A k \in 0 .. length - 1 :
            buf[k] = IF k < result THEN FileByte(offset + k) ELSE Untouched

(***************************************************************************)
(* It fails only for a bad inode, or because a block it has read to the    *)
(* end is followed in the table by something that is not a data block.     *)
(***************************************************************************)
FailsForAReason ==
    result = -1 =>
      \/ ~ValidInode
      \/ \E n \in offset + 1 .. offset + Available :
            n % FOUR_KB = 0 /\ data_block_num[n \div FOUR_KB] >= data_count
=============================================================================
