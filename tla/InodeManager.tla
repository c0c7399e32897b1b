---------------------------- MODULE InodeManager ----------------------------
(***************************************************************************)
(* The inode layer of inode_manager.cc: inode allocation, and the contents *)
(* of files kept in blocks that an inode points to, directly or through    *)
(* one indirect block.                                                     *)
(*                                                                         *)
(* The pointers of an inode are numbered in the order write_file fills     *)
(* them.  Slots 0 .. NDIRECT-1 are the direct pointers, slot NDIRECT is    *)
(* the pointer to the indirect block, and the later slots are the ids      *)
(* stored in the indirect block.                                           *)
(***************************************************************************)
EXTENDS BlockManager

CONSTANTS
    UINT_LIMIT,     \* 2^32: _last_alloced is an unsigned 32-bit integer
    Junk            \* bytes that no put gave to this file

VARIABLES
    last_alloced,   \* inode_manager::_last_alloced
    status          \* what has become of the process

imVars == <<disk, using_blocks, last_alloced, status>>

ASSUME UintAssumption == UINT_LIMIT \in Nat /\ UINT_LIMIT > 2 * INODE_NUM
ASSUME JunkAssumption == \A v \in Values, k \in 0 .. MAXFILE - 1 : Junk # [val |-> v, idx |-> k]

\* "exited": the constructor called exit(0).  "aborted": the assertion of
\* free_block failed.  "corrupt": an access out of the bounds of a heap buffer,
\* after which the program's behaviour is undefined and the model stops.
Statuses == {"up", "exited", "aborted", "corrupt"}

Slots == 0 .. MAXFILE

-----------------------------------------------------------------------------
(* Inodes. *)

get_inode(i) ==
    IF i <= INODE_NUM /\ disk[IBLOCK(i)].kind = "inode"
    THEN disk[IBLOCK(i)].inode ELSE ZeroInode

Exists(i) == get_inode(i).type # "0"

\* The ids in the block b.  (Only a valid indirect block is read to use its
\* ids; see FreedByWrite and FreedByRemove for the block 0 of a failed alloc.)
IdsIn(b) ==
    IF disk[b].kind = "ids" THEN disk[b].ids
    ELSE [k \in 0 .. NINDIRECT - 1 |-> 0]

\* All the pointers of inode i, as write_file and read_file see them.
Pointers(i) ==
    LET blocks == get_inode(i).blocks
        ids == IdsIn(blocks[NDIRECT])
    IN  [s \in Slots |->
            IF s <= NDIRECT THEN blocks[s]
            ELSE IF is_valid_block(blocks[NDIRECT], using_blocks)
                 THEN ids[s - NDIRECT - 1] ELSE 0]

\* Mutant: the wrap-around without its + 1.
ToAllocFromZero(k, last) ==
    LET x == (k + last) % UINT_LIMIT IN IF x >= INODE_NUM THEN x % INODE_NUM ELSE x

\* The k-th candidate of the scan of alloc_inode, in 32-bit arithmetic.
to_alloc(k, last) ==
    LET x == (k + last) % UINT_LIMIT
    IN  IF x >= INODE_NUM THEN (x % INODE_NUM) + 1 ELSE x

\* The inum that alloc_inode returns, 0 when no candidate is free.
AllocInum ==
    LET first == {k \in 1 .. INODE_NUM :
                    /\ ~ Exists(to_alloc(k, last_alloced))
                    /\ \A j \in 1 .. k - 1 : Exists(to_alloc(j, last_alloced))}
    IN  IF first = {} THEN 0 ELSE to_alloc(CHOOSE k \in first : TRUE, last_alloced)

alloc_inode(type) ==
    /\ disk' = IF AllocInum = 0 THEN disk
               ELSE [disk EXCEPT ![IBLOCK(AllocInum)] =
                        InodeBlock([ZeroInode EXCEPT !.type = type])]
    /\ last_alloced' = IF AllocInum = 0 THEN last_alloced ELSE AllocInum
    /\ UNCHANGED <<using_blocks, status>>

\* The constructor: the root directory is allocated while _last_alloced still
\* holds whatever was in the memory, and the process exits unless it is inum 1.
imInit ==
    \E garbage \in 0 .. UINT_LIMIT - 1 :
        LET root_dir == to_alloc(1, garbage)
        IN  /\ disk = [b \in BlockIds |->
                          IF b = IBLOCK(root_dir)
                          THEN InodeBlock([ZeroInode EXCEPT !.type = "T_DIR"])
                          ELSE ZeroBlock]
            /\ using_blocks = {}
            /\ last_alloced = 0
            /\ status = IF root_dir = 1 THEN "up" ELSE "exited"

-----------------------------------------------------------------------------
(* Sizes and slots. *)

\* pre_block_num and used_block_num of write_file, block_count of read_file:
\* an empty file counts one block.
BlocksFor(size) == IF size = 0 THEN 1 ELSE (size - 1) \div BLOCK_SIZE + 1

\* The blocks a string of this size is cut into.
Chunks(size) == IF size = 0 THEN 0 ELSE BlocksFor(size)

SlotOf(k) == IF k < NDIRECT THEN k ELSE k + 1
ChunkOf(s) == IF s < NDIRECT THEN s ELSE s - 1

\* The bytes of a string of this size that lie in its k-th block.
LenOf(size, k) ==
    IF (k + 1) * BLOCK_SIZE <= size THEN BLOCK_SIZE ELSE size - k * BLOCK_SIZE

\* Mutant: the loop over the ids of the indirect block stops one short.
WrittenOneShort(size) == {s \in Slots : s < Chunks(size)}

\* The slots that the two loops of write_file fill.  What does not fit in the
\* MAXFILE blocks is left out without an error.
Written(size) ==
    {s \in Slots : IF Chunks(size) <= NDIRECT THEN s < Chunks(size)
                   ELSE s <= Chunks(size)}

-----------------------------------------------------------------------------
(* write_file: the loops that fill blocks, then the loops that free them. *)

\* The slots for which write_file allocates a block.
Missing(i, size) ==
    LET old == Pointers(i)
    IN  {s \in Written(size) : ~ is_valid_block(old[s], using_blocks)}

\* The pointers once every block of the string has been written.
Filled(i, size) ==
    LET old == Pointers(i)
        missing == Missing(i, size)
    IN  [s \in Slots |->
            IF s \in missing THEN alloc_block(Cardinality({t \in missing : t <= s}))
            ELSE old[s]]

\* using_blocks at that point.
UsingAfterFill(i, size) ==
    LET filled == Filled(i, size)
    IN  using_blocks \cup ({filled[s] : s \in Missing(i, size)} \ {0})

\* A slot is valid at that point.
ValidAfterFill(i, size) ==
    LET filled == Filled(i, size)
        used == UsingAfterFill(i, size)
    IN  {s \in Slots : is_valid_block(filled[s], used)}

\* Mutant: the freeing loop starts one slot late.
FreedDirectOneLate(i, size) ==
    LET valid == ValidAfterFill(i, size)
    IN  {s \in Slots : /\ BlocksFor(size) < s /\ s < NDIRECT
                       /\ s < BlocksFor(get_inode(i).size)
                       /\ BlocksFor(size) + 1 .. s \subseteq valid}

\* The freeing loop walks the direct slots from the new block count to the old
\* one and stops at a slot that is not valid.
FreedDirect(i, size) ==
    LET valid == ValidAfterFill(i, size)
    IN  {s \in Slots : /\ BlocksFor(size) <= s /\ s < NDIRECT
                       /\ s < BlocksFor(get_inode(i).size)
                       /\ BlocksFor(size) .. s \subseteq valid}

\* free_indirect_blocks is called when the walk got past the direct slots.
FreesIndirect(i, size) ==
    /\ BlocksFor(get_inode(i).size) > NDIRECT
    /\ BlocksFor(size) .. NDIRECT - 1 \subseteq ValidAfterFill(i, size)

\* Mutant: free_indirect_blocks stops one id short of the old block count.
FreedIndirectOneShort(i, size) ==
    {s \in Slots : /\ s > NDIRECT
                   /\ BlocksFor(size) <= ChunkOf(s)
                   /\ ChunkOf(s) < BlocksFor(get_inode(i).size) - 1}
    \cup (IF BlocksFor(size) <= NDIRECT THEN {NDIRECT} ELSE {})

\* free_indirect_blocks: the ids from begin_block to the old block count, and
\* the indirect block itself when no id is left.  (When the alloc of the
\* indirect block failed the code reads ids in block 0, but that call ends in
\* the assertion of free_block for id 0 whatever the ids are.)
FreedIndirect(i, size) ==
    {s \in Slots : /\ s > NDIRECT
                   /\ BlocksFor(size) <= ChunkOf(s)
                   /\ ChunkOf(s) < BlocksFor(get_inode(i).size)}
    \cup (IF BlocksFor(size) <= NDIRECT THEN {NDIRECT} ELSE {})

FreedByWrite(i, size) ==
    FreedDirect(i, size)
    \cup (IF FreesIndirect(i, size) THEN FreedIndirect(i, size) ELSE {})

\* free_indirect_blocks walks to the old block count, which is past the end of
\* its buffer when the old file was larger than an inode can hold.
WriteOverruns(i, size) ==
    /\ FreesIndirect(i, size)
    /\ BlocksFor(get_inode(i).size) > MAXFILE
    /\ BlocksFor(size) < BlocksFor(get_inode(i).size)

\* Mutant: the pointers of freed blocks are not set to 0.
KeptDangling(i, size) == Filled(i, size)

\* The pointers when write_file returns.
Kept(i, size) ==
    LET filled == Filled(i, size)
        freed == FreedByWrite(i, size)
    IN  [s \in Slots |-> IF s \in freed THEN 0 ELSE filled[s]]

\* The disk when write_file returns.  Every failed alloc has sent its block to
\* block 0, in the order of the slots, the indirect block last.
WriteDisk(i, size, v) ==
    LET filled == Filled(i, size)
        kept == Kept(i, size)
        freed == {filled[s] : s \in FreedByWrite(i, size)}
        data == Written(size) \ {NDIRECT}
        \* The last slot whose data went to block b, if there is one.
        last(b) == {s \in data : /\ filled[s] = b
                                 /\ \A t \in data : filled[t] = b => t <= s}
        piece(s) == [val |-> v, idx |-> ChunkOf(s), len |-> LenOf(size, ChunkOf(s))]
        node == [get_inode(i) EXCEPT
                    !.size = size, !.blocks = [s \in 0 .. NDIRECT |-> kept[s]]]
        ids == [k \in 0 .. NINDIRECT - 1 |-> kept[NDIRECT + 1 + k]]
    IN  [b \in BlockIds |->
            IF b = IBLOCK(i) THEN InodeBlock(node)
            ELSE IF b \in freed THEN ZeroBlock
            ELSE IF NDIRECT \in Written(size) /\ b = filled[NDIRECT] THEN IdsBlock(ids)
            ELSE IF last(b) # {} THEN DataBlock(piece(CHOOSE s \in last(b) : TRUE))
            ELSE disk[b]]

\* free_block on a block that is not in use fails its assertion.
WriteStatus(i, size) ==
    IF ~ (FreedByWrite(i, size) \subseteq ValidAfterFill(i, size)) THEN "aborted"
    ELSE IF WriteOverruns(i, size) THEN "corrupt" ELSE "up"

write_file(i, size, v) ==
    IF ~ Exists(i) THEN UNCHANGED imVars
    ELSE /\ status' = WriteStatus(i, size)
         /\ IF status' = "up"
            THEN /\ disk' = WriteDisk(i, size, v)
                 /\ using_blocks' = LET filled == Filled(i, size)
                                    IN  UsingAfterFill(i, size)
                                        \ {filled[s] : s \in FreedByWrite(i, size)}
            ELSE UNCHANGED <<disk, using_blocks>>
         /\ UNCHANGED last_alloced

-----------------------------------------------------------------------------
(* read_file. *)

\* What the first need bytes of block b are, to a reader of file content.
BytesOf(b, need) ==
    IF disk[b].kind = "data" /\ disk[b].data.len >= need
    THEN [val |-> disk[b].data.val, idx |-> disk[b].data.idx] ELSE Junk

\* The content returned: the blocks that are not valid, and the ids past the
\* end of the indirect block, leave unspecified bytes in the buffer.
Content(i) ==
    LET size == get_inode(i).size
        ptr == Pointers(i)
    IN  [k \in 0 .. Chunks(size) - 1 |->
            IF SlotOf(k) \in Slots /\ is_valid_block(ptr[SlotOf(k)], using_blocks)
            THEN BytesOf(ptr[SlotOf(k)], LenOf(size, k)) ELSE Junk]

\* The loop over the direct slots does not stop at the block count unless the
\* last block is partial and valid: a valid slot after it is copied past the
\* end of the buffer.
ReadOverruns(i) ==
    LET size == get_inode(i).size
        last == BlocksFor(size) - 1
        valid(s) == is_valid_block(Pointers(i)[s], using_blocks)
    IN  /\ \E s \in last + 1 .. NDIRECT - 1 : valid(s)
        /\ ~ (size % BLOCK_SIZE # 0 /\ valid(last))

read_file(i) ==
    /\ status' = IF Exists(i) /\ ReadOverruns(i) THEN "corrupt" ELSE "up"
    /\ UNCHANGED <<disk, using_blocks, last_alloced>>

-----------------------------------------------------------------------------
(* remove_file. *)

\* get_indirect_blocks counts the ids with strlen: an id with a zero byte ends
\* the count.
NonzeroBytes(id) == \A j \in {1, 256, 65536, 16777216} : (id \div j) % 256 # 0

RemovedDirect(i) ==
    {s \in 0 .. NDIRECT - 1 :
        /\ s * BLOCK_SIZE < get_inode(i).size
        /\ \A t \in 0 .. s : is_valid_block(Pointers(i)[t], using_blocks)}

\* Some bytes of the file were not in the direct blocks.
RemovesIndirect(i) == Cardinality(RemovedDirect(i)) * BLOCK_SIZE < get_inode(i).size

RemovedIndirect(i) ==
    {s \in Slots :
        /\ s > NDIRECT
        /\ \A t \in NDIRECT + 1 .. s :
              /\ NonzeroBytes(Pointers(i)[t])
              /\ is_valid_block(Pointers(i)[t], using_blocks)
        /\ (Cardinality(RemovedDirect(i)) + s - NDIRECT - 1) * BLOCK_SIZE
              < get_inode(i).size}

FreedByRemove(i) ==
    RemovedDirect(i)
    \cup (IF RemovesIndirect(i) THEN RemovedIndirect(i) \cup {NDIRECT} ELSE {})

\* Freeing the indirect block of a file that has none fails the assertion.
remove_file(i) ==
    IF ~ Exists(i) THEN UNCHANGED imVars
    ELSE LET freed == {Pointers(i)[s] : s \in FreedByRemove(i)}
         IN  /\ status' = IF freed \subseteq using_blocks THEN "up" ELSE "aborted"
             /\ IF status' = "up"
                THEN /\ disk' = [b \in BlockIds |->
                                    IF b \in freed \cup {IBLOCK(i)} THEN ZeroBlock
                                    ELSE disk[b]]
                     /\ using_blocks' = using_blocks \ freed
                ELSE UNCHANGED <<disk, using_blocks>>
             /\ UNCHANGED last_alloced

\* get_attr: an inode that does not exist leaves the zeroed attributes alone.
Attr(i) == [type |-> get_inode(i).type, size |-> get_inode(i).size]

=============================================================================
