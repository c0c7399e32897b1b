---------------------------- MODULE BlockManager ----------------------------
(***************************************************************************)
(* The disk and block layers of inode_manager.cc: an array of fixed-size   *)
(* blocks, zeroed by the constructor, and the in-memory map using_blocks   *)
(* that plays the part of the free-block bitmap.                           *)
(*                                                                         *)
(* A block holds bytes.  The model keeps what the readers of a block can   *)
(* tell apart: a block of zero bytes, an inode, an array of block ids (an  *)
(* indirect block), or a piece of a file's content.                        *)
(***************************************************************************)
EXTENDS Integers, FiniteSets

CONSTANTS
    BLOCK_NUM,      \* blocks on the disk
    BLOCK_SIZE,     \* bytes per block
    INODE_NUM,      \* the greatest inode number
    NDIRECT,        \* direct pointers of an inode
    Sizes,          \* the sizes, in bytes, of the strings given to put
    Values          \* the contents a caller gives to put

BPB == BLOCK_SIZE * 8

\* sizeof(uint) is 4.
NINDIRECT == BLOCK_SIZE \div 4

\* In blocks.  The code defines it and never uses it.
MAXFILE == NDIRECT + NINDIRECT

\* The inode of number i has a block of its own (IPB is 1).
IBLOCK(i) == BLOCK_NUM \div BPB + i + 3

BlockIds == 0 .. BLOCK_NUM - 1
DataBlocks == IBLOCK(INODE_NUM) + 1 .. BLOCK_NUM - 1

ASSUME LayoutAssumption ==
    /\ BLOCK_SIZE \in Nat /\ BLOCK_SIZE >= 4
    /\ NDIRECT \in Nat \ {0}
    /\ INODE_NUM \in Nat \ {0}
    /\ BLOCK_NUM \in Nat /\ IBLOCK(INODE_NUM) < BLOCK_NUM
    /\ Sizes \subseteq Nat

VARIABLES
    disk,           \* disk::blocks
    using_blocks    \* the ids that block_manager::using_blocks maps to 1

-----------------------------------------------------------------------------
(* What a block can hold. *)

Types == {"T_DIR", "T_FILE", "T_SYMBOLIC"}

\* An all-zero block read as an inode has type 0.
InodeRecord == [type : Types \cup {"0"}, size : Sizes \cup {0},
                blocks : [0 .. NDIRECT -> BlockIds]]

ZeroInode == [type |-> "0", size |-> 0, blocks |-> [s \in 0 .. NDIRECT |-> 0]]

\* len bytes of the idx-th block of the string val; the bytes of the block
\* after them are not part of the string.
DataRecord == [val : Values, idx : 0 .. MAXFILE - 1, len : 0 .. BLOCK_SIZE]

ZeroBlock == [kind |-> "zero"]
InodeBlock(node) == [kind |-> "inode", inode |-> node]
IdsBlock(ids) == [kind |-> "ids", ids |-> ids]
DataBlock(d) == [kind |-> "data", data |-> d]

Block == {ZeroBlock}
         \cup [kind : {"inode"}, inode : InodeRecord]
         \cup [kind : {"ids"}, ids : [0 .. NINDIRECT - 1 -> BlockIds]]
         \cup [kind : {"data"}, data : DataRecord]

-----------------------------------------------------------------------------
(* block_manager. *)

\* Mutant: the scan of alloc_block starts one block early.
FreeBlocksOneEarly == (IBLOCK(INODE_NUM) .. BLOCK_NUM - 1) \ using_blocks

FreeBlocks == DataBlocks \ using_blocks

\* Mutant: alloc_block does not mark the block it returns.
AllocUnmarked(n) ==
    IF FreeBlocks = {} THEN 0 ELSE CHOOSE b \in FreeBlocks : \A c \in FreeBlocks : b <= c

\* The id that the n-th call of alloc_block returns when n - 1 calls have been
\* made since this state and no block has been freed: the scan takes the free
\* blocks in increasing order, and 0 is the answer when they have run out.
alloc_block(n) ==
    LET nth == {b \in FreeBlocks : Cardinality({c \in FreeBlocks : c <= b}) = n}
    IN  IF nth = {} THEN 0 ELSE CHOOSE b \in nth : TRUE

\* is_valid_block against the map U.
is_valid_block(id, U) == id < BLOCK_NUM /\ id \in U

=============================================================================
