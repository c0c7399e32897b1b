---------------------------- MODULE ExtentServer ----------------------------
(***************************************************************************)
(* extent_server.cc and the pass-through extent_client.cc: files named by  *)
(* extent ids, kept by one inode_manager.  All calls are local and run one *)
(* at a time and return OK, whether or not they have done anything.        *)
(***************************************************************************)
EXTENDS InodeManager

CONSTANTS
    ID_LIMIT,       \* 2^31: ids are masked with 0x7fffffff
    Ids,            \* the extent ids that callers use
    NewTypes        \* the types of the files that callers create

ASSUME IdAssumption == /\ ID_LIMIT \in Nat /\ ID_LIMIT > INODE_NUM
                       /\ Ids \subseteq Nat
                       /\ NewTypes \subseteq Types

Mask(id) == id % ID_LIMIT

Init == imInit

\* The caller is handed AllocInum, which is 0 when alloc_inode has failed.
create(type) ==
    /\ status = "up"
    /\ alloc_inode(type)

put(id, size, v) ==
    /\ status = "up"
    /\ write_file(Mask(id), size, v)

\* The caller is handed Content(Mask(id)): the empty string when the id has no
\* inode.
get(id) ==
    /\ status = "up"
    /\ read_file(Mask(id))

\* The caller is handed Attr(Mask(id)).
getattr(id) ==
    /\ status = "up"
    /\ UNCHANGED imVars

remove(id) ==
    /\ status = "up"
    /\ remove_file(Mask(id))

Next ==
    \/ \E type \in NewTypes : create(type)
    \/ \E id \in Ids, size \in Sizes, v \in Values : put(id, size, v)
    \/ \E id \in Ids : get(id)
    \/ \E id \in Ids : getattr(id)
    \/ \E id \in Ids : remove(id)

Spec == Init /\ [][Next]_imVars

-----------------------------------------------------------------------------
(* Properties. *)

\* The type of the state: what the blocks hold, and no block outside the data
\* region is ever marked as used.
TypeOK ==
    /\ disk \in [BlockIds -> Block]
    /\ using_blocks \in SUBSET DataBlocks
    /\ last_alloced \in 0 .. INODE_NUM
    /\ status \in Statuses

\* The numbers that have a block in the inode table.  Number 0 has one and is
\* never allocated.
InodeNums == 0 .. INODE_NUM
Inums == 1 .. INODE_NUM

\* Every pointer of every inode, direct, indirect or to the indirect block, is
\* either 0 or a block that alloc_block has handed out and nobody has freed.
PointersInUse ==
    \A i \in InodeNums : LET ptr == Pointers(i)
                        IN  \A s \in Slots : ptr[s] \in using_blocks \cup {0}

\* No two pointers of the file system lead to the same block, within a file or
\* between two files, whatever sequence of puts and removes has grown, shrunk,
\* failed or freed them.
NoSharing ==
    LET ptr == [i \in InodeNums |-> Pointers(i)]
    IN  \A i, j \in InodeNums : \A s, t \in Slots :
            ptr[i][s] # 0 /\ ptr[i][s] = ptr[j][t] => i = j /\ s = t

\* The blocks marked as used that no inode leads to: nothing frees them again.
Leaked ==
    using_blocks \ UNION {LET ptr == Pointers(i) IN {ptr[s] : s \in Slots} : i \in Inums}

\* Shrinking, growing or failing, a put never loses track of a block: only the
\* removal of a file can leave a used block that no inode leads to.
LeakOnlyByRemove ==
    [][Leaked' # Leaked => \E i \in Inums : Exists(i) /\ ~ Exists(i)']_imVars

\* read_file stays within the buffer it has allocated, though its loop over the
\* direct pointers does not look at the size: the pointers after the last block
\* are never valid, whatever the file was before.
ReadInBounds == status = "up" => \A i \in Inums : ~ ReadOverruns(i)

Damaged(i) == LET content == Content(i)
              IN  \E k \in DOMAIN content : content[k] = Junk

\* put, which always says OK, drops bytes for two reasons only: the file is
\* larger than an inode can describe, or every data block is in use.
LossOnlyWhenFull ==
    [][\A i \in Inums :
          Damaged(i)' /\ (get_inode(i)' # get_inode(i) \/ ~ Damaged(i))
             => \/ using_blocks' = DataBlocks
                \/ get_inode(i).size' > MAXFILE * BLOCK_SIZE]_imVars

\* The wrap-around of the inode scan skips at most one number: create gives up
\* (and hands back inum 0) only when a single inode, or none, is left.
CreateUsesInodes ==
    AllocInum = 0 => Cardinality({i \in Inums : ~ Exists(i)}) <= 1

-----------------------------------------------------------------------------
(* The extent server implements the extent store. *)

\* What get and getattr say of inode i.
FileOf(i) ==
    LET content == Content(i)
    IN  [type |-> Attr(i).type, size |-> Attr(i).size,
         data |-> [k \in 1 .. Chunks(Attr(i).size) |-> content[k - 1]]]

Store == INSTANCE ExtentStore WITH
            Lost <- Junk, Cut <- Chunks,
            files <- [i \in Inums |-> FileOf(i)], alive <- status = "up"

\* Every operation on blocks and inodes is, to a caller of get and getattr, one
\* operation on a table of files: it replaces, adds or removes one file, leaves
\* all others as they were, and stops the process only over a damaged file.
StoreSpec == Store!Spec

-----------------------------------------------------------------------------
(* What the comments and tests of the code say, and the code does not do. *)

\* remove_file's comment asks for the data blocks and the inode to be freed:
\* no block would ever be in use without an inode that leads to it.
NoLeak == Leaked = {}

\* free_block asserts that the block it frees is in use.
AssertionHolds == status # "aborted"

\* The constructor leaves a root directory of inum 1 and goes on.
StartsServing == status # "exited"

=============================================================================
