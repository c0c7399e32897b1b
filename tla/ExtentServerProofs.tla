------------------------- MODULE ExtentServerProofs -------------------------
(***************************************************************************)
(* Invariance proofs for the extent server, for every disk size, block     *)
(* size, number of inodes and set of put sizes.                            *)
(*                                                                         *)
(* First IInv: no pointer dangles and no two lead to the same block.  Then *)
(* SInv: which pointers of an inode are set, from which follow that reads  *)
(* stay in bounds and that puts leak nothing.                              *)
(***************************************************************************)
EXTENDS ExtentServer, Counting, FiniteSetTheorems, TLAPS

-----------------------------------------------------------------------------
(* The layout of the disk. *)

\* The blocks of the inode table lie between block 0 and the data blocks, and
\* each inode has its own.
LEMMA LayoutFacts ==
    /\ NINDIRECT \in Nat \ {0} /\ MAXFILE \in Nat /\ MAXFILE = NDIRECT + NINDIRECT
    /\ NDIRECT \in Slots
    /\ 0 \in BlockIds /\ 0 \notin DataBlocks /\ DataBlocks \subseteq BlockIds
    /\ \A i \in InodeNums : IBLOCK(i) \in BlockIds /\ IBLOCK(i) \notin DataBlocks /\ IBLOCK(i) # 0
    /\ \A i, j \in InodeNums : IBLOCK(i) = IBLOCK(j) => i = j
<1> DEFINE K == BLOCK_NUM \div BPB
<1>1. BPB \in Nat \ {0}
  BY LayoutAssumption DEF BPB
<1>2. K \in Nat
  BY <1>1, LayoutAssumption
<1>3. \A i : IBLOCK(i) = K + i + 3
  BY DEF IBLOCK
<1>4. NINDIRECT \in Nat \ {0}
  BY LayoutAssumption DEF NINDIRECT
<1> HIDE DEF K
<1> QED
  BY <1>2, <1>3, <1>4, LayoutAssumption DEF MAXFILE, Slots, BlockIds, DataBlocks, InodeNums

\* The blocks of a file whose id came through Mask are in the inode table or
\* the file does not exist.
LEMMA MaskFacts ==
    ASSUME NEW id \in Ids PROVE Mask(id) \in Nat
BY IdAssumption, LayoutAssumption DEF Mask

\* A file that exists has its inode in the inode table.
LEMMA ExistsInTable ==
    ASSUME NEW i \in Nat, Exists(i) PROVE i \in InodeNums
BY LayoutAssumption DEF Exists, get_inode, ZeroInode, InodeNums

\* The candidates of the inode scan are numbers of the inode table.
LEMMA ToAllocRange ==
    ASSUME NEW k \in Nat, NEW last \in Nat PROVE to_alloc(k, last) \in InodeNums
<1> DEFINE x == (k + last) % UINT_LIMIT
<1>1. x \in Nat
  BY UintAssumption, LayoutAssumption
<1>2. x % INODE_NUM \in 0 .. INODE_NUM - 1
  BY <1>1, LayoutAssumption
<1> HIDE DEF x
<1>3. (IF x >= INODE_NUM THEN (x % INODE_NUM) + 1 ELSE x) \in InodeNums
  BY <1>1, <1>2, LayoutAssumption DEF InodeNums
<1> QED
  BY <1>3 DEF to_alloc, x

-----------------------------------------------------------------------------
(* Allocation. *)

\* alloc_block hands out free data blocks, or 0.
LEMMA AllocRange ==
    ASSUME NEW n PROVE alloc_block(n) \in FreeBlocks \cup {0}
BY DEF alloc_block

\* Two calls of one operation do not get the same block.
LEMMA AllocInjective ==
    ASSUME NEW m, NEW n, alloc_block(m) # 0, alloc_block(m) = alloc_block(n)
    PROVE  m = n
<1> DEFINE Place(b) == Cardinality({c \in FreeBlocks : c <= b})
           Nth(k) == {b \in FreeBlocks : Place(b) = k}
<1>1. \A k : alloc_block(k) = IF Nth(k) = {} THEN 0 ELSE CHOOSE b \in Nth(k) : TRUE
  BY DEF alloc_block
<1>2. \A k : alloc_block(k) # 0 => alloc_block(k) \in Nth(k)
  BY <1>1
<1>3. Place(alloc_block(m)) = m /\ Place(alloc_block(n)) = n
  BY <1>2
<1> QED
  BY <1>3

\* The slots that need a block are numbered without repetition.
LEMMA OrdinalInjective ==
    ASSUME NEW S \in SUBSET Slots, NEW s \in S, NEW t \in S,
           Cardinality({r \in S : r <= s}) = Cardinality({r \in S : r <= t})
    PROVE  s = t
<1> DEFINE Upto(x) == {r \in S : r <= x}
<1>1. \A x \in S, y \in S : x <= y /\ Cardinality(Upto(x)) = Cardinality(Upto(y)) => x = y
  <2> SUFFICES ASSUME NEW x \in S, NEW y \in S, x <= y,
                      Cardinality(Upto(x)) = Cardinality(Upto(y))
               PROVE  x = y
    OBVIOUS
  <2>1. S \subseteq Int /\ x \in Int /\ y \in Int
    BY DEF Slots
  <2>2. Upto(x) \in SUBSET Upto(y)
    <3>1. \A r \in S : r <= x => r <= y
      BY <2>1
    <3> QED
      BY <3>1
  <2>3. IsFiniteSet(Upto(y))
    <3>1. IsFiniteSet(Slots)
      BY FS_Interval, LayoutFacts DEF Slots
    <3>2. Upto(y) \in SUBSET Slots
      OBVIOUS
    <3> QED
      BY <3>1, <3>2, FS_Subset
  <2>4. Upto(x) = Upto(y)
    BY <2>2, <2>3, FS_Subset
  <2>5. y \in Upto(y)
    BY <2>1
  <2> QED
    BY <2>1, <2>4, <2>5
<1>2. s \in Int /\ t \in Int
  BY DEF Slots
<1> QED
  BY <1>1, <1>2

-----------------------------------------------------------------------------
(* Inodes and their pointers. *)

\* The inductive invariant.  That a pointer is in use, and so not free, is what
\* keeps alloc_block from handing the same block out again; that pointers are
\* distinct is what keeps a free from taking another file's block.
IInv == TypeOK /\ PointersInUse /\ NoSharing

\* The zeroed inode that alloc_inode starts from is an inode.
LEMMA ZeroInodeType == ZeroInode \in InodeRecord
BY LayoutFacts, LayoutAssumption DEF ZeroInode, InodeRecord

\* get_inode reads an inode, whatever the block of the table holds.
LEMMA InodeType ==
    ASSUME TypeOK, NEW i \in Nat PROVE get_inode(i) \in InodeRecord
<1>1. CASE i <= INODE_NUM /\ disk[IBLOCK(i)].kind = "inode"
  <2>1. IBLOCK(i) \in BlockIds
    BY <1>1, LayoutFacts DEF InodeNums
  <2>2. disk[IBLOCK(i)] \in Block
    BY <2>1 DEF TypeOK
  <2>3. disk[IBLOCK(i)].inode \in InodeRecord
    BY <1>1, <2>2 DEF Block, ZeroBlock
  <2> QED
    BY <1>1, <2>3 DEF get_inode
<1>2. CASE ~ (i <= INODE_NUM /\ disk[IBLOCK(i)].kind = "inode")
  BY <1>2, ZeroInodeType DEF get_inode
<1> QED
  BY <1>1, <1>2

\* What is read as an indirect block is an array of block ids.
LEMMA IdsType ==
    ASSUME TypeOK, NEW b \in BlockIds
    PROVE  IdsIn(b) \in [0 .. NINDIRECT - 1 -> BlockIds]
<1>1. disk[b] \in Block
  BY DEF TypeOK
<1>2. CASE disk[b].kind = "ids"
  BY <1>1, <1>2 DEF IdsIn, Block, ZeroBlock
<1>3. CASE disk[b].kind # "ids"
  BY <1>3, LayoutFacts DEF IdsIn
<1> QED
  BY <1>2, <1>3

\* The pointers of a file are block ids, one for each slot.
LEMMA PointersType ==
    ASSUME TypeOK, NEW i \in Nat PROVE Pointers(i) \in [Slots -> BlockIds]
<1>1. get_inode(i).blocks \in [0 .. NDIRECT -> BlockIds]
  BY InodeType DEF InodeRecord
<1>2. get_inode(i).blocks[NDIRECT] \in BlockIds
  BY <1>1, LayoutAssumption
<1>3. IdsIn(get_inode(i).blocks[NDIRECT]) \in [0 .. NINDIRECT - 1 -> BlockIds]
  BY <1>2, IdsType
<1>4. \A s \in Slots : s > NDIRECT => s - NDIRECT - 1 \in 0 .. NINDIRECT - 1
  BY LayoutFacts, LayoutAssumption DEF Slots
<1>5. \A s \in Slots : s <= NDIRECT => s \in 0 .. NDIRECT
  BY LayoutFacts, LayoutAssumption DEF Slots
<1>6. \A s \in Slots : s <= NDIRECT \/ s > NDIRECT
  BY LayoutFacts, LayoutAssumption DEF Slots
<1> QED
  BY <1>1, <1>3, <1>4, <1>5, <1>6, LayoutFacts DEF Pointers

\* NoSharing and PointersInUse without their local names.
LEMMA PointerFacts ==
    ASSUME IInv
    PROVE  /\ \A i \in InodeNums : \A s \in Slots :
                 Pointers(i)[s] \in using_blocks \cup {0}
           /\ \A i, j \in InodeNums : \A s, t \in Slots :
                 Pointers(i)[s] # 0 /\ Pointers(i)[s] = Pointers(j)[t] => i = j /\ s = t
BY DEF IInv, PointersInUse, NoSharing

\* An inode keeps its pointers when its own block, and the blocks it leads to,
\* are neither written nor freed.
LEMMA Frame ==
    ASSUME IInv, NEW j \in InodeNums,
           disk'[IBLOCK(j)] = disk[IBLOCK(j)],
           0 \notin using_blocks',
           \A t \in Slots : Pointers(j)[t] # 0 =>
               /\ Pointers(j)[t] \in using_blocks'
               /\ disk'[Pointers(j)[t]] = disk[Pointers(j)[t]]
    PROVE  Pointers(j)' = Pointers(j)
<1> DEFINE b == get_inode(j).blocks[NDIRECT]
<1>1. get_inode(j)' = get_inode(j)
  BY DEF get_inode
<1>2. NDIRECT \in Slots /\ NDIRECT <= NDIRECT
  BY LayoutFacts, LayoutAssumption
<1>3. Pointers(j)[NDIRECT] = b
  BY <1>2 DEF Pointers
<1>4. CASE b = 0
  <2>1. 0 \notin using_blocks
    BY LayoutFacts DEF IInv, TypeOK
  <2> QED
    BY <1>1, <1>4, <2>1 DEF Pointers, is_valid_block
<1>5. CASE b # 0
  <2>1. b \in using_blocks /\ b \in using_blocks'
    BY <1>2, <1>3, <1>5, PointerFacts
  <2>2. IdsIn(b)' = IdsIn(b)
    BY <1>1, <1>2, <1>3, <1>5 DEF IdsIn
  <2> QED
    BY <1>1, <2>1, <2>2 DEF Pointers, is_valid_block
<1> QED
  BY <1>4, <1>5

-----------------------------------------------------------------------------
(* write_file. *)

\* What the two filling loops leave: distinct data blocks, marked as used, none
\* of them another file's.
LEMMA FilledFacts ==
    ASSUME IInv, NEW i \in InodeNums, NEW size
    PROVE  /\ Filled(i, size) \in [Slots -> DataBlocks \cup {0}]
           /\ UsingAfterFill(i, size) \subseteq DataBlocks
           /\ using_blocks \subseteq UsingAfterFill(i, size)
           /\ \A s \in Slots : Filled(i, size)[s] \in UsingAfterFill(i, size) \cup {0}
           /\ \A s, t \in Slots :
                 Filled(i, size)[s] # 0 /\ Filled(i, size)[s] = Filled(i, size)[t] => s = t
           /\ \A j \in InodeNums : \A s, t \in Slots :
                 j # i /\ Pointers(j)[t] # 0 => Pointers(j)[t] # Filled(i, size)[s]
           /\ FreedByWrite(i, size) \subseteq Slots
<1> DEFINE M == Missing(i, size)
           F == Filled(i, size)
           Ord(s) == Cardinality({t \in M : t <= s})
<1>1. M \subseteq Slots
  BY DEF Missing, Written
<1>2. using_blocks \subseteq DataBlocks /\ 0 \notin DataBlocks
  BY LayoutFacts DEF IInv, TypeOK
<1>3. \A s \in Slots : F[s] = IF s \in M THEN alloc_block(Ord(s)) ELSE Pointers(i)[s]
  BY DEF Filled
<1>4. \A s \in M : F[s] \in FreeBlocks \cup {0}
  BY <1>1, <1>3, AllocRange
<1>5. \A s \in Slots \ M : F[s] = Pointers(i)[s] /\ F[s] \in using_blocks \cup {0}
  BY <1>3, PointerFacts
<1>6. \A b \in FreeBlocks : b \in DataBlocks /\ b \notin using_blocks
  BY DEF FreeBlocks
<1>7. F \in [Slots -> DataBlocks \cup {0}]
  <2>1. \A s \in Slots : F[s] \in DataBlocks \cup {0}
    BY <1>2, <1>4, <1>5, <1>6
  <2>2. F = [s \in Slots |-> F[s]]
    BY DEF Filled
  <2> HIDE DEF F
  <2> QED
    BY <2>1, <2>2
<1>8. UsingAfterFill(i, size) = using_blocks \cup ({F[s] : s \in M} \ {0})
  BY DEF UsingAfterFill
<1>9. UsingAfterFill(i, size) \subseteq DataBlocks
  BY <1>1, <1>2, <1>7, <1>8
<1>10. \A s \in Slots : F[s] \in UsingAfterFill(i, size) \cup {0}
  BY <1>5, <1>8
<1>11. ASSUME NEW s \in Slots, NEW t \in Slots, F[s] # 0, F[s] = F[t] PROVE s = t
  <2>1. CASE s \in M /\ t \in M
    <3>1. alloc_block(Ord(s)) # 0 /\ alloc_block(Ord(s)) = alloc_block(Ord(t))
      BY <1>3, <1>11, <2>1
    <3> HIDE DEF M
    <3>2. Ord(s) = Ord(t)
      BY <3>1, AllocInjective
    <3> QED
      BY <1>1, <2>1, <3>2, OrdinalInjective
  <2>2. CASE s \in M /\ t \notin M
    BY <1>4, <1>5, <1>6, <1>11, <2>2
  <2>3. CASE s \notin M /\ t \in M
    BY <1>4, <1>5, <1>6, <1>11, <2>3
  <2>4. CASE s \notin M /\ t \notin M
    BY <1>5, <1>11, <2>4, PointerFacts
  <2> QED
    BY <2>1, <2>2, <2>3, <2>4
<1>12. ASSUME NEW j \in InodeNums, NEW s \in Slots, NEW t \in Slots,
              j # i, Pointers(j)[t] # 0
       PROVE  Pointers(j)[t] # F[s]
  <2>1. Pointers(j)[t] \in using_blocks
    BY <1>12, PointerFacts
  <2>2. CASE s \in M
    BY <1>4, <1>6, <1>12, <2>1, <2>2
  <2>3. CASE s \notin M
    BY <1>5, <1>12, <2>3, PointerFacts
  <2> QED
    BY <2>2, <2>3
<1>13. FreedByWrite(i, size) \subseteq Slots
  BY LayoutFacts DEF FreedByWrite, FreedDirect, FreedIndirect
<1> HIDE DEF F, M
<1> QED
  BY <1>7, <1>8, <1>9, <1>10, <1>11, <1>12, <1>13 DEF F

\* The pieces of a string fit in blocks.
LEMMA LenRange ==
    ASSUME NEW size \in Nat, NEW k \in Nat, k < Chunks(size)
    PROVE  LenOf(size, k) \in 0 .. BLOCK_SIZE
<1> DEFINE q == (size - 1) \div BLOCK_SIZE
<1>1. size # 0 /\ k <= q /\ q \in Nat
  BY LayoutAssumption DEF Chunks, BlocksFor
<1>2. q * BLOCK_SIZE <= size - 1
  BY <1>1, LayoutAssumption
<1> HIDE DEF q
<1>3. k * BLOCK_SIZE <= q * BLOCK_SIZE
  BY <1>1, LayoutAssumption
<1>4. k * BLOCK_SIZE \in Nat /\ q * BLOCK_SIZE \in Nat
  BY <1>1, LayoutAssumption
<1>5. (k + 1) * BLOCK_SIZE = k * BLOCK_SIZE + BLOCK_SIZE
  BY LayoutAssumption
<1> QED
  BY <1>2, <1>3, <1>4, <1>5, LayoutAssumption DEF LenOf

\* A data slot that write_file fills takes a piece that a data block can hold.
LEMMA PieceType ==
    ASSUME NEW size \in Nat, NEW s \in Written(size) \ {NDIRECT}
    PROVE  /\ ChunkOf(s) \in 0 .. MAXFILE - 1
           /\ LenOf(size, ChunkOf(s)) \in 0 .. BLOCK_SIZE
<1>1. s \in Slots /\ s \in Nat /\ s # NDIRECT /\ s <= MAXFILE
  BY LayoutFacts DEF Written, Slots
<1>2. ChunkOf(s) \in 0 .. MAXFILE - 1
  BY <1>1, LayoutFacts, LayoutAssumption DEF ChunkOf
<1>3. Chunks(size) \in Nat
  BY LayoutAssumption DEF Chunks, BlocksFor
<1>4. ChunkOf(s) < Chunks(size)
  BY <1>1, <1>3, LayoutAssumption DEF ChunkOf, Written
<1> QED
  BY <1>2, <1>4, LenRange

\* What a completed write_file does to the pointers: those of other inodes stay
\* as they are, those of its own inode are 0 or what the loops filled in, and 0
\* when the block was freed.
LEMMA WritePointers ==
    ASSUME IInv, NEW i \in InodeNums, NEW size \in Sizes, NEW v \in Values,
           disk' = WriteDisk(i, size, v),
           using_blocks' = UsingAfterFill(i, size)
                           \ {Filled(i, size)[s] : s \in FreedByWrite(i, size)}
    PROVE  /\ \A j \in InodeNums : j # i => Pointers(j)' = Pointers(j)
           /\ \A s \in Slots : Pointers(i)'[s] \in {0, Kept(i, size)[s]}
<1> DEFINE F == Filled(i, size)
           D == FreedByWrite(i, size)
           W == Written(size)
           data == W \ {NDIRECT}
           last(b) == {s \in data : /\ F[s] = b /\ \A t \in data : F[t] = b => t <= s}
<1>1. ASSUME NEW b \in BlockIds, b # IBLOCK(i), \A s \in Slots : F[s] # b
      PROVE  disk'[b] = disk[b]
  <2>1. b \notin {F[s] : s \in D}
    BY <1>1, FilledFacts
  <2>2. ~ (NDIRECT \in W /\ b = F[NDIRECT])
    BY <1>1, LayoutFacts
  <2>3. last(b) = {}
    BY <1>1 DEF Written
  <2> QED
    BY <1>1, <2>1, <2>2, <2>3 DEF WriteDisk
<1>2. ASSUME NEW j \in InodeNums, j # i PROVE Pointers(j)' = Pointers(j)
  <2>1. disk'[IBLOCK(j)] = disk[IBLOCK(j)]
    <3>1. \A s \in Slots : F[s] \in DataBlocks \cup {0}
      BY FilledFacts
    <3>2. IBLOCK(j) \in BlockIds /\ IBLOCK(j) # IBLOCK(i) /\ \A s \in Slots : F[s] # IBLOCK(j)
      BY <1>2, <3>1, LayoutFacts
    <3> QED
      BY <1>1, <3>2
  <2>2. 0 \notin using_blocks'
    BY FilledFacts, LayoutFacts
  <2>3. ASSUME NEW t \in Slots, Pointers(j)[t] # 0
        PROVE  /\ Pointers(j)[t] \in using_blocks'
               /\ disk'[Pointers(j)[t]] = disk[Pointers(j)[t]]
    <3> DEFINE b == Pointers(j)[t]
    <3>1. b \in using_blocks /\ b \in DataBlocks
      BY <2>3, PointerFacts DEF IInv, TypeOK
    <3>2. \A s \in Slots : F[s] # b
      BY <1>2, <2>3, FilledFacts
    <3>3. b \in using_blocks'
      BY <3>1, <3>2, FilledFacts
    <3>4. b \in BlockIds /\ b # IBLOCK(i)
      BY <3>1, LayoutFacts
    <3> QED
      BY <1>1, <3>2, <3>3, <3>4
  <2> QED
    BY <2>1, <2>2, <2>3, Frame
<1>3. \A s \in Slots : Pointers(i)'[s] \in {0, Kept(i, size)[s]}
  <2> DEFINE K == Kept(i, size)
  <2>1. K \in [Slots -> DataBlocks \cup {0}] /\ \A s \in Slots : K[s] = IF s \in D THEN 0 ELSE F[s]
    BY FilledFacts DEF Kept
  <2>2. get_inode(i)'.blocks = [s \in 0 .. NDIRECT |-> K[s]]
    <3> DEFINE node == [get_inode(i) EXCEPT !.size = size,
                                            !.blocks = [s \in 0 .. NDIRECT |-> K[s]]]
    <3>1. disk'[IBLOCK(i)] = InodeBlock(node)
      BY LayoutFacts DEF WriteDisk
    <3>2. i <= INODE_NUM
      BY LayoutAssumption DEF InodeNums
    <3>3. get_inode(i)' = node
      BY <3>1, <3>2 DEF get_inode, InodeBlock
    <3>4. i \in Nat
      BY DEF InodeNums
    <3>5. get_inode(i) \in InodeRecord
      BY <3>4, InodeType DEF IInv
    <3> QED
      BY <3>3, <3>5 DEF InodeRecord
  <2>3. get_inode(i)'.blocks[NDIRECT] = K[NDIRECT]
    BY <2>2, LayoutAssumption
  <2>4. ASSUME NEW s \in Slots, s <= NDIRECT PROVE Pointers(i)'[s] = K[s]
    <3>1. s \in 0 .. NDIRECT
      BY <2>4 DEF Slots
    <3> QED
      BY <2>2, <2>4, <3>1 DEF Pointers
  <2>5. ASSUME NEW s \in Slots, ~ (s <= NDIRECT) PROVE Pointers(i)'[s] \in {0, K[s]}
    <3> DEFINE b == K[NDIRECT]
               newIds == IF disk'[b].kind = "ids" THEN disk'[b].ids
                         ELSE [k \in 0 .. NINDIRECT - 1 |-> 0]
    <3>1. CASE ~ is_valid_block(b, using_blocks')
      BY <2>3, <2>5, <3>1 DEF Pointers, is_valid_block
    <3>2. CASE is_valid_block(b, using_blocks')
      <4>1. b \in using_blocks' /\ b # 0
        BY <3>2, FilledFacts, LayoutFacts DEF is_valid_block
      <4>2. NDIRECT \in Slots /\ NDIRECT \notin D /\ b = F[NDIRECT]
        BY <2>1, <4>1, LayoutFacts
      <4>3. b \in BlockIds /\ b # IBLOCK(i) /\ b \notin {F[t] : t \in D}
        BY <2>1, <4>1, LayoutFacts
      <4>4. s - NDIRECT - 1 \in 0 .. NINDIRECT - 1 /\ NDIRECT + 1 + (s - NDIRECT - 1) = s
        BY <2>5, LayoutFacts, LayoutAssumption DEF Slots
      <4>5. Pointers(i)'[s] = newIds[s - NDIRECT - 1]
        BY <2>3, <2>5, <3>2 DEF Pointers, is_valid_block, IdsIn
      <4>6. CASE NDIRECT \in W
        <5>1. disk'[b] = IdsBlock([k \in 0 .. NINDIRECT - 1 |-> K[NDIRECT + 1 + k]])
          BY <4>2, <4>3, <4>6 DEF WriteDisk
        <5>2. newIds = [k \in 0 .. NINDIRECT - 1 |-> K[NDIRECT + 1 + k]]
          BY <5>1 DEF IdsBlock
        <5> QED
          BY <4>4, <4>5, <5>2
      <4>7. CASE NDIRECT \notin W
        <5>1. s \notin W /\ BlocksFor(size) <= NDIRECT
          BY <2>5, <4>7, LayoutFacts, LayoutAssumption DEF Written, Chunks, BlocksFor, Slots
        <5>2. s \notin D
          BY <2>5, <4>2, <5>1, LayoutAssumption
             DEF FreedByWrite, FreedDirect, FreedIndirect, Slots
        <5>3. K[s] = Pointers(i)[s] /\ b = Pointers(i)[NDIRECT]
          BY <2>1, <4>2, <4>7, <5>1, <5>2 DEF Filled, Missing
        <5>4. last(b) = {}
          BY <4>1, <4>2, FilledFacts DEF Written
        <5>5. disk'[b] = disk[b]
          BY <4>3, <4>7, <5>4 DEF WriteDisk
        <5>6. newIds = IdsIn(b)
          BY <5>5 DEF IdsIn
        <5>7. b = get_inode(i).blocks[NDIRECT] /\ b \in using_blocks /\ b < BLOCK_NUM
          <6>1. b = get_inode(i).blocks[NDIRECT]
            BY <4>2, <5>3, LayoutAssumption DEF Pointers
          <6>2. b \in using_blocks
            BY <4>1, <4>2, <5>3, PointerFacts
          <6> QED
            BY <4>3, <6>1, <6>2, LayoutAssumption DEF BlockIds
        <5>8. Pointers(i)[s] = IdsIn(b)[s - NDIRECT - 1]
          BY <2>5, <5>7 DEF Pointers, is_valid_block
        <5> QED
          BY <4>5, <5>3, <5>6, <5>8
      <4> QED
        BY <4>6, <4>7
    <3> QED
      BY <3>1, <3>2
  <2> QED
    BY <2>4, <2>5
<1> QED
  BY <1>2, <1>3

\* The disk that write_file leaves is a disk.
LEMMA WriteDiskType ==
    ASSUME IInv, NEW i \in InodeNums, NEW size \in Sizes, NEW v \in Values
    PROVE  WriteDisk(i, size, v) \in [BlockIds -> Block]
<1> DEFINE F == Filled(i, size)
           K == Kept(i, size)
           D == FreedByWrite(i, size)
           data == Written(size) \ {NDIRECT}
           last(b) == {s \in data : /\ F[s] = b /\ \A t \in data : F[t] = b => t <= s}
           piece(s) == [val |-> v, idx |-> ChunkOf(s), len |-> LenOf(size, ChunkOf(s))]
           node == [get_inode(i) EXCEPT !.size = size,
                                        !.blocks = [s \in 0 .. NDIRECT |-> K[s]]]
           ids == [k \in 0 .. NINDIRECT - 1 |-> K[NDIRECT + 1 + k]]
<1>1. \A s \in Slots : K[s] \in BlockIds
  BY FilledFacts, LayoutFacts DEF Kept
<1>2. InodeBlock(node) \in Block
  <2>1. i \in Nat
    BY DEF InodeNums
  <2>2. get_inode(i) \in InodeRecord
    BY <2>1, InodeType DEF IInv
  <2>3. [s \in 0 .. NDIRECT |-> K[s]] \in [0 .. NDIRECT -> BlockIds]
    BY <1>1, LayoutFacts, LayoutAssumption DEF Slots
  <2>4. node \in InodeRecord
    BY <2>2, <2>3 DEF InodeRecord
  <2> QED
    BY <2>4 DEF InodeBlock, Block
<1>3. IdsBlock(ids) \in Block
  <2>1. \A k \in 0 .. NINDIRECT - 1 : NDIRECT + 1 + k \in Slots
    BY LayoutFacts, LayoutAssumption DEF Slots
  <2>2. ids \in [0 .. NINDIRECT - 1 -> BlockIds]
    BY <1>1, <2>1
  <2> QED
    BY <2>2 DEF IdsBlock, Block
<1>4. ASSUME NEW s \in data PROVE DataBlock(piece(s)) \in Block
  <2>1. size \in Nat
    BY LayoutAssumption
  <2>2. piece(s) \in DataRecord
    BY <2>1, PieceType DEF DataRecord
  <2> QED
    BY <2>2 DEF DataBlock, Block
<1>5. ZeroBlock \in Block /\ \A b \in BlockIds : disk[b] \in Block
  BY DEF Block, IInv, TypeOK
<1>6. \A b \in BlockIds : last(b) # {} => DataBlock(piece(CHOOSE s \in last(b) : TRUE)) \in Block
  <2> SUFFICES ASSUME NEW b \in BlockIds, last(b) # {}
               PROVE  (CHOOSE s \in last(b) : TRUE) \in data
    BY <1>4
  <2>1. (CHOOSE s \in last(b) : TRUE) \in last(b)
    OBVIOUS
  <2> QED
    BY <2>1
<1>7. WriteDisk(i, size, v) =
        [b \in BlockIds |->
            IF b = IBLOCK(i) THEN InodeBlock(node)
            ELSE IF b \in {F[s] : s \in D} THEN ZeroBlock
            ELSE IF NDIRECT \in Written(size) /\ b = F[NDIRECT] THEN IdsBlock(ids)
            ELSE IF last(b) # {} THEN DataBlock(piece(CHOOSE s \in last(b) : TRUE))
            ELSE disk[b]]
  BY DEF WriteDisk
<1> HIDE DEF node, ids, piece, last, F, K, D
<1> QED
  BY <1>2, <1>3, <1>5, <1>6, <1>7

\* A step that changes at most the status.
LEMMA SameDisk ==
    ASSUME IInv, status' \in Statuses, UNCHANGED <<disk, using_blocks, last_alloced>>
    PROVE  IInv'
<1>1. TypeOK'
  BY DEF IInv, TypeOK
<1>2. \A j \in InodeNums : Pointers(j)' = Pointers(j)
  BY DEF Pointers, get_inode, IdsIn
<1>3. PointersInUse'
  BY <1>2 DEF IInv, PointersInUse
<1>4. NoSharing'
  BY <1>2, PointerFacts DEF NoSharing
<1> QED
  BY <1>1, <1>3, <1>4 DEF IInv

\* write_file keeps the invariant, whether it completes, aborts or overruns.
LEMMA WriteStep ==
    ASSUME IInv, status = "up",
           NEW i \in Nat, NEW size \in Sizes, NEW v \in Values, write_file(i, size, v)
    PROVE  IInv'
<1>1. CASE ~ Exists(i)
  BY <1>1, SameDisk DEF write_file, imVars, IInv, TypeOK
<1>2. CASE Exists(i) /\ status' # "up"
  <2>1. status' \in Statuses /\ UNCHANGED <<disk, using_blocks, last_alloced>>
    BY <1>2 DEF write_file, WriteStatus, Statuses
  <2> QED
    BY <2>1, SameDisk
<1>3. CASE Exists(i) /\ status' = "up"
  <2> DEFINE F == Filled(i, size)
             K == Kept(i, size)
             D == FreedByWrite(i, size)
  <2>1. i \in InodeNums
    BY <1>3, ExistsInTable
  <2>2. /\ disk' = WriteDisk(i, size, v)
        /\ using_blocks' = UsingAfterFill(i, size) \ {F[s] : s \in D}
        /\ last_alloced' = last_alloced
    BY <1>3 DEF write_file
  <2>3. TypeOK'
    <3>1. disk' \in [BlockIds -> Block]
      BY <2>1, <2>2, WriteDiskType
    <3>2. using_blocks' \in SUBSET DataBlocks
      BY <2>1, <2>2, FilledFacts
    <3>3. status' \in Statuses
      BY <1>3 DEF Statuses
    <3> QED
      BY <2>2, <3>1, <3>2, <3>3 DEF TypeOK, IInv
  <2>4. \A j \in InodeNums : j # i => Pointers(j)' = Pointers(j)
    BY <2>1, <2>2, WritePointers
  <2>5. \A s \in Slots : Pointers(i)'[s] # 0 => s \notin D /\ Pointers(i)'[s] = F[s]
    <3>1. \A s \in Slots : Pointers(i)'[s] \in {0, K[s]}
      BY <2>1, <2>2, WritePointers
    <3>2. \A s \in Slots : K[s] = IF s \in D THEN 0 ELSE F[s]
      BY DEF Kept
    <3> QED
      BY <3>1, <3>2
  <2>6. PointersInUse'
    <3>1. ASSUME NEW s \in Slots PROVE Pointers(i)'[s] \in using_blocks' \cup {0}
      <4>1. /\ F[s] \in UsingAfterFill(i, size) \cup {0} /\ D \subseteq Slots
            /\ \A t \in Slots : F[s] # 0 /\ F[s] = F[t] => s = t
        BY <2>1, FilledFacts
      <4> HIDE DEF F, D
      <4> QED
        BY <2>2, <2>5, <4>1
    <3>2. ASSUME NEW j \in InodeNums, j # i, NEW s \in Slots
          PROVE  Pointers(j)'[s] \in using_blocks' \cup {0}
      <4>1. Pointers(j)[s] \in using_blocks \cup {0}
        BY PointerFacts
      <4>2. using_blocks \subseteq UsingAfterFill(i, size) /\ D \subseteq Slots
        BY <2>1, FilledFacts
      <4>3. \A t \in Slots : Pointers(j)[s] # 0 => Pointers(j)[s] # F[t]
        BY <2>1, <3>2, FilledFacts
      <4>4. Pointers(j)'[s] = Pointers(j)[s]
        BY <2>4, <3>2
      <4> HIDE DEF F, D
      <4> QED
        BY <2>2, <4>1, <4>2, <4>3, <4>4
    <3> QED
      BY <3>1, <3>2 DEF PointersInUse
  <2>7. NoSharing'
    <3> SUFFICES ASSUME NEW j \in InodeNums, NEW k \in InodeNums,
                        NEW s \in Slots, NEW t \in Slots,
                        Pointers(j)'[s] # 0, Pointers(j)'[s] = Pointers(k)'[t]
                 PROVE  j = k /\ s = t
      BY DEF NoSharing
    <3>1. CASE j = i /\ k = i
      BY <2>1, <2>5, <3>1, FilledFacts
    <3>2. CASE j = i /\ k # i
      BY <2>1, <2>4, <2>5, <3>2, FilledFacts
    <3>3. CASE j # i /\ k = i
      BY <2>1, <2>4, <2>5, <3>3, FilledFacts
    <3>4. CASE j # i /\ k # i
      BY <2>4, <3>4, PointerFacts
    <3> QED
      BY <3>1, <3>2, <3>3, <3>4
  <2> QED
    BY <2>3, <2>6, <2>7 DEF IInv
<1> QED
  BY <1>1, <1>2, <1>3

-----------------------------------------------------------------------------
(* remove_file, alloc_inode, read_file and the constructor. *)

\* The frame of a step that writes only blocks that other inodes do not use.
LEMMA FrameOthers ==
    ASSUME IInv, NEW i \in InodeNums, NEW freed \in SUBSET using_blocks,
           \A j \in InodeNums : \A t \in Slots : j # i => Pointers(j)[t] \notin freed,
           using_blocks' = using_blocks \ freed,
           \A b \in BlockIds : b # IBLOCK(i) /\ b \notin freed => disk'[b] = disk[b]
    PROVE  \A j \in InodeNums : j # i => Pointers(j)' = Pointers(j)
<1> SUFFICES ASSUME NEW j \in InodeNums, j # i PROVE Pointers(j)' = Pointers(j)
  OBVIOUS
<1>1. using_blocks \subseteq DataBlocks
  BY DEF IInv, TypeOK
<1>2. disk'[IBLOCK(j)] = disk[IBLOCK(j)]
  BY <1>1, LayoutFacts
<1>3. 0 \notin using_blocks'
  BY <1>1, LayoutFacts
<1>4. ASSUME NEW t \in Slots, Pointers(j)[t] # 0
      PROVE  Pointers(j)[t] \in using_blocks' /\ disk'[Pointers(j)[t]] = disk[Pointers(j)[t]]
  <2>1. Pointers(j)[t] \in using_blocks /\ Pointers(j)[t] \notin freed
    BY <1>4, PointerFacts
  <2> QED
    BY <1>1, <2>1, LayoutFacts
<1> QED
  BY <1>2, <1>3, <1>4, Frame

\* An inode without pointers leaves every statement about pointers to the others.
LEMMA EmptyInode ==
    ASSUME IInv, NEW i \in InodeNums, NEW freed \in SUBSET using_blocks,
           \A j \in InodeNums : \A t \in Slots : j # i => Pointers(j)[t] \notin freed,
           using_blocks' = using_blocks \ freed,
           \A b \in BlockIds : b # IBLOCK(i) /\ b \notin freed => disk'[b] = disk[b],
           get_inode(i)'.blocks = ZeroInode.blocks
    PROVE  PointersInUse' /\ NoSharing'
<1>1. \A j \in InodeNums : j # i => Pointers(j)' = Pointers(j)
  BY FrameOthers
<1>2. \A s \in Slots : Pointers(i)'[s] = 0
  <2>1. \A s \in 0 .. NDIRECT : get_inode(i)'.blocks[s] = 0
    BY DEF ZeroInode
  <2>2. 0 \notin using_blocks'
    BY LayoutFacts DEF IInv, TypeOK
  <2>3. get_inode(i)'.blocks[NDIRECT] = 0
    BY <2>1, LayoutAssumption
  <2>4. \A s \in Slots : s <= NDIRECT => s \in 0 .. NDIRECT
    BY DEF Slots
  <2> QED
    BY <2>1, <2>2, <2>3, <2>4 DEF Pointers, is_valid_block
<1>3. PointersInUse'
  <2>1. ASSUME NEW j \in InodeNums, NEW s \in Slots
        PROVE  Pointers(j)'[s] \in using_blocks' \cup {0}
    BY <1>1, <1>2, PointerFacts
  <2> QED
    BY <2>1 DEF PointersInUse
<1>4. NoSharing'
  <2>1. ASSUME NEW j \in InodeNums, NEW k \in InodeNums, NEW s \in Slots, NEW t \in Slots,
               Pointers(j)'[s] # 0, Pointers(j)'[s] = Pointers(k)'[t]
        PROVE  j = k /\ s = t
    <3>1. j # i /\ k # i
      BY <1>2, <2>1
    <3> QED
      BY <1>1, <2>1, <3>1, PointerFacts
  <2> QED
    BY <2>1 DEF NoSharing
<1> QED
  BY <1>3, <1>4

\* remove_file frees blocks of its own file only, and clears the inode.
LEMMA RemoveStep ==
    ASSUME IInv, status = "up", NEW i \in Nat, remove_file(i) PROVE IInv'
<1>1. CASE ~ Exists(i)
  BY <1>1, SameDisk DEF remove_file, imVars, IInv, TypeOK
<1>2. CASE Exists(i) /\ status' # "up"
  BY <1>2, SameDisk DEF remove_file, Statuses
<1>3. CASE Exists(i) /\ status' = "up"
  <2> DEFINE freed == {Pointers(i)[s] : s \in FreedByRemove(i)}
  <2>1. i \in InodeNums
    BY <1>3, ExistsInTable
  <2>2. /\ freed \subseteq using_blocks
        /\ disk' = [b \in BlockIds |-> IF b \in freed \cup {IBLOCK(i)} THEN ZeroBlock ELSE disk[b]]
        /\ using_blocks' = using_blocks \ freed
        /\ last_alloced' = last_alloced
    BY <1>3 DEF remove_file
  <2>3. FreedByRemove(i) \subseteq Slots
    BY LayoutFacts, LayoutAssumption
       DEF FreedByRemove, RemovedDirect, RemovedIndirect, Slots
  <2>4. \A j \in InodeNums : \A t \in Slots : j # i => Pointers(j)[t] \notin freed
    <3>1. 0 \notin using_blocks
      BY LayoutFacts DEF IInv, TypeOK
    <3> QED
      BY <2>1, <2>2, <2>3, <3>1, PointerFacts
  <2>5. TypeOK'
    <3>1. disk' \in [BlockIds -> Block]
      BY <2>2 DEF IInv, TypeOK, Block
    <3> QED
      BY <1>3, <2>2, <3>1 DEF IInv, TypeOK, Statuses
  <2>6. get_inode(i)' = ZeroInode
    <3>1. disk'[IBLOCK(i)] = ZeroBlock
      BY <2>1, <2>2, LayoutFacts
    <3> QED
      BY <3>1 DEF get_inode, ZeroBlock
  <2>7. \A b \in BlockIds : b # IBLOCK(i) /\ b \notin freed => disk'[b] = disk[b]
    BY <2>2
  <2> HIDE DEF freed
  <2> QED
    BY <2>1, <2>2, <2>4, <2>5, <2>6, <2>7, EmptyInode DEF IInv
<1> QED
  BY <1>1, <1>2, <1>3

\* alloc_inode writes an inode without pointers.
LEMMA AllocStep ==
    ASSUME IInv, status = "up", NEW type \in NewTypes, alloc_inode(type) PROVE IInv'
<1>1. AllocInum \in InodeNums
  <2> DEFINE first == {k \in 1 .. INODE_NUM :
                         /\ ~ Exists(to_alloc(k, last_alloced))
                         /\ \A j \in 1 .. k - 1 : Exists(to_alloc(j, last_alloced))}
  <2>1. AllocInum = IF first = {} THEN 0 ELSE to_alloc(CHOOSE k \in first : TRUE, last_alloced)
    BY DEF AllocInum
  <2>2. last_alloced \in Nat
    BY DEF IInv, TypeOK
  <2>3. first # {} => (CHOOSE k \in first : TRUE) \in first
    OBVIOUS
  <2>4. \A k \in first : k \in Nat
    OBVIOUS
  <2> HIDE DEF first
  <2>5. first # {} => to_alloc(CHOOSE k \in first : TRUE, last_alloced) \in InodeNums
    BY <2>2, <2>3, <2>4, ToAllocRange
  <2>6. 0 \in InodeNums
    BY LayoutAssumption DEF InodeNums
  <2> QED
    BY <2>1, <2>5, <2>6
<1>2. CASE AllocInum = 0
  BY <1>2, SameDisk DEF alloc_inode, IInv, TypeOK
<1>3. CASE AllocInum # 0
  <2> DEFINE i == AllocInum
             node == [ZeroInode EXCEPT !.type = type]
  <2>1. /\ disk' = [disk EXCEPT ![IBLOCK(i)] = InodeBlock(node)]
        /\ last_alloced' = i /\ UNCHANGED <<using_blocks, status>>
    BY <1>3 DEF alloc_inode
  <2>2. node \in InodeRecord /\ node.blocks = ZeroInode.blocks
    BY ZeroInodeType, IdAssumption DEF InodeRecord, ZeroInode
  <2>3. disk \in [BlockIds -> Block] /\ IBLOCK(i) \in BlockIds
    BY <1>1, LayoutFacts DEF IInv, TypeOK
  <2>4. TypeOK'
    <3>1. InodeBlock(node) \in Block
      BY <2>2 DEF InodeBlock, Block
    <3> QED
      BY <1>1, <2>1, <2>3, <3>1 DEF IInv, TypeOK, InodeNums
  <2>5. PICK n \in InodeNums : n = i
    BY <1>1
  <2>6. get_inode(n)' = node
    <3>1. disk'[IBLOCK(n)] = InodeBlock(node)
      BY <2>1, <2>3, <2>5
    <3>2. n <= INODE_NUM
      BY LayoutAssumption DEF InodeNums
    <3> QED
      BY <3>1, <3>2 DEF get_inode, InodeBlock
  <2>7. \A b \in BlockIds : b # IBLOCK(n) => disk'[b] = disk[b]
    BY <2>1, <2>3, <2>5
  <2>8. using_blocks' = using_blocks \ {}
    BY <2>1
  <2> HIDE DEF node, i
  <2>9. PointersInUse' /\ NoSharing'
    <3> DEFINE freed == {}
    <3>1. /\ freed \in SUBSET using_blocks
          /\ using_blocks' = using_blocks \ freed
          /\ \A j \in InodeNums : \A t \in Slots : j # n => Pointers(j)[t] \notin freed
          /\ \A b \in BlockIds : b # IBLOCK(n) /\ b \notin freed => disk'[b] = disk[b]
      BY <2>7, <2>8
    <3>2. get_inode(n)'.blocks = ZeroInode.blocks
      BY <2>2, <2>6
    <3> HIDE DEF freed
    <3> QED
      BY <3>1, <3>2, EmptyInode
  <2> QED
    BY <2>4, <2>9 DEF IInv
<1> QED
  BY <1>2, <1>3

\* The constructor establishes the invariant whatever _last_alloced held.
LEMMA InitStep == ASSUME Init PROVE IInv
<1>1. PICK garbage \in 0 .. UINT_LIMIT - 1 :
        /\ disk = [b \in BlockIds |->
                      IF b = IBLOCK(to_alloc(1, garbage))
                      THEN InodeBlock([ZeroInode EXCEPT !.type = "T_DIR"]) ELSE ZeroBlock]
        /\ status = IF to_alloc(1, garbage) = 1 THEN "up" ELSE "exited"
  BY DEF Init, imInit
<1>2. using_blocks = {} /\ last_alloced = 0
  BY DEF Init, imInit
<1> DEFINE root == [ZeroInode EXCEPT !.type = "T_DIR"]
<1>3. root \in InodeRecord
  BY ZeroInodeType DEF InodeRecord, Types
<1>4. TypeOK
  <2>1. disk \in [BlockIds -> Block]
    BY <1>1, <1>3 DEF Block, InodeBlock
  <2>2. status \in Statuses
    BY <1>1 DEF Statuses
  <2> QED
    BY <1>2, <2>1, <2>2, LayoutAssumption DEF TypeOK
<1>5. ASSUME NEW i \in InodeNums, NEW s \in Slots PROVE Pointers(i)[s] = 0
  <2>1. disk[IBLOCK(i)] \in {InodeBlock(root), ZeroBlock}
    BY <1>1, LayoutFacts
  <2>2. get_inode(i).blocks = ZeroInode.blocks
    <3>1. root.blocks = ZeroInode.blocks
      BY DEF ZeroInode
    <3>2. get_inode(i) \in {root, ZeroInode}
      BY <2>1 DEF get_inode, InodeBlock, ZeroBlock
    <3> QED
      BY <3>1, <3>2
  <2>3. \A t \in 0 .. NDIRECT : get_inode(i).blocks[t] = 0
    BY <2>2 DEF ZeroInode
  <2>4. s <= NDIRECT => s \in 0 .. NDIRECT
    BY DEF Slots
  <2> QED
    BY <1>2, <2>3, <2>4 DEF Pointers, is_valid_block
<1>6. PointersInUse
  BY <1>5 DEF PointersInUse
<1>7. NoSharing
  BY <1>5 DEF NoSharing
<1> QED
  BY <1>4, <1>6, <1>7 DEF IInv

\* Every call of the extent server keeps the invariant.
LEMMA NextStep == ASSUME IInv, [Next]_imVars PROVE IInv'
<1>1. ASSUME NEW type \in NewTypes, create(type) PROVE IInv'
  BY <1>1, AllocStep DEF create
<1>2. ASSUME NEW id \in Ids, NEW size \in Sizes, NEW v \in Values, put(id, size, v)
      PROVE  IInv'
  BY <1>2, WriteStep, MaskFacts DEF put
<1>3. ASSUME NEW id \in Ids, get(id) PROVE IInv'
  BY <1>3, SameDisk DEF get, read_file, Statuses
<1>4. ASSUME NEW id \in Ids, getattr(id) PROVE IInv'
  BY <1>4, SameDisk DEF getattr, imVars, IInv, TypeOK
<1>5. ASSUME NEW id \in Ids, remove(id) PROVE IInv'
  BY <1>5, RemoveStep, MaskFacts DEF remove
<1>6. CASE UNCHANGED imVars
  BY <1>6, SameDisk DEF imVars, IInv, TypeOK
<1> QED
  BY <1>1, <1>2, <1>3, <1>4, <1>5, <1>6 DEF Next

-----------------------------------------------------------------------------
(* The theorems. *)

\* The blocks, the bitmap and the inodes keep their types, and only blocks of the
\* data region are ever marked as used, whatever sequence of calls is made.
THEOREM TypeCorrect == Spec => []TypeOK
<1>1. Init => IInv
  BY InitStep
<1>2. IInv /\ [Next]_imVars => IInv'
  BY NextStep
<1>3. IInv => TypeOK
  BY DEF IInv
<1> QED
  BY <1>1, <1>2, <1>3, PTL DEF Spec

\* No block is reachable by two pointers: files never overwrite, truncate or free
\* each other's blocks, for every disk geometry and every sequence of create,
\* put, get, getattr and remove, through full disks, shrinking puts and failed
\* allocations.
THEOREM BlocksNotShared == Spec => []NoSharing
<1>1. Init => IInv
  BY InitStep
<1>2. IInv /\ [Next]_imVars => IInv'
  BY NextStep
<1>3. IInv => NoSharing
  BY DEF IInv
<1> QED
  BY <1>1, <1>2, <1>3, PTL DEF Spec

\* No pointer of an inode or of an indirect block leads to a block that
\* alloc_block may hand out again.
THEOREM PointersStayInUse == Spec => []PointersInUse
<1>1. Init => IInv
  BY InitStep
<1>2. IInv /\ [Next]_imVars => IInv'
  BY NextStep
<1>3. IInv => PointersInUse
  BY DEF IInv
<1> QED
  BY <1>1, <1>2, <1>3, PTL DEF Spec

-----------------------------------------------------------------------------
(* The shape of a file: its pointers are set for a prefix of its slots. *)

\* The slots that a file of this size may use, the indirect block's included.
SlotsFor(size) == IF BlocksFor(size) <= NDIRECT THEN BlocksFor(size) ELSE BlocksFor(size) + 1

\* The pointers that are set come first, and none is past the size.  An inode
\* that does not exist is all zero.
Shaped(i) ==
    /\ ~ Exists(i) => get_inode(i) = ZeroInode
    /\ \A s, t \in Slots : t < s /\ Pointers(i)[s] # 0 => Pointers(i)[t] # 0
    /\ \A s \in Slots : Pointers(i)[s] # 0 => s < SlotsFor(get_inode(i).size)

\* The inductive invariant with the shape.
SInv ==
    /\ IInv
    /\ \A i \in InodeNums : Shaped(i)
    /\ status = "up" => ~ Exists(0)

\* A step leaves file j alone: its inode, its pointers and what they lead to.
Untouched(j) ==
    /\ get_inode(j)' = get_inode(j)
    /\ Pointers(j)' = Pointers(j)
    /\ \A t \in Slots : Pointers(j)[t] # 0 =>
          /\ Pointers(j)[t] \in using_blocks'
          /\ disk'[Pointers(j)[t]] = disk[Pointers(j)[t]]

-----------------------------------------------------------------------------
(* The scan of alloc_inode. *)

\* The scan has no candidate 0 and misses at most the last inode number.
LEMMA ScanCovers ==
    ASSUME NEW last \in 0 .. INODE_NUM
    PROVE  /\ \A k \in 1 .. INODE_NUM : to_alloc(k, last) \in Inums
           /\ \A i \in 1 .. INODE_NUM - 1 : \E k \in 1 .. INODE_NUM : to_alloc(k, last) = i
<1>1. INODE_NUM \in Nat /\ INODE_NUM > 0 /\ UINT_LIMIT \in Nat /\ UINT_LIMIT > 2 * INODE_NUM
  BY LayoutAssumption, UintAssumption
<1>2. ASSUME NEW x \in INODE_NUM .. 2 * INODE_NUM - 1 PROVE x % INODE_NUM = x - INODE_NUM
  <2>1. x = INODE_NUM * 1 + (x - INODE_NUM) /\ x - INODE_NUM \in 0 .. INODE_NUM - 1
    BY <1>1
  <2> QED
    BY <1>1, <2>1
<1>3. (2 * INODE_NUM) % INODE_NUM = 0
  BY <1>1
<1>4. ASSUME NEW k \in 1 .. INODE_NUM
      PROVE  to_alloc(k, last) = IF k + last < INODE_NUM THEN k + last
                                 ELSE ((k + last) % INODE_NUM) + 1
  <2>1. (k + last) % UINT_LIMIT = k + last
    BY <1>1
  <2> QED
    BY <1>1, <2>1 DEF to_alloc
<1>5. ASSUME NEW k \in 1 .. INODE_NUM
      PROVE  to_alloc(k, last) = IF k + last < INODE_NUM THEN k + last
                                 ELSE IF k + last < 2 * INODE_NUM THEN k + last - INODE_NUM + 1
                                 ELSE 1
  <2> DEFINE x == k + last
  <2>1. x \in 0 .. 2 * INODE_NUM
    BY <1>1
  <2>2. to_alloc(k, last) = IF x < INODE_NUM THEN x ELSE (x % INODE_NUM) + 1
    BY <1>4
  <2> HIDE DEF x
  <2>3. CASE x < INODE_NUM
    BY <2>2, <2>3 DEF x
  <2>4. CASE x \in INODE_NUM .. 2 * INODE_NUM - 1
    <3>1. x % INODE_NUM = x - INODE_NUM
      BY <1>2, <2>4
    <3>2. to_alloc(k, last) = x - INODE_NUM + 1
      BY <1>1, <2>2, <2>4, <3>1
    <3> QED
      BY <1>1, <2>4, <3>2 DEF x
  <2>5. CASE x = 2 * INODE_NUM
    <3>1. to_alloc(k, last) = 1
      BY <1>1, <1>3, <2>2, <2>5
    <3> QED
      BY <1>1, <2>5, <3>1 DEF x
  <2> QED
    BY <1>1, <2>1, <2>3, <2>4, <2>5
<1>6. \A k \in 1 .. INODE_NUM : to_alloc(k, last) \in Inums
  BY <1>1, <1>5 DEF Inums
<1>7. ASSUME NEW i \in 1 .. INODE_NUM - 1
      PROVE  \E k \in 1 .. INODE_NUM : to_alloc(k, last) = i
  <2>1. CASE i > last
    <3>1. i - last \in 1 .. INODE_NUM /\ to_alloc(i - last, last) = i
      BY <1>1, <1>5, <2>1
    <3> QED
      BY <3>1
  <2>2. CASE i <= last /\ i + INODE_NUM - 1 - last \in 1 .. INODE_NUM
    <3>1. to_alloc(i + INODE_NUM - 1 - last, last) = i
      BY <1>1, <1>5, <2>2
    <3> QED
      BY <2>2, <3>1
  <2>3. CASE i <= last /\ i + INODE_NUM - 1 - last < 1
    <3>1. last = INODE_NUM /\ i = 1
      BY <1>1, <2>3
    <3>2. to_alloc(INODE_NUM, last) = 1
      BY <1>1, <1>5, <3>1
    <3> QED
      BY <1>1, <3>1, <3>2
  <2> QED
    BY <1>1, <2>1, <2>2, <2>3
<1> QED
  BY <1>6, <1>7

\* alloc_inode returns the first candidate without an inode, and fails when all
\* candidates have one.
LEMMA AllocInumFacts ==
    ASSUME TypeOK
    PROVE  /\ AllocInum # 0 => AllocInum \in Inums /\ ~ Exists(AllocInum)
           /\ AllocInum = 0 => \A k \in 1 .. INODE_NUM : Exists(to_alloc(k, last_alloced))
<1> DEFINE Free == {k \in 1 .. INODE_NUM : ~ Exists(to_alloc(k, last_alloced))}
           first == {k \in 1 .. INODE_NUM :
                       /\ ~ Exists(to_alloc(k, last_alloced))
                       /\ \A j \in 1 .. k - 1 : Exists(to_alloc(j, last_alloced))}
<1>1. last_alloced \in 0 .. INODE_NUM /\ INODE_NUM \in Nat
  BY LayoutAssumption DEF TypeOK
<1>2. AllocInum = IF first = {} THEN 0 ELSE to_alloc(CHOOSE k \in first : TRUE, last_alloced)
  BY DEF AllocInum
<1>3. \A k \in first : to_alloc(k, last_alloced) \in Inums /\ ~ Exists(to_alloc(k, last_alloced))
  BY <1>1, ScanCovers
<1>4. first # {} => (CHOOSE k \in first : TRUE) \in first
  OBVIOUS
<1>5. 0 \notin Inums
  BY DEF Inums
<1>6. ASSUME Free # {} PROVE first # {}
  <2>1. IsFiniteSet(Free) /\ Free \in SUBSET Int
    <3>1. IsFiniteSet(1 .. INODE_NUM)
      BY <1>1, FS_Interval
    <3>2. Free \in SUBSET (1 .. INODE_NUM) /\ Free \in SUBSET Int
      OBVIOUS
    <3> HIDE DEF Free
    <3> QED
      BY <3>1, <3>2, FS_Subset
  <2>2. PICK m \in Free : \A c \in Free : m <= c
    BY <1>6, <2>1, LeastElement
  <2>3. \A j \in 1 .. m - 1 : j \in 1 .. INODE_NUM /\ ~ (m <= j)
    BY <1>1
  <2>4. m \in first
    BY <2>2, <2>3
  <2> QED
    BY <2>4
<1> HIDE DEF first
<1>7. AllocInum # 0 => AllocInum \in Inums /\ ~ Exists(AllocInum)
  BY <1>2, <1>3, <1>4
<1>8. AllocInum = 0 => first = {}
  BY <1>2, <1>3, <1>4, <1>5
<1> QED
  BY <1>6, <1>7, <1>8

\* The scan gives up only when it has met every inode but the last in use.
LEMMA ScanGivesUpLate == TypeOK => CreateUsesInodes
<1> SUFFICES ASSUME TypeOK, AllocInum = 0
             PROVE  Cardinality({i \in Inums : ~ Exists(i)}) <= 1
  BY DEF CreateUsesInodes
<1>1. last_alloced \in 0 .. INODE_NUM /\ INODE_NUM \in Nat
  BY LayoutAssumption DEF TypeOK
<1>2. \A i \in 1 .. INODE_NUM - 1 : Exists(i)
  BY <1>1, AllocInumFacts, ScanCovers
<1> DEFINE Left == {i \in Inums : ~ Exists(i)}
<1>3. Left \in SUBSET {INODE_NUM}
  BY <1>1, <1>2 DEF Inums
<1>4. IsFiniteSet({INODE_NUM}) /\ Cardinality({INODE_NUM}) = 1
  BY FS_Singleton
<1> HIDE DEF Left
<1>5. Cardinality(Left) <= 1
  BY <1>3, <1>4, FS_Subset
<1> QED
  BY <1>5 DEF Left

\* create gives up only when at most one inode is left, for every number of
\* inodes: 32-bit arithmetic never wraps in the scan, and the one number it may
\* skip is the last.
THEOREM ScanSkipsAtMostOne == Spec => []CreateUsesInodes
  BY ScanGivesUpLate, TypeCorrect, PTL

-----------------------------------------------------------------------------
(* Sizes, slots and allocation. *)

\* The block counts of a size, and the slots that write_file fills.
LEMMA SizeFacts ==
    ASSUME NEW size \in Nat
    PROVE  /\ BlocksFor(size) \in Nat /\ BlocksFor(size) >= 1
           /\ SlotsFor(size) \in Nat
           /\ Chunks(size) \in Nat
           /\ size = 0 => Chunks(size) = 0 /\ BlocksFor(size) = 1
           /\ size # 0 => Chunks(size) = BlocksFor(size)
           /\ \A s \in Slots : s \in Written(size) <=> size # 0 /\ s < SlotsFor(size)
<1>1. BlocksFor(size) \in Nat /\ BlocksFor(size) >= 1
  BY LayoutAssumption DEF BlocksFor
<1>2. Chunks(size) = IF size = 0 THEN 0 ELSE BlocksFor(size)
  BY DEF Chunks
<1>3. size = 0 => BlocksFor(size) = 1
  BY DEF BlocksFor
<1>4. NDIRECT \in Nat /\ NDIRECT >= 1
  BY LayoutAssumption
<1> QED
  BY <1>1, <1>2, <1>3, <1>4 DEF SlotsFor, Written, Slots

\* The size of an inode is a number.
LEMMA SizeType ==
    ASSUME TypeOK, NEW i \in InodeNums PROVE get_inode(i).size \in Nat
<1>1. i \in Nat
  BY DEF InodeNums
<1>2. get_inode(i) \in InodeRecord
  BY <1>1, InodeType
<1>3. get_inode(i).size \in Sizes \cup {0}
  BY <1>2 DEF InodeRecord
<1>4. Sizes \subseteq Nat /\ 0 \in Nat
  BY LayoutAssumption
<1> QED
  BY <1>3, <1>4

\* alloc_block succeeds as often as there are free blocks.
LEMMA AllocCount ==
    ASSUME NEW n \in Nat
    PROVE  /\ IsFiniteSet(FreeBlocks) /\ FreeBlocks \in SUBSET Int
           /\ Cardinality(FreeBlocks) \in Nat
           /\ alloc_block(n) # 0 <=> n \in 1 .. Cardinality(FreeBlocks)
           /\ alloc_block(n) # 0 => Rank(FreeBlocks, alloc_block(n)) = n
<1> DEFINE nth == {b \in FreeBlocks : Rank(FreeBlocks, b) = n}
<1>1. alloc_block(n) = IF nth = {} THEN 0 ELSE CHOOSE b \in nth : TRUE
  BY DEF alloc_block, Rank
<1>2. FreeBlocks \in SUBSET BlockIds /\ 0 \notin FreeBlocks
  BY LayoutFacts DEF FreeBlocks
<1>3. IsFiniteSet(FreeBlocks) /\ FreeBlocks \in SUBSET Int
  <2>1. IsFiniteSet(BlockIds) /\ BlockIds \subseteq Int
    BY LayoutAssumption, FS_Interval DEF BlockIds
  <2> QED
    BY <1>2, <2>1, FS_Subset
<1>4. nth # {} <=> n \in 1 .. Cardinality(FreeBlocks)
  <2>1. \A b \in FreeBlocks : Rank(FreeBlocks, b) \in 1 .. Cardinality(FreeBlocks)
    BY <1>3, RankFacts
  <2>2. n \in 1 .. Cardinality(FreeBlocks) => \E b \in FreeBlocks : Rank(FreeBlocks, b) = n
    BY <1>3, RankOnto
  <2> QED
    BY <2>1, <2>2
<1>5. nth # {} => (CHOOSE b \in nth : TRUE) \in nth
  OBVIOUS
<1>6. \A b \in nth : b # 0 /\ Rank(FreeBlocks, b) = n
  BY <1>2
<1>7. Cardinality(FreeBlocks) \in Nat
  BY <1>3, RankFacts
<1> HIDE DEF nth
<1> QED
  BY <1>1, <1>3, <1>4, <1>5, <1>6, <1>7

\* A pointer is set exactly when its block is valid; the missing slots of a put
\* are those that have none.
LEMMA MissingFacts ==
    ASSUME IInv, NEW i \in InodeNums, NEW size
    PROVE  /\ \A s \in Slots : Pointers(i)[s] # 0 <=> is_valid_block(Pointers(i)[s], using_blocks)
           /\ \A s \in Slots : s \in Missing(i, size) <=> s \in Written(size) /\ Pointers(i)[s] = 0
           /\ Missing(i, size) \in SUBSET Slots /\ Missing(i, size) \in SUBSET Int
           /\ IsFiniteSet(Missing(i, size))
<1>1. using_blocks \subseteq DataBlocks /\ 0 \notin using_blocks
  BY LayoutFacts DEF IInv, TypeOK
<1>2. \A b \in DataBlocks : b < BLOCK_NUM
  BY LayoutAssumption, LayoutFacts DEF BlockIds
<1>3. \A s \in Slots : Pointers(i)[s] # 0 <=> is_valid_block(Pointers(i)[s], using_blocks)
  BY <1>1, <1>2, PointerFacts DEF is_valid_block
<1>4. \A s \in Slots : s \in Missing(i, size) <=> s \in Written(size) /\ Pointers(i)[s] = 0
  BY <1>3 DEF Missing
<1>5. Missing(i, size) \in SUBSET Slots
  BY DEF Missing, Written
<1>6. IsFiniteSet(Slots) /\ Slots \subseteq Int
  BY LayoutFacts, FS_Interval DEF Slots
<1> QED
  BY <1>3, <1>4, <1>5, <1>6, FS_Subset

\* What the filling loops leave in a slot: a new block or 0 where there was none,
\* the old one elsewhere; and the set pointers are still a prefix.
LEMMA FillShape ==
    ASSUME IInv, NEW i \in InodeNums, NEW size \in Nat, Shaped(i)
    PROVE  /\ \A s \in Missing(i, size) :
                 Filled(i, size)[s] = alloc_block(Rank(Missing(i, size), s))
           /\ \A s \in Slots \ Missing(i, size) : Filled(i, size)[s] = Pointers(i)[s]
           /\ \A s, t \in Slots : t < s /\ Filled(i, size)[s] # 0 => Filled(i, size)[t] # 0
           /\ \A s \in Slots : Filled(i, size)[s] # 0 <=> s \in ValidAfterFill(i, size)
<1> DEFINE M == Missing(i, size)
           F == Filled(i, size)
<1>1. /\ \A s \in Slots : s \in M <=> s \in Written(size) /\ Pointers(i)[s] = 0
      /\ M \in SUBSET Slots /\ M \in SUBSET Int /\ IsFiniteSet(M)
  BY MissingFacts
<1>2. \A s \in M : F[s] = alloc_block(Rank(M, s))
  BY <1>1 DEF Filled, Rank
<1>3. \A s \in Slots \ M : F[s] = Pointers(i)[s]
  BY DEF Filled
<1> HIDE DEF M, F
<1>4. ASSUME NEW s \in Slots, NEW t \in Slots, t < s, F[s] # 0 PROVE F[t] # 0
  <2>1. CASE s \notin M
    <3>1. Pointers(i)[t] # 0
      BY <1>3, <1>4, <2>1 DEF Shaped
    <3> QED
      BY <1>1, <1>3, <3>1
  <2>2. CASE s \in M /\ t \notin M
    <3>1. t \in Written(size)
      BY <1>1, <1>4, <2>2, SizeFacts DEF Slots
    <3> QED
      BY <1>1, <1>3, <2>2, <3>1
  <2>3. CASE s \in M /\ t \in M
    <3>1. Rank(M, t) \in Nat /\ Rank(M, s) \in Nat /\ 1 <= Rank(M, t) /\ Rank(M, t) < Rank(M, s)
      BY <1>1, <1>4, <2>3, RankFacts
    <3> QED
      BY <1>2, <1>4, <2>3, <3>1, AllocCount
  <2> QED
    BY <2>1, <2>2, <2>3
<1>5. \A s \in Slots : F[s] # 0 <=> s \in ValidAfterFill(i, size)
  <2>1. /\ \A s \in Slots : F[s] \in UsingAfterFill(i, size) \cup {0}
        /\ UsingAfterFill(i, size) \subseteq DataBlocks
    BY FilledFacts DEF F
  <2>2. \A b \in DataBlocks : b < BLOCK_NUM /\ b # 0
    BY LayoutAssumption, LayoutFacts DEF BlockIds
  <2>3. \A s \in Slots : s \in ValidAfterFill(i, size) <=> is_valid_block(F[s], UsingAfterFill(i, size))
    BY DEF ValidAfterFill, F
  <2> QED
    BY <2>1, <2>2, <2>3 DEF is_valid_block
<1> QED
  BY <1>2, <1>3, <1>4, <1>5 DEF M, F

-----------------------------------------------------------------------------
(* write_file: the freeing loops, and the disk it leaves. *)

\* The freeing loops reach every pointer past the new size, though they stop at
\* the first slot that is not valid, and no pointer before it.
LEMMA KeptForm ==
    ASSUME IInv, NEW i \in InodeNums, NEW size \in Nat, Shaped(i)
    PROVE  /\ FreedByWrite(i, size) \subseteq Slots
           /\ \A s \in FreedByWrite(i, size) : SlotsFor(size) <= s
           /\ \A s \in Slots : SlotsFor(size) <= s /\ Filled(i, size)[s] # 0 => s \in FreedByWrite(i, size)
           /\ \A s \in Slots : Kept(i, size)[s] = IF s < SlotsFor(size) THEN Filled(i, size)[s] ELSE 0
<1> DEFINE F == Filled(i, size)
           D == FreedByWrite(i, size)
           nb == BlocksFor(size)
           ob == BlocksFor(get_inode(i).size)
           V == ValidAfterFill(i, size)
<1>1. /\ nb \in Nat /\ ob \in Nat /\ nb >= 1 /\ ob >= 1
      /\ SlotsFor(size) = IF nb <= NDIRECT THEN nb ELSE nb + 1
      /\ SlotsFor(get_inode(i).size) = IF ob <= NDIRECT THEN ob ELSE ob + 1
      /\ NDIRECT \in Nat /\ NDIRECT >= 1 /\ Slots \subseteq Nat
  BY SizeFacts, SizeType, LayoutAssumption DEF SlotsFor, IInv, Slots
<1>2. D \subseteq Slots
  BY FilledFacts
<1>3. ASSUME NEW s \in D PROVE SlotsFor(size) <= s
  <2>1. \/ nb <= s /\ s < NDIRECT
        \/ s > NDIRECT /\ nb <= ChunkOf(s)
        \/ s = NDIRECT /\ nb <= NDIRECT
    BY <1>3 DEF FreedByWrite, FreedDirect, FreedIndirect
  <2>2. s \in Nat
    BY <1>1, <1>2
  <2> HIDE DEF nb
  <2> QED
    BY <1>1, <2>1, <2>2 DEF ChunkOf
<1>4. ASSUME NEW s \in Slots, SlotsFor(size) <= s, F[s] # 0 PROVE s \in D
  <2>1. s \in Nat /\ \A t \in Slots : t <= s => t \in V
    BY <1>1, <1>4, FillShape
  <2>2. s \notin Missing(i, size) /\ Pointers(i)[s] # 0
    <3>1. s \notin Written(size)
      BY <1>1, <1>4, <2>1, SizeFacts, SMTT(30)
    <3> QED
      BY <1>4, <3>1, MissingFacts, FillShape
  <2>3. s < SlotsFor(get_inode(i).size)
    BY <2>2 DEF Shaped
  <2> HIDE DEF nb, ob, V
  <2>4. CASE s < NDIRECT
    <3>1. nb <= s /\ s < ob
      BY <1>1, <1>4, <2>1, <2>3, <2>4
    <3>2. nb .. s \subseteq V
      BY <1>1, <2>1, <2>4, LayoutFacts DEF Slots
    <3> QED
      BY <2>4, <3>1, <3>2 DEF FreedByWrite, FreedDirect, nb, ob, V
  <2>5. CASE s >= NDIRECT
    <3>1. ob > NDIRECT /\ s <= ob
      BY <1>1, <2>1, <2>3, <2>5
    <3>2. nb .. NDIRECT - 1 \subseteq V
      BY <1>1, <2>1, <2>5, LayoutFacts DEF Slots
    <3>3. FreesIndirect(i, size)
      BY <3>1, <3>2 DEF FreesIndirect, nb, ob, V
    <3>4. \/ s = NDIRECT /\ nb <= NDIRECT
          \/ s > NDIRECT /\ nb <= ChunkOf(s) /\ ChunkOf(s) < ob
      BY <1>1, <1>4, <2>1, <2>5, <3>1 DEF ChunkOf
    <3>5. s \in FreedIndirect(i, size)
      BY <3>4 DEF FreedIndirect, nb, ob
    <3> QED
      BY <3>3, <3>5 DEF FreedByWrite
  <2> QED
    BY <1>1, <2>1, <2>4, <2>5
<1>5. \A s \in Slots : Kept(i, size)[s] = IF s \in D THEN 0 ELSE F[s]
  BY DEF Kept
<1> HIDE DEF F, D
<1>6. \A s \in Slots : Kept(i, size)[s] = IF s < SlotsFor(size) THEN F[s] ELSE 0
  BY <1>1, <1>3, <1>4, <1>5, SizeFacts, SMTT(30)
<1> QED
  BY <1>2, <1>3, <1>4, <1>6 DEF F, D

\* The inode that write_file leaves.
NodeAfter(i, size) ==
    [get_inode(i) EXCEPT !.size = size, !.blocks = [s \in 0 .. NDIRECT |-> Kept(i, size)[s]]]

\* The disk that write_file leaves, block by block.
LEMMA WriteDiskAt ==
    ASSUME IInv, NEW i \in InodeNums, NEW size \in Nat, NEW v
    PROVE  /\ WriteDisk(i, size, v)[IBLOCK(i)] = InodeBlock(NodeAfter(i, size))
           /\ \A b \in BlockIds : b # IBLOCK(i) /\ (\A s \in Slots : Filled(i, size)[s] # b)
                 => WriteDisk(i, size, v)[b] = disk[b]
           /\ NDIRECT \in Written(size) \ FreedByWrite(i, size) /\ Filled(i, size)[NDIRECT] # 0
                 => WriteDisk(i, size, v)[Filled(i, size)[NDIRECT]] =
                       IdsBlock([k \in 0 .. NINDIRECT - 1 |-> Kept(i, size)[NDIRECT + 1 + k]])
           /\ \A s \in Written(size) \ FreedByWrite(i, size) :
                 s # NDIRECT /\ Filled(i, size)[s] # 0
                 => WriteDisk(i, size, v)[Filled(i, size)[s]] =
                       DataBlock([val |-> v, idx |-> ChunkOf(s), len |-> LenOf(size, ChunkOf(s))])
<1> DEFINE F == Filled(i, size)
           K == Kept(i, size)
           D == FreedByWrite(i, size)
           W == Written(size)
           data == W \ {NDIRECT}
           last(b) == {s \in data : /\ F[s] = b /\ \A t \in data : F[t] = b => t <= s}
           piece(s) == [val |-> v, idx |-> ChunkOf(s), len |-> LenOf(size, ChunkOf(s))]
           node == NodeAfter(i, size)
           ids == [k \in 0 .. NINDIRECT - 1 |-> K[NDIRECT + 1 + k]]
<1>1. WriteDisk(i, size, v) =
        [b \in BlockIds |->
            IF b = IBLOCK(i) THEN InodeBlock(node)
            ELSE IF b \in {F[s] : s \in D} THEN ZeroBlock
            ELSE IF NDIRECT \in W /\ b = F[NDIRECT] THEN IdsBlock(ids)
            ELSE IF last(b) # {} THEN DataBlock(piece(CHOOSE s \in last(b) : TRUE))
            ELSE disk[b]]
  BY DEF WriteDisk, NodeAfter
<1>2. /\ IBLOCK(i) \in BlockIds /\ NDIRECT \in Slots /\ W \subseteq Slots /\ D \subseteq Slots
      /\ \A s \in Slots : F[s] # 0 => F[s] \in BlockIds /\ F[s] # IBLOCK(i)
      /\ \A s, t \in Slots : F[s] # 0 /\ F[s] = F[t] => s = t
  BY FilledFacts, LayoutFacts DEF Written
<1>3. ASSUME NEW s \in data, F[s] # 0 PROVE last(F[s]) = {s}
  <2>1. \A t \in data : F[t] = F[s] => t = s
    BY <1>2, <1>3
  <2>2. s <= s
    BY <1>2 DEF Slots
  <2> HIDE DEF F, data
  <2> QED
    BY <2>1, <2>2
<1>4. ASSUME NEW b \in BlockIds, \A s \in Slots : F[s] # b PROVE last(b) = {} /\ b \notin {F[s] : s \in D}
  BY <1>2, <1>4
<1> HIDE DEF F, K, D, W, last, piece, node, ids
<1>5. WriteDisk(i, size, v)[IBLOCK(i)] = InodeBlock(node)
  BY <1>1, <1>2
<1>6. ASSUME NEW b \in BlockIds, b # IBLOCK(i), \A s \in Slots : F[s] # b
      PROVE  WriteDisk(i, size, v)[b] = disk[b]
  BY <1>1, <1>2, <1>4, <1>6
<1>7. ASSUME NDIRECT \in W \ D, F[NDIRECT] # 0
      PROVE  WriteDisk(i, size, v)[F[NDIRECT]] = IdsBlock(ids)
  <2>1. F[NDIRECT] \notin {F[s] : s \in D}
    BY <1>2, <1>7
  <2> QED
    BY <1>1, <1>2, <1>7, <2>1
<1>8. ASSUME NEW s \in W \ D, s # NDIRECT, F[s] # 0
      PROVE  WriteDisk(i, size, v)[F[s]] = DataBlock(piece(s))
  <2>1. F[s] \notin {F[t] : t \in D} /\ F[s] # F[NDIRECT] /\ F[s] \in BlockIds /\ F[s] # IBLOCK(i)
    BY <1>2, <1>8
  <2>2. last(F[s]) = {s}
    BY <1>3, <1>8 DEF data
  <2>3. (CHOOSE t \in {s} : TRUE) = s
    OBVIOUS
  <2> QED
    BY <1>1, <2>1, <2>2, <2>3
<1> QED
  BY <1>5, <1>6, <1>7, <1>8 DEF F, K, D, W, piece, node, ids

\* What a completed put leaves: its inode with the new size and exactly the
\* pointers kept; the other inodes, and the blocks they lead to, untouched.
LEMMA WriteFacts ==
    ASSUME IInv, NEW i \in InodeNums, NEW size \in Sizes, NEW v \in Values, Shaped(i),
           disk' = WriteDisk(i, size, v),
           using_blocks' = UsingAfterFill(i, size)
                           \ {Filled(i, size)[s] : s \in FreedByWrite(i, size)}
    PROVE  /\ get_inode(i)' = NodeAfter(i, size)
           /\ \A s \in Slots : Pointers(i)'[s] = Kept(i, size)[s]
           /\ \A s \in Slots : Kept(i, size)[s] # 0 => is_valid_block(Kept(i, size)[s], using_blocks')
           /\ \A j \in InodeNums : j # i => Untouched(j)
<1> DEFINE F == Filled(i, size)
           K == Kept(i, size)
           D == FreedByWrite(i, size)
           node == NodeAfter(i, size)
<1>1. size \in Nat /\ i \in Nat /\ i <= INODE_NUM /\ NDIRECT \in Nat /\ NDIRECT >= 1
  <2>1. Sizes \subseteq Nat
    BY LayoutAssumption
  <2>2. i \in Nat /\ i <= INODE_NUM
    BY LayoutAssumption DEF InodeNums
  <2>3. NDIRECT \in Nat /\ NDIRECT >= 1
    BY LayoutAssumption
  <2> QED
    BY <2>1, <2>2, <2>3
<1>2. /\ D \subseteq Slots /\ (\A s \in D : SlotsFor(size) <= s)
      /\ \A s \in Slots : K[s] = IF s < SlotsFor(size) THEN F[s] ELSE 0
  BY <1>1, KeptForm
<1>3. /\ F \in [Slots -> DataBlocks \cup {0}] /\ UsingAfterFill(i, size) \subseteq DataBlocks
      /\ using_blocks \subseteq UsingAfterFill(i, size)
      /\ \A s \in Slots : F[s] \in UsingAfterFill(i, size) \cup {0}
      /\ \A s, t \in Slots : F[s] # 0 /\ F[s] = F[t] => s = t
      /\ \A j \in InodeNums : \A s, t \in Slots : j # i /\ Pointers(j)[t] # 0 => Pointers(j)[t] # F[s]
  BY FilledFacts
<1>4. \A b \in DataBlocks : b \in BlockIds /\ b < BLOCK_NUM /\ b # 0 /\ \A j \in InodeNums : b # IBLOCK(j)
  BY LayoutFacts, LayoutAssumption DEF BlockIds
<1>5. Slots \subseteq Nat /\ SlotsFor(size) \in Nat /\ NDIRECT \in Slots
  BY <1>1, SizeFacts, LayoutFacts DEF Slots
<1>0. /\ disk'[IBLOCK(i)] = InodeBlock(node)
      /\ \A b \in BlockIds : b # IBLOCK(i) /\ (\A s \in Slots : F[s] # b) => disk'[b] = disk[b]
      /\ NDIRECT \in Written(size) \ D /\ F[NDIRECT] # 0
            => disk'[F[NDIRECT]] = IdsBlock([k \in 0 .. NINDIRECT - 1 |-> K[NDIRECT + 1 + k]])
  <2> DEFINE w == WriteDisk(i, size, v)
             ids == [k \in 0 .. NINDIRECT - 1 |-> K[NDIRECT + 1 + k]]
  <2>1. w[IBLOCK(i)] = InodeBlock(node)
    BY <1>1, WriteDiskAt, Zenon
  <2>2. \A b \in BlockIds : b # IBLOCK(i) /\ (\A s \in Slots : F[s] # b) => w[b] = disk[b]
    <3> SUFFICES ASSUME NEW b \in BlockIds, b # IBLOCK(i), \A s \in Slots : F[s] # b
                 PROVE  w[b] = disk[b]
      OBVIOUS
    <3> QED
      BY <1>1, WriteDiskAt, ZenonT(60)
  <2>3. NDIRECT \in Written(size) \ D /\ F[NDIRECT] # 0 => w[F[NDIRECT]] = IdsBlock(ids)
    BY <1>1, WriteDiskAt, Zenon
  <2>4. disk' = w
    OBVIOUS
  <2> HIDE DEF w, F, K, D, node, ids
  <2>5. /\ disk'[IBLOCK(i)] = InodeBlock(node)
        /\ \A b \in BlockIds : b # IBLOCK(i) /\ (\A s \in Slots : F[s] # b) => disk'[b] = disk[b]
        /\ NDIRECT \in Written(size) \ D /\ F[NDIRECT] # 0 => disk'[F[NDIRECT]] = IdsBlock(ids)
    BY <2>1, <2>2, <2>3, <2>4
  <2> QED
    BY <2>5 DEF ids
<1>6. get_inode(i)' = node
  BY <1>0, <1>1 DEF get_inode, InodeBlock
<1>7. get_inode(i)'.blocks = [s \in 0 .. NDIRECT |-> K[s]]
  <2>1. get_inode(i) \in InodeRecord
    BY <1>1, InodeType DEF IInv
  <2> QED
    BY <1>6, <2>1 DEF InodeRecord, NodeAfter
<1>8. \A s \in Slots : s <= NDIRECT => Pointers(i)'[s] = K[s] /\ get_inode(i)'.blocks[s] = K[s]
  <2>1. \A s \in Slots : s <= NDIRECT => s \in 0 .. NDIRECT
    BY <1>1 DEF Slots
  <2>2. \A s \in Slots : s <= NDIRECT => get_inode(i)'.blocks[s] = K[s]
    <3> HIDE DEF K
    <3> QED
      BY <1>7, <2>1
  <2>3. ASSUME NEW s \in Slots, s <= NDIRECT PROVE Pointers(i)'[s] = get_inode(i)'.blocks[s]
    BY <2>3 DEF Pointers
  <2> HIDE DEF K
  <2> QED
    BY <2>2, <2>3
<1>9. \A s \in Slots : K[s] # 0 => s < SlotsFor(size) /\ s \notin D /\ K[s] = F[s]
  <2> HIDE DEF F, K, D
  <2> QED
    BY <1>2, <1>5
<1>10. \A s \in Slots : K[s] # 0 => is_valid_block(K[s], using_blocks')
  <2>1. ASSUME NEW s \in Slots, K[s] # 0 PROVE is_valid_block(K[s], using_blocks')
    <3>1. K[s] = F[s] /\ s \notin D
      BY <1>9, <2>1
    <3>2. F[s] \in UsingAfterFill(i, size) /\ F[s] < BLOCK_NUM
      BY <1>3, <1>4, <2>1, <3>1
    <3>3. F[s] \notin {F[t] : t \in D}
      BY <1>2, <1>3, <2>1, <3>1
    <3> HIDE DEF F, K, D
    <3> QED
      BY <3>1, <3>2, <3>3 DEF is_valid_block, F, D
  <2> QED
    BY <2>1
<1>11. ASSUME NEW s \in Slots, ~ (s <= NDIRECT) PROVE Pointers(i)'[s] = K[s]
  <2> DEFINE b == K[NDIRECT]
             newIds == IF disk'[b].kind = "ids" THEN disk'[b].ids
                       ELSE [k \in 0 .. NINDIRECT - 1 |-> 0]
  <2>1. get_inode(i)'.blocks[NDIRECT] = b
    BY <1>1, <1>5, <1>8
  <2>2. NDIRECT < s
    BY <1>1, <1>5, <1>11
  <2>3. CASE b = 0
    <3>1. K[s] = 0
      <4>1. CASE NDIRECT < SlotsFor(size)
        BY <1>1, <1>2, <1>5, <2>2, <2>3, <4>1, FillShape
      <4>2. CASE ~ (NDIRECT < SlotsFor(size))
        BY <1>1, <1>2, <1>5, <2>2, <4>2
      <4> QED
        BY <4>1, <4>2
    <3>2. 0 \notin using_blocks'
      BY <1>3, <1>4
    <3> QED
      BY <1>11, <2>1, <2>3, <3>1, <3>2 DEF Pointers, is_valid_block
  <2>4. CASE b # 0
    <3>1. NDIRECT < SlotsFor(size) /\ NDIRECT \notin D /\ b = F[NDIRECT]
      BY <1>5, <1>9, <2>4
    <3>2. NDIRECT \in Written(size)
      BY <1>1, <1>5, <3>1, SizeFacts DEF SlotsFor
    <3>3. disk'[b] = IdsBlock([k \in 0 .. NINDIRECT - 1 |-> K[NDIRECT + 1 + k]])
      BY <1>0, <2>4, <3>1, <3>2
    <3>4. newIds = [k \in 0 .. NINDIRECT - 1 |-> K[NDIRECT + 1 + k]]
      BY <3>3 DEF IdsBlock
    <3>5. s - NDIRECT - 1 \in 0 .. NINDIRECT - 1 /\ NDIRECT + 1 + (s - NDIRECT - 1) = s
      BY <2>2, LayoutFacts, LayoutAssumption DEF Slots
    <3>6. is_valid_block(b, using_blocks')
      BY <1>5, <1>10, <2>4
    <3>7. Pointers(i)'[s] = newIds[s - NDIRECT - 1]
      BY <1>11, <2>1, <3>6 DEF Pointers, is_valid_block, IdsIn
    <3> HIDE DEF newIds, K
    <3> QED
      BY <3>4, <3>5, <3>7
  <2> QED
    BY <2>3, <2>4
<1>12. ASSUME NEW j \in InodeNums, j # i
       PROVE  /\ get_inode(j)' = get_inode(j)
              /\ \A t \in Slots : Pointers(j)[t] # 0 =>
                    /\ Pointers(j)[t] \in using_blocks'
                    /\ disk'[Pointers(j)[t]] = disk[Pointers(j)[t]]
  <2>1. disk'[IBLOCK(j)] = disk[IBLOCK(j)]
    <3>1. IBLOCK(j) \in BlockIds /\ IBLOCK(j) # IBLOCK(i) /\ \A s \in Slots : F[s] # IBLOCK(j)
      BY <1>3, <1>12, LayoutFacts
    <3> QED
      BY <1>0, <3>1
  <2>2. ASSUME NEW t \in Slots, Pointers(j)[t] # 0
        PROVE  Pointers(j)[t] \in using_blocks' /\ disk'[Pointers(j)[t]] = disk[Pointers(j)[t]]
    <3> DEFINE b == Pointers(j)[t]
    <3>1. b \in using_blocks /\ b \in DataBlocks
      BY <2>2, PointerFacts DEF IInv, TypeOK
    <3>2. \A s \in Slots : F[s] # b
      BY <1>3, <1>12, <2>2
    <3>3. b \in using_blocks'
      BY <1>2, <1>3, <3>1, <3>2
    <3>4. b \in BlockIds /\ b # IBLOCK(i)
      BY <1>4, <3>1
    <3> QED
      BY <1>0, <3>2, <3>3, <3>4
  <2> QED
    BY <2>1, <2>2 DEF get_inode
<1>13. \A j \in InodeNums : j # i => Pointers(j)' = Pointers(j)
  BY WritePointers
<1>14. \A s \in Slots : Pointers(i)'[s] = K[s]
  BY <1>8, <1>11
<1>15. \A j \in InodeNums : j # i => Untouched(j)
  BY <1>12, <1>13 DEF Untouched
<1> HIDE DEF K, node
<1> QED
  BY <1>6, <1>10, <1>14, <1>15 DEF K, node

-----------------------------------------------------------------------------
(* Every operation keeps the shape. *)

\* An inode that is left alone keeps its shape.
LEMMA ShapeFrame ==
    ASSUME NEW j, Shaped(j), Untouched(j)
    PROVE  Shaped(j)' /\ (Exists(j)' <=> Exists(j))
BY DEF Shaped, Exists, Untouched

\* write_file changes the size and the pointers of its inode, not the type.
LEMMA NodeAfterFacts ==
    ASSUME TypeOK, NEW i \in InodeNums, NEW size
    PROVE  /\ NodeAfter(i, size).type = get_inode(i).type
           /\ NodeAfter(i, size).size = size
<1>1. get_inode(i) \in InodeRecord
  BY InodeType DEF InodeNums
<1> QED
  BY <1>1 DEF InodeRecord, NodeAfter

\* A step that leaves the disk and the bitmap alone leaves every file alone.
LEMMA SameUntouched ==
    ASSUME IInv, UNCHANGED <<disk, using_blocks>> PROVE \A j \in InodeNums : Untouched(j)
<1>1. \A j : get_inode(j)' = get_inode(j) /\ Pointers(j)' = Pointers(j)
  BY DEF get_inode, Pointers, IdsIn
<1> QED
  BY <1>1, PointerFacts DEF Untouched

\* The steps that leave the disk and the bitmap alone.
LEMMA SameShape ==
    ASSUME SInv, UNCHANGED <<disk, using_blocks>>, status' = "up" => status = "up"
    PROVE  (\A j \in InodeNums : Shaped(j)') /\ (status' = "up" => ~ Exists(0)')
<1>1. \A j \in InodeNums : Untouched(j)
  BY SameUntouched DEF SInv
<1>2. 0 \in InodeNums
  BY LayoutAssumption DEF InodeNums
<1> QED
  BY <1>1, <1>2, ShapeFrame DEF SInv

\* write_file: the set pointers are a prefix cut at the new size.
LEMMA WriteShape ==
    ASSUME SInv, status = "up",
           NEW i \in Nat, NEW size \in Sizes, NEW v \in Values, write_file(i, size, v)
    PROVE  (\A j \in InodeNums : Shaped(j)') /\ (status' = "up" => ~ Exists(0)')
<1>1. CASE ~ Exists(i) \/ status' # "up"
  BY <1>1, SameShape DEF write_file, imVars
<1>2. CASE Exists(i) /\ status' = "up"
  <2>1. i \in InodeNums /\ IInv /\ TypeOK /\ Shaped(i) /\ size \in Nat
    <3>1. Sizes \subseteq Nat
      BY LayoutAssumption
    <3> QED
      BY <1>2, <3>1, ExistsInTable DEF SInv, IInv
  <2>2. /\ disk' = WriteDisk(i, size, v)
        /\ using_blocks' = UsingAfterFill(i, size)
                           \ {Filled(i, size)[s] : s \in FreedByWrite(i, size)}
    BY <1>2 DEF write_file
  <2>3. /\ get_inode(i)' = NodeAfter(i, size)
        /\ \A s \in Slots : Pointers(i)'[s] = Kept(i, size)[s]
        /\ \A j \in InodeNums : j # i => Untouched(j)
    BY <2>1, <2>2, WriteFacts, Zenon
  <2>4. \A j \in InodeNums : j # i => Shaped(j)' /\ (Exists(j)' <=> Exists(j))
    BY <2>3, ShapeFrame DEF SInv
  <2>5. get_inode(i)'.type = get_inode(i).type /\ get_inode(i)'.size = size
    BY <2>1, <2>3, NodeAfterFacts
  <2>6. Exists(i)'
    BY <1>2, <2>5 DEF Exists
  <2>7. \A s \in Slots : Pointers(i)'[s] = IF s < SlotsFor(size) THEN Filled(i, size)[s] ELSE 0
    BY <2>1, <2>3, KeptForm
  <2>8. /\ \A s, t \in Slots : t < s /\ Filled(i, size)[s] # 0 => Filled(i, size)[t] # 0
        /\ Slots \subseteq Nat /\ SlotsFor(size) \in Nat
    <3>1. Slots \subseteq Nat
      BY DEF Slots
    <3>2. SlotsFor(size) \in Nat
      BY <2>1, SizeFacts
    <3>3. \A s, t \in Slots : t < s /\ Filled(i, size)[s] # 0 => Filled(i, size)[t] # 0
      BY <2>1, FillShape
    <3> QED
      BY <3>1, <3>2, <3>3
  <2>9. /\ \A s, t \in Slots : t < s /\ Pointers(i)'[s] # 0 => Pointers(i)'[t] # 0
        /\ \A s \in Slots : Pointers(i)'[s] # 0 => s < SlotsFor(size)
    BY <2>7, <2>8
  <2>10. SlotsFor(get_inode(i)'.size) = SlotsFor(size)
    BY <2>5
  <2>11. Shaped(i)'
    BY <2>6, <2>9, <2>10 DEF Shaped, SlotsFor, BlocksFor
  <2>12. i # 0
    BY <1>2 DEF SInv
  <2>13. 0 \in InodeNums
    BY LayoutAssumption DEF InodeNums
  <2> QED
    BY <2>4, <2>11, <2>12, <2>13 DEF SInv
<1> QED
  BY <1>1, <1>2

\* An inode that is written empty, while the blocks that are freed belong to no
\* other inode.
LEMMA EmptyShape ==
    ASSUME SInv, NEW i \in InodeNums, NEW freed \in SUBSET using_blocks,
           \A j \in InodeNums : \A t \in Slots : j # i => Pointers(j)[t] \notin freed,
           using_blocks' = using_blocks \ freed,
           \A b \in BlockIds : b # IBLOCK(i) /\ b \notin freed => disk'[b] = disk[b],
           get_inode(i)'.blocks = ZeroInode.blocks,
           ~ Exists(i)' => get_inode(i)' = ZeroInode
    PROVE  /\ \A j \in InodeNums : Shaped(j)'
           /\ \A j \in InodeNums : j # i => Untouched(j)
           /\ \A s \in Slots : Pointers(i)'[s] = 0
<1>1. \A j \in InodeNums : j # i => Pointers(j)' = Pointers(j)
  BY FrameOthers DEF SInv
<1>2. using_blocks \subseteq DataBlocks /\ 0 \notin using_blocks'
  BY LayoutFacts DEF SInv, IInv, TypeOK
<1>3. \A j \in InodeNums : j # i => get_inode(j)' = get_inode(j)
  <2>1. \A j \in InodeNums : j # i => disk'[IBLOCK(j)] = disk[IBLOCK(j)]
    BY <1>2, LayoutFacts
  <2> QED
    BY <2>1 DEF get_inode
<1>4. ASSUME NEW j \in InodeNums, j # i, NEW t \in Slots, Pointers(j)[t] # 0
      PROVE  Pointers(j)[t] \in using_blocks' /\ disk'[Pointers(j)[t]] = disk[Pointers(j)[t]]
  <2>1. Pointers(j)[t] \in using_blocks /\ Pointers(j)[t] \notin freed
    BY <1>4, PointerFacts DEF SInv
  <2>2. Pointers(j)[t] \in BlockIds /\ Pointers(j)[t] # IBLOCK(i)
    BY <1>2, <2>1, LayoutFacts
  <2> QED
    BY <2>1, <2>2
<1>5. \A j \in InodeNums : j # i => Untouched(j)
  BY <1>1, <1>3, <1>4 DEF Untouched
<1>6. \A s \in Slots : Pointers(i)'[s] = 0
  <2>1. \A s \in 0 .. NDIRECT : get_inode(i)'.blocks[s] = 0
    BY DEF ZeroInode
  <2>2. get_inode(i)'.blocks[NDIRECT] = 0
    BY <2>1, LayoutAssumption
  <2>3. \A s \in Slots : s <= NDIRECT => s \in 0 .. NDIRECT
    BY DEF Slots
  <2> QED
    BY <1>2, <2>1, <2>2, <2>3 DEF Pointers, is_valid_block
<1>7. Shaped(i)'
  BY <1>6 DEF Shaped
<1> QED
  BY <1>5, <1>6, <1>7, ShapeFrame DEF SInv

\* What a completed remove does: the inode is cleared, blocks of that file are
\* freed, and every other file is left alone.
LEMMA RemoveEffect ==
    ASSUME SInv, NEW i \in InodeNums, Exists(i), remove_file(i), status' = "up"
    PROVE  /\ get_inode(i)' = ZeroInode
           /\ \A j \in InodeNums : Shaped(j)'
           /\ \A j \in InodeNums : j # i => Untouched(j)
           /\ \A s \in Slots : Pointers(i)'[s] = 0
<1> DEFINE freed == {Pointers(i)[s] : s \in FreedByRemove(i)}
<1>1. /\ freed \subseteq using_blocks
      /\ disk' = [b \in BlockIds |-> IF b \in freed \cup {IBLOCK(i)} THEN ZeroBlock ELSE disk[b]]
      /\ using_blocks' = using_blocks \ freed
  BY DEF remove_file
<1>2. FreedByRemove(i) \subseteq Slots
  BY LayoutFacts, LayoutAssumption DEF FreedByRemove, RemovedDirect, RemovedIndirect, Slots
<1>3. \A j \in InodeNums : \A t \in Slots : j # i => Pointers(j)[t] \notin freed
  <2>1. 0 \notin using_blocks
    BY LayoutFacts DEF SInv, IInv, TypeOK
  <2> QED
    BY <1>1, <1>2, <2>1, PointerFacts DEF SInv
<1>4. get_inode(i)' = ZeroInode
  <2>1. disk'[IBLOCK(i)] = ZeroBlock
    BY <1>1, LayoutFacts
  <2> QED
    BY <2>1 DEF get_inode, ZeroBlock
<1>5. \A b \in BlockIds : b # IBLOCK(i) /\ b \notin freed => disk'[b] = disk[b]
  BY <1>1
<1> HIDE DEF freed
<1> QED
  BY <1>1, <1>3, <1>4, <1>5, EmptyShape

\* What a create does when it finds an inode.
LEMMA AllocEffect ==
    ASSUME SInv, NEW type \in NewTypes, alloc_inode(type), AllocInum # 0
    PROVE  /\ AllocInum \in Inums /\ ~ Exists(AllocInum)
           /\ \A j \in InodeNums : Shaped(j)'
           /\ \E i \in Inums :
                 /\ i = AllocInum
                 /\ get_inode(i)' = [ZeroInode EXCEPT !.type = type]
                 /\ \A j \in InodeNums : j # i => Untouched(j)
                 /\ \A s \in Slots : Pointers(i)'[s] = 0
<1> DEFINE node == [ZeroInode EXCEPT !.type = type]
<1>1. AllocInum \in Inums /\ ~ Exists(AllocInum)
  BY AllocInumFacts DEF SInv, IInv
<1>2. PICK i \in Inums : i = AllocInum
  BY <1>1
<1>3. i \in InodeNums /\ i <= INODE_NUM
  BY LayoutAssumption DEF Inums, InodeNums
<1>4. disk' = [disk EXCEPT ![IBLOCK(i)] = InodeBlock(node)] /\ using_blocks' = using_blocks
  BY <1>2 DEF alloc_inode
<1>5. node.blocks = ZeroInode.blocks /\ node.type # "0"
  BY IdAssumption DEF ZeroInode, Types
<1>6. disk \in [BlockIds -> Block] /\ IBLOCK(i) \in BlockIds
  BY <1>3, LayoutFacts DEF SInv, IInv, TypeOK
<1>7. get_inode(i)' = node
  <2>1. disk'[IBLOCK(i)] = InodeBlock(node)
    BY <1>4, <1>6
  <2> QED
    BY <1>3, <2>1 DEF get_inode, InodeBlock
<1>8. \A b \in BlockIds : b # IBLOCK(i) => disk'[b] = disk[b]
  BY <1>4, <1>6
<1>9. Exists(i)'
  BY <1>5, <1>7 DEF Exists
<1> HIDE DEF node
<1>10. /\ \A j \in InodeNums : Shaped(j)'
       /\ \A j \in InodeNums : j # i => Untouched(j)
       /\ \A s \in Slots : Pointers(i)'[s] = 0
  <2> DEFINE freed == {}
  <2>1. /\ freed \in SUBSET using_blocks /\ using_blocks' = using_blocks \ freed
        /\ \A j \in InodeNums : \A t \in Slots : j # i => Pointers(j)[t] \notin freed
        /\ \A b \in BlockIds : b # IBLOCK(i) /\ b \notin freed => disk'[b] = disk[b]
    BY <1>4, <1>8
  <2> HIDE DEF freed
  <2> QED
    BY <1>3, <1>5, <1>7, <1>9, <2>1, EmptyShape
<1> QED
  BY <1>1, <1>2, <1>7, <1>10 DEF node

\* The constructor leaves inodes without pointers, and number 0 without an inode
\* unless it exits.
LEMMA InitSInv == ASSUME Init PROVE SInv
<1>1. PICK garbage \in 0 .. UINT_LIMIT - 1 :
        /\ disk = [b \in BlockIds |->
                      IF b = IBLOCK(to_alloc(1, garbage))
                      THEN InodeBlock([ZeroInode EXCEPT !.type = "T_DIR"]) ELSE ZeroBlock]
        /\ status = IF to_alloc(1, garbage) = 1 THEN "up" ELSE "exited"
  BY DEF Init, imInit
<1> DEFINE root == [ZeroInode EXCEPT !.type = "T_DIR"]
<1>2. IInv /\ using_blocks = {}
  BY InitStep DEF Init, imInit
<1>3. to_alloc(1, garbage) \in InodeNums
  <2>1. garbage \in Nat /\ 1 \in Nat
    BY UintAssumption
  <2> QED
    BY <2>1, ToAllocRange
<1>4. ASSUME NEW i \in InodeNums
      PROVE  get_inode(i) = IF i = to_alloc(1, garbage) THEN root ELSE ZeroInode
  <2>1. IBLOCK(i) \in BlockIds /\ (IBLOCK(i) = IBLOCK(to_alloc(1, garbage)) => i = to_alloc(1, garbage))
    BY <1>3, LayoutFacts
  <2>2. i <= INODE_NUM
    BY LayoutAssumption DEF InodeNums
  <2>3. disk[IBLOCK(i)] = IF i = to_alloc(1, garbage) THEN InodeBlock(root) ELSE ZeroBlock
    BY <1>1, <2>1
  <2> QED
    BY <2>2, <2>3 DEF get_inode, InodeBlock, ZeroBlock
<1>5. root.blocks = ZeroInode.blocks /\ root.type = "T_DIR" /\ ZeroInode.type = "0"
  BY DEF ZeroInode
<1> HIDE DEF root
<1>6. ASSUME NEW i \in InodeNums PROVE Shaped(i)
  <2>1. get_inode(i).blocks = ZeroInode.blocks
    BY <1>4, <1>5
  <2>2. \A s \in 0 .. NDIRECT : get_inode(i).blocks[s] = 0
    BY <2>1 DEF ZeroInode
  <2>3. \A s \in Slots : s <= NDIRECT => s \in 0 .. NDIRECT
    BY DEF Slots
  <2>4. \A s \in Slots : Pointers(i)[s] = 0
    BY <1>2, <2>2, <2>3 DEF Pointers, is_valid_block
  <2>5. ~ Exists(i) => get_inode(i) = ZeroInode
    BY <1>4, <1>5 DEF Exists
  <2> QED
    BY <2>4, <2>5 DEF Shaped
<1>7. status = "up" => ~ Exists(0)
  <2>1. 0 \in InodeNums
    BY LayoutAssumption DEF InodeNums
  <2> QED
    BY <1>1, <1>4, <1>5, <2>1 DEF Exists
<1> QED
  BY <1>2, <1>6, <1>7 DEF SInv

\* Every step keeps the invariant.
LEMMA NextSInv == ASSUME SInv, [Next]_imVars PROVE SInv'
<1> DEFINE Goal == (\A j \in InodeNums : Shaped(j)') /\ (status' = "up" => ~ Exists(0)')
<1>1. IInv'
  BY NextStep DEF SInv
<1>2. ASSUME NEW type \in NewTypes, create(type) PROVE Goal
  <2>1. status = "up" /\ alloc_inode(type)
    BY <1>2 DEF create
  <2>2. CASE AllocInum = 0
    BY <2>1, <2>2, SameShape DEF alloc_inode
  <2>3. CASE AllocInum # 0
    <3>1. PICK i \in Inums : \A j \in InodeNums : j # i => Untouched(j)
      BY <2>1, <2>3, AllocEffect
    <3>2. 0 \in InodeNums /\ 0 # i
      BY LayoutAssumption DEF InodeNums, Inums
    <3>3. ~ Exists(0)'
      BY <2>1, <3>1, <3>2, ShapeFrame DEF SInv
    <3> QED
      BY <2>1, <2>3, <3>3, AllocEffect
  <2> QED
    BY <2>2, <2>3
<1>3. ASSUME NEW id \in Ids, NEW size \in Sizes, NEW v \in Values, put(id, size, v) PROVE Goal
  BY <1>3, WriteShape, MaskFacts DEF put
<1>4. ASSUME NEW id \in Ids, get(id) PROVE Goal
  BY <1>4, SameShape DEF get, read_file
<1>5. ASSUME NEW id \in Ids, remove(id) PROVE Goal
  <2> DEFINE i == Mask(id)
  <2>1. status = "up" /\ remove_file(i) /\ i \in Nat
    BY <1>5, MaskFacts DEF remove
  <2> HIDE DEF i
  <2>2. CASE ~ Exists(i) \/ status' # "up"
    BY <2>1, <2>2, SameShape DEF remove_file, imVars
  <2>3. CASE Exists(i) /\ status' = "up"
    <3>1. i \in InodeNums
      BY <2>1, <2>3, ExistsInTable
    <3>2. /\ \A j \in InodeNums : Shaped(j)'
          /\ \A j \in InodeNums : j # i => Untouched(j)
      BY <2>1, <2>3, <3>1, RemoveEffect
    <3>3. 0 \in InodeNums /\ 0 # i
      BY <2>1, <2>3, LayoutAssumption DEF InodeNums, SInv
    <3> QED
      BY <2>1, <3>2, <3>3, ShapeFrame DEF SInv
  <2> QED
    BY <2>2, <2>3
<1>6. ASSUME UNCHANGED imVars \/ \E id \in Ids : getattr(id) PROVE Goal
  <2>1. UNCHANGED <<disk, using_blocks, status>>
    BY <1>6 DEF imVars, getattr
  <2> QED
    BY <2>1, SameShape
<1> HIDE DEF Goal
<1>7. Goal
  BY <1>2, <1>3, <1>4, <1>5, <1>6 DEF Next
<1> QED
  BY <1>1, <1>7 DEF SInv, Goal

\* The inductive invariant holds.
LEMMA SInvHolds == Spec => []SInv
<1>1. Init => SInv
  BY InitSInv
<1>2. SInv /\ [Next]_imVars => SInv'
  BY NextSInv
<1> QED
  BY <1>1, <1>2, PTL DEF Spec

\* No inode has a valid direct pointer past its last block, so read_file, which
\* does not compare its loop with the size, stays within its buffer.
LEMMA ShapeInBounds ==
    ASSUME SInv, NEW i \in InodeNums PROVE ~ ReadOverruns(i)
<1> DEFINE n == BlocksFor(get_inode(i).size)
<1>1. n \in Nat /\ n >= 1 /\ SlotsFor(get_inode(i).size) = IF n <= NDIRECT THEN n ELSE n + 1
  BY SizeType, SizeFacts DEF SlotsFor, SInv, IInv
<1>2. NDIRECT \in Nat /\ MAXFILE \in Nat /\ NDIRECT <= MAXFILE
  BY LayoutFacts, LayoutAssumption
<1> HIDE DEF n
<1>3. ASSUME NEW s \in n .. NDIRECT - 1 PROVE ~ is_valid_block(Pointers(i)[s], using_blocks)
  <2>1. s \in Slots /\ ~ (s < SlotsFor(get_inode(i).size))
    BY <1>1, <1>2 DEF Slots
  <2>2. Pointers(i)[s] = 0
    BY <2>1 DEF SInv, Shaped
  <2> QED
    BY <2>1, <2>2, MissingFacts DEF SInv
<1>4. n - 1 + 1 = n
  BY <1>1
<1> QED
  BY <1>3, <1>4 DEF ReadOverruns, n

\* read_file never copies past the end of its buffer, for every geometry and
\* every history of the file.
THEOREM ReadsStayInBounds == Spec => []ReadInBounds
<1>1. SInv => ReadInBounds
  <2>1. Inums \subseteq InodeNums
    BY LayoutAssumption DEF Inums, InodeNums
  <2> QED
    BY <2>1, ShapeInBounds DEF ReadInBounds
<1> QED
  BY <1>1, SInvHolds, PTL

-----------------------------------------------------------------------------
(* Leaks. *)

\* The leaked blocks, element by element.
LEMMA LeakedIs ==
    \A b : b \in Leaked <=> /\ b \in using_blocks
                            /\ \A i \in Inums : \A s \in Slots : Pointers(i)[s] # b
BY DEF Leaked

\* The pointers of an inode without pointers.
LEMMA EmptyPointers ==
    ASSUME IInv, NEW i \in InodeNums, get_inode(i).blocks = ZeroInode.blocks
    PROVE  \A s \in Slots : Pointers(i)[s] = 0
<1>1. \A s \in 0 .. NDIRECT : get_inode(i).blocks[s] = 0
  BY DEF ZeroInode
<1>2. get_inode(i).blocks[NDIRECT] = 0
  BY <1>1, LayoutAssumption
<1>3. \A s \in Slots : s <= NDIRECT => s \in 0 .. NDIRECT
  BY DEF Slots
<1>4. 0 \notin using_blocks
  BY LayoutFacts DEF IInv, TypeOK
<1> QED
  BY <1>1, <1>2, <1>3, <1>4 DEF Pointers, is_valid_block

\* A completed put leaks no block and recovers none.
LEMMA WriteLeaksNothing ==
    ASSUME SInv, NEW i \in Inums, NEW size \in Sizes, NEW v \in Values,
           disk' = WriteDisk(i, size, v),
           using_blocks' = UsingAfterFill(i, size)
                           \ {Filled(i, size)[s] : s \in FreedByWrite(i, size)}
    PROVE  Leaked' = Leaked
<1> DEFINE F == Filled(i, size)
           M == Missing(i, size)
           D == FreedByWrite(i, size)
<1>1. i \in InodeNums /\ Inums \subseteq InodeNums /\ size \in Nat /\ IInv /\ Shaped(i)
  <2>1. Sizes \subseteq Nat
    BY LayoutAssumption
  <2>2. Inums \subseteq InodeNums
    BY LayoutAssumption DEF Inums, InodeNums
  <2> QED
    BY <2>1, <2>2 DEF SInv
<1>2. /\ \A s \in Slots : Pointers(i)'[s] = Kept(i, size)[s]
      /\ \A j \in InodeNums : j # i => Pointers(j)' = Pointers(j)
  <2>1. \A s \in Slots : Pointers(i)'[s] = Kept(i, size)[s]
    BY <1>1, WriteFacts, Zenon
  <2>2. \A j \in InodeNums : j # i => Untouched(j)
    BY <1>1, WriteFacts, Zenon
  <2> QED
    BY <2>1, <2>2 DEF Untouched
<1>3. /\ D \subseteq Slots
      /\ \A s \in Slots : SlotsFor(size) <= s /\ F[s] # 0 => s \in D
      /\ \A s \in Slots : Kept(i, size)[s] = IF s < SlotsFor(size) THEN F[s] ELSE 0
  BY <1>1, KeptForm
<1>4. /\ M \subseteq Slots /\ \A s \in M : s < SlotsFor(size) /\ F[s] \in FreeBlocks \cup {0}
      /\ \A s \in Slots \ M : F[s] = Pointers(i)[s]
      /\ \A s \in Slots : Pointers(i)[s] # 0 => s \notin M
  <2>1. M \subseteq Slots /\ \A s \in M : s \in Written(size) /\ Pointers(i)[s] = 0
    BY <1>1, MissingFacts
  <2>2. \A s \in M : F[s] = alloc_block(Rank(M, s))
    BY <1>1, FillShape
  <2>3. \A s \in Slots \ M : F[s] = Pointers(i)[s]
    BY <1>1, FillShape
  <2> HIDE DEF M, F
  <2>4. \A s \in M : F[s] \in FreeBlocks \cup {0}
    BY <2>2, AllocRange
  <2>5. \A s \in M : s < SlotsFor(size)
    BY <1>1, <2>1, SizeFacts
  <2> QED
    BY <2>1, <2>3, <2>4, <2>5
<1>5. /\ \A b : b \in using_blocks' <=>
            /\ b \in using_blocks \/ (b # 0 /\ \E s \in M : b = F[s])
            /\ \A s \in D : b # F[s]
      /\ 0 \notin using_blocks
  BY LayoutFacts DEF UsingAfterFill, SInv, IInv, TypeOK
<1>6. Slots \subseteq Nat /\ SlotsFor(size) \in Nat
  BY <1>1, SizeFacts DEF Slots
<1>7. \A b \in FreeBlocks : b \notin using_blocks
  BY DEF FreeBlocks
<1> HIDE DEF F, M, D
<1>8. ASSUME NEW b, b \in Leaked' PROVE b \in Leaked
  <2>1. b \in using_blocks' /\ \A j \in Inums : \A s \in Slots : Pointers(j)'[s] # b
    BY <1>8 DEF Leaked
  <2>2. b \in using_blocks /\ \A s \in D : b # F[s]
    BY <1>1, <1>2, <1>3, <1>4, <1>5, <2>1
  <2>3. ASSUME NEW s \in Slots, Pointers(i)[s] = b PROVE FALSE
    <3>1. F[s] = b /\ b # 0
      BY <1>4, <1>5, <2>2, <2>3
    <3>2. ~ (s < SlotsFor(size))
      BY <1>2, <1>3, <2>1, <3>1
    <3> QED
      BY <1>3, <1>6, <2>2, <3>1, <3>2
  <2> QED
    BY <1>1, <1>2, <2>1, <2>2, <2>3, LeakedIs
<1>9. ASSUME NEW b, b \in Leaked PROVE b \in Leaked'
  <2>1. b \in using_blocks /\ b # 0 /\ \A j \in Inums : \A s \in Slots : Pointers(j)[s] # b
    BY <1>5, <1>9, LeakedIs
  <2>2. \A s \in Slots : F[s] # b
    BY <1>4, <1>7, <2>1
  <2>3. \A j \in Inums : \A s \in Slots : Pointers(j)'[s] # b
    BY <1>1, <1>2, <1>3, <2>1, <2>2
  <2>4. b \in using_blocks'
    BY <1>3, <1>5, <2>1, <2>2
  <2> QED
    BY <2>3, <2>4 DEF Leaked
<1> QED
  BY <1>8, <1>9

\* Only a step that removes a file changes the leaked blocks.
LEMMA LeakStep ==
    ASSUME SInv, [Next]_imVars, Leaked' # Leaked
    PROVE  \E i \in Inums : Exists(i) /\ ~ Exists(i)'
<1>1. \A i \in InodeNums : Exists(i) /\ status = "up" => i \in Inums
  BY LayoutAssumption DEF SInv, InodeNums, Inums
<1>2. ASSUME UNCHANGED <<disk, using_blocks>> PROVE FALSE
  <2>1. \A i : Pointers(i)' = Pointers(i)
    BY <1>2 DEF Pointers, get_inode, IdsIn
  <2> QED
    BY <1>2, <2>1 DEF Leaked
<1>3. ASSUME NEW type \in NewTypes, create(type) PROVE FALSE
  <2>1. status = "up" /\ alloc_inode(type) /\ AllocInum # 0
    BY <1>2, <1>3 DEF create, alloc_inode
  <2>2. PICK i \in Inums :
          /\ i = AllocInum
          /\ \A j \in InodeNums : j # i => Untouched(j)
          /\ \A s \in Slots : Pointers(i)'[s] = 0
    BY <2>1, AllocEffect
  <2>3. Inums \subseteq InodeNums
    BY LayoutAssumption DEF Inums, InodeNums
  <2>4. ~ Exists(i)
    BY <2>1, <2>2, AllocEffect
  <2>5. \A s \in Slots : Pointers(i)[s] = 0
    BY <2>3, <2>4, EmptyPointers DEF SInv, Shaped
  <2>6. \A j \in Inums : \A s \in Slots : Pointers(j)'[s] = Pointers(j)[s]
    BY <2>2, <2>3, <2>5 DEF Untouched
  <2>7. using_blocks' = using_blocks
    BY <2>1 DEF alloc_inode
  <2>8. \A b : b \in Leaked' <=> b \in Leaked
    BY <2>6, <2>7 DEF Leaked
  <2> QED
    BY <2>8
<1>4. ASSUME NEW id \in Ids, NEW size \in Sizes, NEW v \in Values, put(id, size, v) PROVE FALSE
  <2> DEFINE i == Mask(id)
  <2>1. status = "up" /\ write_file(i, size, v) /\ i \in Nat
    BY <1>4, MaskFacts DEF put
  <2> HIDE DEF i
  <2>2. Exists(i) /\ status' = "up"
    BY <1>2, <2>1 DEF write_file, imVars
  <2>3. i \in Inums
    BY <1>1, <2>1, <2>2, ExistsInTable
  <2>4. /\ disk' = WriteDisk(i, size, v)
        /\ using_blocks' = UsingAfterFill(i, size)
                           \ {Filled(i, size)[s] : s \in FreedByWrite(i, size)}
    BY <2>1, <2>2 DEF write_file
  <2> QED
    BY <2>3, <2>4, WriteLeaksNothing, Zenon
<1>5. ASSUME NEW id \in Ids, remove(id) PROVE \E i \in Inums : Exists(i) /\ ~ Exists(i)'
  <2> DEFINE i == Mask(id)
  <2>1. status = "up" /\ remove_file(i) /\ i \in Nat
    BY <1>5, MaskFacts DEF remove
  <2> HIDE DEF i
  <2>2. Exists(i) /\ status' = "up"
    BY <1>2, <2>1 DEF remove_file, imVars
  <2>3. i \in InodeNums
    BY <2>1, <2>2, ExistsInTable
  <2>4. get_inode(i)' = ZeroInode
    BY <2>1, <2>2, <2>3, RemoveEffect
  <2>5. ~ Exists(i)'
    BY <2>4 DEF Exists, ZeroInode
  <2> QED
    BY <1>1, <2>1, <2>2, <2>3, <2>5
<1>6. ASSUME NEW id \in Ids, get(id) \/ getattr(id) PROVE FALSE
  BY <1>2, <1>6 DEF get, getattr, read_file, imVars
<1>7. ASSUME UNCHANGED imVars PROVE FALSE
  BY <1>2, <1>7 DEF imVars
<1> QED
  BY <1>3, <1>4, <1>5, <1>6, <1>7 DEF Next

\* Growing, shrinking or on a full disk, a put loses track of no block, and
\* neither does a create: the only way to a used block that no inode leads to is
\* the removal of a file.
THEOREM PutsLeakNothing == Spec => LeakOnlyByRemove
<1>1. SInv /\ [Next]_imVars
        => [Leaked' # Leaked => \E i \in Inums : Exists(i) /\ ~ Exists(i)']_imVars
  BY LeakStep
<1> QED
  BY <1>1, SInvHolds, PTL DEF Spec, LeakOnlyByRemove

=============================================================================
