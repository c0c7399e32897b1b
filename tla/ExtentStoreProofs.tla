------------------------- MODULE ExtentStoreProofs --------------------------
(***************************************************************************)
(* What callers read: a put is followed by a get that returns a prefix of  *)
(* the string and loses the rest only when the disk or the inode is full,  *)
(* and the extent server implements the extent store.                      *)
(***************************************************************************)
EXTENDS ExtentServerProofs

-----------------------------------------------------------------------------
(* What a get reads after each operation. *)

\* The slot of the k-th block of a string.
LEMMA ChunkSlot ==
    ASSUME NEW size \in Nat, NEW k \in 0 .. Chunks(size) - 1
    PROVE  /\ size # 0 /\ Chunks(size) = BlocksFor(size) /\ k < BlocksFor(size)
           /\ SlotOf(k) \in Nat /\ SlotOf(k) # NDIRECT /\ ChunkOf(SlotOf(k)) = k
           /\ SlotOf(k) < SlotsFor(size)
           /\ SlotOf(k) \in Slots <=> k <= MAXFILE - 1
           /\ SlotOf(k) \in Slots => SlotOf(k) \in Written(size)
<1>1. size # 0 /\ Chunks(size) = BlocksFor(size) /\ BlocksFor(size) \in Nat /\ k < BlocksFor(size)
  BY SizeFacts
<1>2. /\ NDIRECT \in Nat /\ NDIRECT >= 1 /\ NINDIRECT \in Nat /\ NINDIRECT >= 1
      /\ MAXFILE = NDIRECT + NINDIRECT
  BY LayoutFacts, LayoutAssumption
<1>3. SlotOf(k) \in Nat /\ SlotOf(k) # NDIRECT /\ ChunkOf(SlotOf(k)) = k
  BY <1>1, <1>2 DEF SlotOf, ChunkOf
<1>4. SlotOf(k) < SlotsFor(size)
  BY <1>1, <1>2 DEF SlotOf, SlotsFor
<1>5. SlotOf(k) \in Slots <=> k <= MAXFILE - 1
  BY <1>1, <1>2 DEF SlotOf, Slots
<1>6. SlotOf(k) \in Slots => SlotOf(k) \in Written(size)
  BY <1>1, <1>4, SizeFacts
<1> QED
  BY <1>1, <1>3, <1>4, <1>5, <1>6

\* What read_file returns, as a function of all that it reads: the inode, its
\* pointers, the disk and the bitmap.
ContentFrom(node, ptr, D, U) ==
    [k \in 0 .. Chunks(node.size) - 1 |->
        IF SlotOf(k) \in Slots /\ is_valid_block(ptr[SlotOf(k)], U)
        THEN IF /\ D[ptr[SlotOf(k)]].kind = "data"
                /\ D[ptr[SlotOf(k)]].data.len >= LenOf(node.size, k)
             THEN [val |-> D[ptr[SlotOf(k)]].data.val, idx |-> D[ptr[SlotOf(k)]].data.idx]
             ELSE Junk
        ELSE Junk]

\* That is all there is to Content, before and after a step.
LEMMA ContentIs ==
    ASSUME NEW i
    PROVE  /\ Content(i) = ContentFrom(get_inode(i), Pointers(i), disk, using_blocks)
           /\ Content(i)' = ContentFrom(get_inode(i)', Pointers(i)', disk', using_blocks')
<1>1. Content(i) = ContentFrom(get_inode(i), Pointers(i), disk, using_blocks)
  BY DEF Content, ContentFrom, BytesOf
<1>2. Content(i)' = ContentFrom(get_inode(i)', Pointers(i)', disk', using_blocks')
  BY DEF Content, ContentFrom, BytesOf, Chunks, BlocksFor, LenOf, SlotOf, is_valid_block, Slots
<1> QED
  BY <1>1, <1>2

\* A file that a step leaves alone reads as before.
LEMMA UntouchedFile ==
    ASSUME IInv, IInv', NEW j \in InodeNums, Untouched(j)
    PROVE  /\ Content(j)' = Content(j)
           /\ FileOf(j)' = FileOf(j)
           /\ Damaged(j)' <=> Damaged(j)
<1> DEFINE ptr == Pointers(j)
<1>1. get_inode(j)' = get_inode(j) /\ Pointers(j)' = ptr
  BY DEF Untouched
<1>2. ASSUME NEW s \in Slots
      PROVE  /\ is_valid_block(ptr[s], using_blocks') <=> is_valid_block(ptr[s], using_blocks)
             /\ is_valid_block(ptr[s], using_blocks) => disk'[ptr[s]] = disk[ptr[s]]
  <2>1. 0 \notin using_blocks /\ 0 \notin using_blocks'
    BY LayoutFacts DEF IInv, TypeOK
  <2>2. ptr[s] # 0 => /\ ptr[s] \in using_blocks /\ ptr[s] \in using_blocks'
                      /\ disk'[ptr[s]] = disk[ptr[s]]
    BY PointerFacts DEF Untouched
  <2> QED
    BY <2>1, <2>2 DEF is_valid_block
<1>3. ContentFrom(get_inode(j), ptr, disk', using_blocks')
        = ContentFrom(get_inode(j), ptr, disk, using_blocks)
  BY <1>2 DEF ContentFrom
<1>4. Content(j)' = Content(j)
  BY <1>1, <1>3, ContentIs
<1>5. FileOf(j)' = FileOf(j)
  BY <1>1, <1>4 DEF FileOf, Attr, Chunks, BlocksFor
<1>6. Damaged(j)' <=> Damaged(j)
  BY <1>4 DEF Damaged
<1> QED
  BY <1>4, <1>5, <1>6

\* What is read after a completed put: the blocks that write_file found room for.
LEMMA WriteContent ==
    ASSUME SInv, NEW i \in InodeNums, NEW size \in Sizes, NEW v \in Values,
           disk' = WriteDisk(i, size, v),
           using_blocks' = UsingAfterFill(i, size)
                           \ {Filled(i, size)[s] : s \in FreedByWrite(i, size)}
    PROVE  Content(i)' = [k \in 0 .. Chunks(size) - 1 |->
                            IF SlotOf(k) \in Slots /\ Filled(i, size)[SlotOf(k)] # 0
                            THEN [val |-> v, idx |-> k] ELSE Junk]
<1> DEFINE F == Filled(i, size)
           K == Kept(i, size)
           D == FreedByWrite(i, size)
           piece(s) == [val |-> v, idx |-> ChunkOf(s), len |-> LenOf(size, ChunkOf(s))]
<1>1. size \in Nat /\ IInv /\ TypeOK /\ Shaped(i)
  <2>1. Sizes \subseteq Nat
    BY LayoutAssumption
  <2> QED
    BY <2>1 DEF SInv, IInv
<1>2. /\ get_inode(i)' = NodeAfter(i, size)
      /\ \A s \in Slots : Pointers(i)'[s] = K[s]
      /\ \A s \in Slots : K[s] # 0 => is_valid_block(K[s], using_blocks')
  BY <1>1, WriteFacts, Zenon
<1>3. get_inode(i)'.size = size
  BY <1>1, <1>2, NodeAfterFacts
<1>4. \A s \in Slots : K[s] = IF s < SlotsFor(size) THEN F[s] ELSE 0
  BY <1>1, KeptForm
<1>5. \A s \in D : SlotsFor(size) <= s /\ s \in Nat
  <2>1. D \subseteq Slots /\ \A s \in D : SlotsFor(size) <= s
    BY <1>1, KeptForm
  <2> QED
    BY <2>1 DEF Slots
<1>6. ASSUME NEW s \in Written(size) \ D, s # NDIRECT, F[s] # 0
      PROVE  disk'[F[s]] = DataBlock(piece(s))
  <2>1. WriteDisk(i, size, v)[F[s]] = DataBlock(piece(s))
    BY <1>1, <1>6, WriteDiskAt, Zenon
  <2> QED
    BY <2>1
<1>7. 0 \notin using_blocks'
  <2>1. UsingAfterFill(i, size) \subseteq DataBlocks
    BY <1>1, FilledFacts
  <2> QED
    BY <2>1, LayoutFacts
<1> HIDE DEF F, K, D
<1>8. ASSUME NEW k \in 0 .. Chunks(size) - 1, SlotOf(k) \in Slots
      PROVE  /\ Pointers(i)'[SlotOf(k)] = F[SlotOf(k)]
             /\ is_valid_block(F[SlotOf(k)], using_blocks') <=> F[SlotOf(k)] # 0
             /\ F[SlotOf(k)] # 0 =>
                   /\ disk'[F[SlotOf(k)]].kind = "data"
                   /\ disk'[F[SlotOf(k)]].data = [val |-> v, idx |-> k, len |-> LenOf(size, k)]
  <2>1. /\ SlotOf(k) \in Nat /\ SlotOf(k) < SlotsFor(size) /\ SlotsFor(size) \in Nat
        /\ SlotOf(k) # NDIRECT /\ ChunkOf(SlotOf(k)) = k /\ SlotOf(k) \in Written(size)
    BY <1>1, <1>8, ChunkSlot, SizeFacts
  <2>2. SlotOf(k) \notin D
    BY <1>1, <1>5, <2>1
  <2>3. Pointers(i)'[SlotOf(k)] = F[SlotOf(k)]
    BY <1>2, <1>4, <1>8, <2>1
  <2>4. is_valid_block(F[SlotOf(k)], using_blocks') <=> F[SlotOf(k)] # 0
    BY <1>2, <1>7, <1>8, <2>3 DEF is_valid_block
  <2>5. F[SlotOf(k)] # 0 => disk'[F[SlotOf(k)]] = DataBlock(piece(SlotOf(k)))
    BY <1>6, <2>1, <2>2
  <2> QED
    BY <2>1, <2>3, <2>4, <2>5 DEF DataBlock
<1>9. ASSUME NEW k \in 0 .. Chunks(size) - 1 PROVE LenOf(size, k) >= LenOf(size, k)
  <2>1. Chunks(size) \in Nat
    BY <1>1, SizeFacts
  <2>2. k \in Nat /\ k < Chunks(size)
    BY <2>1
  <2>3. LenOf(size, k) \in 0 .. BLOCK_SIZE
    BY <1>1, <2>2, LenRange
  <2> QED
    BY <2>3, LayoutAssumption
<1> DEFINE N == get_inode(i)'
           P == Pointers(i)'
           U == using_blocks'
           E == disk'
<1>10. Content(i)' = ContentFrom(N, P, E, U)
  BY ContentIs
<1>11. N.size = size
  BY <1>3
<1> HIDE DEF N, P, U, E, piece
<1>12. ASSUME NEW k \in 0 .. Chunks(size) - 1
       PROVE  (IF SlotOf(k) \in Slots /\ is_valid_block(P[SlotOf(k)], U)
               THEN IF /\ E[P[SlotOf(k)]].kind = "data"
                       /\ E[P[SlotOf(k)]].data.len >= LenOf(size, k)
                    THEN [val |-> E[P[SlotOf(k)]].data.val, idx |-> E[P[SlotOf(k)]].data.idx]
                    ELSE Junk
               ELSE Junk)
              = IF SlotOf(k) \in Slots /\ F[SlotOf(k)] # 0 THEN [val |-> v, idx |-> k] ELSE Junk
  <2>1. CASE SlotOf(k) \notin Slots
    BY <2>1
  <2>2. CASE SlotOf(k) \in Slots
    <3>1. /\ P[SlotOf(k)] = F[SlotOf(k)]
          /\ is_valid_block(F[SlotOf(k)], U) <=> F[SlotOf(k)] # 0
          /\ F[SlotOf(k)] # 0 =>
                /\ E[F[SlotOf(k)]].kind = "data"
                /\ E[F[SlotOf(k)]].data = [val |-> v, idx |-> k, len |-> LenOf(size, k)]
      BY <1>8, <2>2 DEF P, U, E
    <3> QED
      BY <1>9, <2>2, <3>1
  <2> QED
    BY <2>1, <2>2
<1>13. ContentFrom(N, P, E, U) = [k \in 0 .. Chunks(size) - 1 |->
                            IF SlotOf(k) \in Slots /\ F[SlotOf(k)] # 0
                            THEN [val |-> v, idx |-> k] ELSE Junk]
  BY <1>11, <1>12 DEF ContentFrom
<1> QED
  BY <1>10, <1>13 DEF F

\* When an alloc_block of a put fails, every data block is in use once the put
\* has allocated: the failed slots come after those that took the free blocks.
LEMMA FullWhenMissing ==
    ASSUME SInv, NEW i \in InodeNums, NEW size \in Nat,
           NEW s \in Missing(i, size), Filled(i, size)[s] = 0
    PROVE  UsingAfterFill(i, size) = DataBlocks
<1> DEFINE M == Missing(i, size)
           F == Filled(i, size)
<1>1. IInv /\ Shaped(i) /\ M \in SUBSET Int /\ IsFiniteSet(M) /\ UsingAfterFill(i, size) \subseteq DataBlocks
  BY MissingFacts, FilledFacts DEF SInv
<1>2. \A t \in M : F[t] = alloc_block(Rank(M, t))
  BY <1>1, FillShape
<1>3. UsingAfterFill(i, size) = using_blocks \cup ({F[t] : t \in M} \ {0})
  BY DEF UsingAfterFill
<1> HIDE DEF M, F
<1>4. Rank(M, s) \in 1 .. Cardinality(M) /\ Cardinality(M) \in Nat
  BY <1>1, RankFacts DEF M
<1>5. IsFiniteSet(FreeBlocks) /\ FreeBlocks \in SUBSET Int /\ Cardinality(FreeBlocks) \in Nat
  BY <1>4, AllocCount
<1>6. Cardinality(FreeBlocks) < Rank(M, s)
  <2>1. alloc_block(Rank(M, s)) = 0
    BY <1>2 DEF M, F
  <2> QED
    BY <1>4, <1>5, <2>1, AllocCount
<1>7. ASSUME NEW b \in FreeBlocks PROVE b \in UsingAfterFill(i, size)
  <2> DEFINE n == Rank(FreeBlocks, b)
  <2>1. n \in 1 .. Cardinality(FreeBlocks)
    BY <1>5, RankFacts
  <2>2. n \in 1 .. Cardinality(M) /\ n \in Nat
    BY <1>4, <1>5, <1>6, <2>1
  <2>3. alloc_block(n) # 0 /\ Rank(FreeBlocks, alloc_block(n)) = n
    BY <2>1, <2>2, AllocCount
  <2>4. alloc_block(n) \in FreeBlocks
    BY <2>3, AllocRange
  <2>5. alloc_block(n) = b
    <3>1. \A a, c \in FreeBlocks : Rank(FreeBlocks, a) = Rank(FreeBlocks, c) => a = c
      BY <1>5, RankFacts
    <3>2. Rank(FreeBlocks, alloc_block(n)) = Rank(FreeBlocks, b)
      BY <2>3
    <3> HIDE DEF n
    <3> QED
      BY <2>4, <3>1, <3>2
  <2>6. PICK t \in M : Rank(M, t) = n
    BY <1>1, <2>2, RankOnto
  <2> HIDE DEF n
  <2>7. F[t] = b /\ b # 0
    BY <1>2, <2>3, <2>5, <2>6
  <2> QED
    BY <1>3, <2>7
<1>8. DataBlocks \subseteq UsingAfterFill(i, size)
  BY <1>3, <1>7 DEF FreeBlocks
<1> QED
  BY <1>1, <1>8

\* A file without bytes is not damaged.
LEMMA EmptyNotDamaged ==
    ASSUME NEW i, get_inode(i)'.size = 0 PROVE ~ Damaged(i)'
<1>1. Chunks(0) - 1 = -1
  BY DEF Chunks
<1>2. DOMAIN Content(i)' = {}
  BY <1>1, ContentIs DEF ContentFrom
<1> QED
  BY <1>2 DEF Damaged

\* What a put loses.
LEMMA WriteLoss ==
    ASSUME SInv, NEW i \in InodeNums, NEW size \in Sizes, NEW v \in Values,
           disk' = WriteDisk(i, size, v),
           using_blocks' = UsingAfterFill(i, size)
                           \ {Filled(i, size)[s] : s \in FreedByWrite(i, size)},
           Damaged(i)'
    PROVE  using_blocks' = DataBlocks \/ get_inode(i)'.size > MAXFILE * BLOCK_SIZE
<1> DEFINE F == Filled(i, size)
           D == FreedByWrite(i, size)
<1>1. size \in Nat /\ IInv /\ TypeOK /\ Shaped(i)
  <2>1. Sizes \subseteq Nat
    BY LayoutAssumption
  <2> QED
    BY <2>1 DEF SInv, IInv
<1>2. get_inode(i)'.size = size
  <2>1. get_inode(i)' = NodeAfter(i, size)
    BY <1>1, WriteFacts, Zenon
  <2> QED
    BY <1>1, <2>1, NodeAfterFacts
<1>3. PICK k \in 0 .. Chunks(size) - 1 : ~ (SlotOf(k) \in Slots /\ F[SlotOf(k)] # 0)
  <2>1. Content(i)' = [k \in 0 .. Chunks(size) - 1 |->
                            IF SlotOf(k) \in Slots /\ F[SlotOf(k)] # 0
                            THEN [val |-> v, idx |-> k] ELSE Junk]
    BY WriteContent, Zenon
  <2>2. PICK k \in 0 .. Chunks(size) - 1 : Content(i)'[k] = Junk
    BY <2>1 DEF Damaged
  <2>3. SlotOf(k) \in Slots => k \in 0 .. MAXFILE - 1
    BY <1>1, ChunkSlot
  <2>4. SlotOf(k) \in Slots => Junk # [val |-> v, idx |-> k]
    BY <2>3, JunkAssumption
  <2> HIDE DEF F
  <2> QED
    BY <2>1, <2>2, <2>4
<1>4. CASE SlotOf(k) \notin Slots
  <2>1. size # 0 /\ MAXFILE \in Nat /\ MAXFILE < BlocksFor(size) /\ BlocksFor(size) \in Nat
    BY <1>1, <1>4, ChunkSlot, SizeFacts, LayoutFacts
  <2> DEFINE q == (size - 1) \div BLOCK_SIZE
  <2>2. BlocksFor(size) = q + 1
    BY <2>1 DEF BlocksFor
  <2>3. q \in Nat /\ q * BLOCK_SIZE <= size - 1 /\ BLOCK_SIZE \in Nat
    BY <1>1, <2>1, LayoutAssumption
  <2> HIDE DEF q
  <2>4. MAXFILE * BLOCK_SIZE <= q * BLOCK_SIZE
    BY <2>1, <2>2, <2>3
  <2>5. MAXFILE * BLOCK_SIZE \in Nat /\ q * BLOCK_SIZE \in Nat
    BY <2>1, <2>3
  <2> QED
    BY <1>1, <1>2, <2>3, <2>4, <2>5
<1>5. CASE SlotOf(k) \in Slots
  <2> DEFINE s == SlotOf(k)
  <2>1. s \in Slots /\ s \in Written(size) /\ F[s] = 0 /\ s < SlotsFor(size) /\ s \in Nat
    BY <1>1, <1>3, <1>5, ChunkSlot
  <2> HIDE DEF s
  <2>2. s \in Missing(i, size)
    BY <1>1, <2>1, FillShape, MissingFacts
  <2>3. UsingAfterFill(i, size) = DataBlocks
    BY <1>1, <2>1, <2>2, FullWhenMissing
  <2>4. D \subseteq Slots /\ (\A t \in D : SlotsFor(size) <= t) /\ SlotsFor(size) \in Nat
    BY <1>1, KeptForm, SizeFacts
  <2>5. \A t \in D : t \in Nat /\ s < t
    BY <2>1, <2>4 DEF Slots
  <2>6. \A t \in D : F[t] = 0
    BY <1>1, <2>1, <2>4, <2>5, FillShape
  <2> QED
    BY <2>3, <2>6, LayoutFacts
<1> QED
  BY <1>4, <1>5

\* Which step can damage a file, and when.
LEMMA LossStep ==
    ASSUME SInv, SInv', [Next]_imVars, NEW i \in Inums,
           Damaged(i)', get_inode(i)' # get_inode(i) \/ ~ Damaged(i)
    PROVE  using_blocks' = DataBlocks \/ get_inode(i).size' > MAXFILE * BLOCK_SIZE
<1> DEFINE Goal == using_blocks' = DataBlocks \/ get_inode(i)'.size > MAXFILE * BLOCK_SIZE
<1>1. IInv /\ IInv' /\ i \in InodeNums
  BY LayoutAssumption DEF SInv, Inums, InodeNums
<1>2. ASSUME Untouched(i) PROVE FALSE
  <2>1. get_inode(i)' = get_inode(i)
    BY <1>2 DEF Untouched
  <2> QED
    BY <1>1, <1>2, <2>1, UntouchedFile
<1>3. ASSUME UNCHANGED <<disk, using_blocks>> PROVE FALSE
  BY <1>1, <1>2, <1>3, SameUntouched
<1>4. ASSUME NEW type \in NewTypes, create(type) PROVE FALSE
  <2>1. alloc_inode(type) /\ AllocInum # 0
    BY <1>3, <1>4 DEF create, alloc_inode
  <2>2. PICK n \in Inums : /\ get_inode(n)' = [ZeroInode EXCEPT !.type = type]
                           /\ \A j \in InodeNums : j # n => Untouched(j)
    BY <2>1, AllocEffect
  <2>3. i = n
    BY <1>1, <1>2, <2>2
  <2>4. get_inode(i)'.size = 0
    BY <2>2, <2>3 DEF ZeroInode
  <2> QED
    BY <2>4, EmptyNotDamaged
<1>5. ASSUME NEW id \in Ids, NEW size \in Sizes, NEW v \in Values, put(id, size, v) PROVE Goal
  <2> DEFINE j == Mask(id)
  <2>1. status = "up" /\ write_file(j, size, v) /\ j \in Nat
    BY <1>5, MaskFacts DEF put
  <2> HIDE DEF j
  <2>2. Exists(j) /\ status' = "up"
    BY <1>3, <2>1 DEF write_file, imVars
  <2>3. j \in InodeNums
    BY <2>1, <2>2, ExistsInTable
  <2>4. /\ disk' = WriteDisk(j, size, v)
        /\ using_blocks' = UsingAfterFill(j, size)
                           \ {Filled(j, size)[s] : s \in FreedByWrite(j, size)}
    BY <2>1, <2>2 DEF write_file
  <2>5. \A n \in InodeNums : n # j => Untouched(n)
    <3>1. Shaped(j)
      BY <2>3 DEF SInv
    <3> QED
      BY <1>1, <2>3, <2>4, <3>1, WriteFacts, Zenon
  <2>6. i = j
    BY <1>1, <1>2, <2>5
  <2>7. Damaged(j)'
    BY <2>6
  <2>8. using_blocks' = DataBlocks \/ get_inode(j)'.size > MAXFILE * BLOCK_SIZE
    BY <2>3, <2>4, <2>7, WriteLoss, Zenon
  <2> QED
    BY <2>6, <2>8
<1>6. ASSUME NEW id \in Ids, remove(id) PROVE FALSE
  <2> DEFINE j == Mask(id)
  <2>1. status = "up" /\ remove_file(j) /\ j \in Nat
    BY <1>6, MaskFacts DEF remove
  <2> HIDE DEF j
  <2>2. Exists(j) /\ status' = "up"
    BY <1>3, <2>1 DEF remove_file, imVars
  <2>3. j \in InodeNums
    BY <2>1, <2>2, ExistsInTable
  <2>4. get_inode(j)' = ZeroInode /\ \A n \in InodeNums : n # j => Untouched(n)
    BY <2>1, <2>2, <2>3, RemoveEffect
  <2>5. i = j
    BY <1>1, <1>2, <2>4
  <2>6. get_inode(i)'.size = 0
    BY <2>4, <2>5 DEF ZeroInode
  <2> QED
    BY <2>6, EmptyNotDamaged
<1>7. ASSUME NEW id \in Ids, get(id) \/ getattr(id) PROVE FALSE
  BY <1>3, <1>7 DEF get, getattr, read_file, imVars
<1>8. ASSUME UNCHANGED imVars PROVE FALSE
  BY <1>3, <1>8 DEF imVars
<1>9. Goal
  BY <1>4, <1>5, <1>6, <1>7, <1>8 DEF Next
<1> QED
  BY <1>9

\* put, which always answers OK, loses bytes only of a string that an inode
\* cannot describe or when it has left no data block free; no other operation
\* loses any, of its own file or of another.
THEOREM BytesLostOnlyWhenFull == Spec => LossOnlyWhenFull
<1>1. SInv /\ SInv' /\ [Next]_imVars =>
        [\A i \in Inums :
            Damaged(i)' /\ (get_inode(i)' # get_inode(i) \/ ~ Damaged(i))
               => \/ using_blocks' = DataBlocks
                  \/ get_inode(i).size' > MAXFILE * BLOCK_SIZE]_imVars
  BY LossStep
<1> QED
  BY <1>1, SInvHolds, PTL DEF Spec, LossOnlyWhenFull

-----------------------------------------------------------------------------
(* The extent server implements the extent store: files that have lost bytes. *)

\* A block of the string without a valid pointer is lost.
LEMMA InvalidChunk ==
    ASSUME IInv, NEW i \in InodeNums, NEW k \in 0 .. Chunks(get_inode(i).size) - 1,
           SlotOf(k) \in Slots => Pointers(i)[SlotOf(k)] = 0
    PROVE  Damaged(i)
<1>1. SlotOf(k) \in Slots => ~ is_valid_block(Pointers(i)[SlotOf(k)], using_blocks)
  BY MissingFacts
<1>2. Content(i)[k] = Junk /\ k \in DOMAIN Content(i)
  BY <1>1 DEF Content
<1> QED
  BY <1>2 DEF Damaged

\* The assertion of free_block, and the walk past the indirect block, are met by
\* a put only when the old content of the file was damaged.
LEMMA WriteDiesDamaged ==
    ASSUME SInv, NEW i \in InodeNums, NEW size \in Nat, WriteStatus(i, size) # "up"
    PROVE  Damaged(i)
<1> DEFINE ob == BlocksFor(get_inode(i).size)
           nb == BlocksFor(size)
           old == get_inode(i).size
<1>1. /\ IInv /\ Shaped(i) /\ old \in Nat /\ ob \in Nat /\ nb \in Nat /\ nb >= 1
      /\ old = 0 => ob = 1
      /\ old # 0 => Chunks(old) = ob
  <2>1. IInv /\ TypeOK /\ Shaped(i)
    BY DEF SInv, IInv
  <2>2. old \in Nat
    BY <2>1, SizeType
  <2> QED
    BY <2>1, <2>2, SizeFacts
<1>2. /\ NDIRECT \in Nat /\ NDIRECT >= 1 /\ NINDIRECT \in Nat /\ NINDIRECT >= 1
      /\ MAXFILE = NDIRECT + NINDIRECT /\ MAXFILE \in Nat
  BY LayoutFacts, LayoutAssumption
<1> HIDE DEF ob, nb, old
<1>3. FreesIndirect(i, size)
  <2>1. CASE WriteOverruns(i, size)
    BY <2>1 DEF WriteOverruns
  <2>2. CASE ~ (FreedByWrite(i, size) \subseteq ValidAfterFill(i, size))
    <3>1. \A s \in FreedDirect(i, size) : s \in nb .. s /\ nb .. s \subseteq ValidAfterFill(i, size)
      BY <1>1, <1>2 DEF FreedDirect, nb, Slots
    <3> QED
      BY <2>2, <3>1 DEF FreedByWrite
  <2> QED
    BY <2>1, <2>2 DEF WriteStatus
<1>4. ob > NDIRECT
  BY <1>3 DEF FreesIndirect, ob
<1>5. Chunks(old) = ob
  BY <1>1, <1>2, <1>4
<1>6. CASE WriteOverruns(i, size)
  <2>1. ob > MAXFILE
    BY <1>6 DEF WriteOverruns, ob
  <2>2. MAXFILE \in 0 .. ob - 1 /\ SlotOf(MAXFILE) = MAXFILE + 1
    BY <1>1, <1>2, <2>1 DEF SlotOf
  <2>3. SlotOf(MAXFILE) \notin Slots
    BY <1>2, <2>2 DEF Slots
  <2> QED
    BY <1>1, <1>5, <2>2, <2>3, InvalidChunk DEF old
<1>7. CASE ~ (FreedByWrite(i, size) \subseteq ValidAfterFill(i, size))
  <2>1. PICK s \in FreedByWrite(i, size) : s \notin ValidAfterFill(i, size)
    BY <1>7
  <2>2. s \in Slots /\ s \in Nat /\ SlotsFor(size) <= s /\ SlotsFor(size) \in Nat
    <3>1. FreedByWrite(i, size) \subseteq Slots
      BY <1>1, KeptForm
    <3>2. SlotsFor(size) <= s
      BY <1>1, KeptForm
    <3> QED
      BY <3>1, <3>2, SizeFacts DEF Slots
  <2>3. Pointers(i)[s] = 0
    <3>1. Filled(i, size)[s] = 0
      BY <1>1, <2>1, <2>2, FillShape
    <3>2. s \notin Written(size)
      BY <2>2, SizeFacts
    <3>3. s \notin Missing(i, size)
      BY <1>1, <2>2, <3>2, MissingFacts
    <3> QED
      BY <1>1, <2>2, <3>1, <3>3, FillShape
  <2>4. \/ s > NDIRECT /\ ChunkOf(s) < ob
        \/ s = NDIRECT
    <3>1. s \notin FreedDirect(i, size)
      BY <1>1, <2>1, <2>2 DEF FreedDirect, nb
    <3>2. s \in FreedIndirect(i, size)
      BY <2>1, <3>1 DEF FreedByWrite
    <3> QED
      BY <3>2 DEF FreedIndirect, ob
  <2>5. CASE s > NDIRECT /\ ChunkOf(s) < ob
    <3>1. ChunkOf(s) \in 0 .. ob - 1 /\ SlotOf(ChunkOf(s)) = s
      BY <1>1, <1>2, <2>2, <2>5 DEF ChunkOf, SlotOf
    <3> QED
      BY <1>1, <1>5, <2>3, <3>1, InvalidChunk DEF old
  <2>6. CASE s = NDIRECT
    <3>1. NDIRECT \in 0 .. ob - 1 /\ SlotOf(NDIRECT) = NDIRECT + 1 /\ NDIRECT + 1 \in Slots
      BY <1>1, <1>2, <1>4 DEF SlotOf, Slots
    <3>2. Pointers(i)[NDIRECT + 1] = 0
      <4>1. NDIRECT < NDIRECT + 1
        BY <1>2
      <4> QED
        BY <1>1, <2>2, <2>3, <2>6, <3>1, <4>1 DEF Shaped
    <3> QED
      BY <1>1, <1>5, <3>1, <3>2, InvalidChunk DEF old
  <2> QED
    BY <2>4, <2>5, <2>6
<1> QED
  BY <1>6, <1>7 DEF WriteStatus

\* A block is within the string exactly when it starts before its end.
LEMMA ChunkStarts ==
    ASSUME NEW size \in Nat, NEW k \in Nat
    PROVE  /\ k < Chunks(size) => k * BLOCK_SIZE < size
           /\ size <= Chunks(size) * BLOCK_SIZE
<1>1. BLOCK_SIZE \in Nat /\ BLOCK_SIZE >= 4
  BY LayoutAssumption
<1>2. CASE size = 0
  BY <1>1, <1>2 DEF Chunks
<1>3. CASE size # 0
  <2> DEFINE q == (size - 1) \div BLOCK_SIZE
             r == (size - 1) % BLOCK_SIZE
  <2>1. Chunks(size) = q + 1
    BY <1>3 DEF Chunks, BlocksFor
  <2>2. q \in Nat /\ r \in Nat /\ size - 1 = BLOCK_SIZE * q + r /\ r < BLOCK_SIZE
    BY <1>1, <1>3
  <2> HIDE DEF q, r
  <2>3. q * BLOCK_SIZE \in Nat /\ k * BLOCK_SIZE \in Nat /\ (q + 1) * BLOCK_SIZE = q * BLOCK_SIZE + BLOCK_SIZE
        /\ BLOCK_SIZE * q = q * BLOCK_SIZE
    BY <1>1, <2>2
  <2>4. k <= q => k * BLOCK_SIZE <= q * BLOCK_SIZE
    BY <1>1, <2>2
  <2>5. size <= Chunks(size) * BLOCK_SIZE
    BY <1>1, <2>1, <2>2, <2>3
  <2>6. k < Chunks(size) => k * BLOCK_SIZE < size
    BY <1>1, <2>1, <2>2, <2>3, <2>4
  <2> QED
    BY <2>5, <2>6
<1> QED
  BY <1>2, <1>3

\* remove_file meets the assertion of free_block only on a damaged file: it frees
\* the missing indirect block of a file that has fewer blocks than its size.
LEMMA RemoveDiesDamaged ==
    ASSUME SInv, NEW i \in InodeNums,
           ~ ({Pointers(i)[s] : s \in FreedByRemove(i)} \subseteq using_blocks)
    PROVE  Damaged(i)
<1> DEFINE size == get_inode(i).size
           n == Chunks(size)
           R == RemovedDirect(i)
<1>1. IInv /\ Shaped(i) /\ size \in Nat /\ n \in Nat
  <2>1. IInv /\ TypeOK /\ Shaped(i)
    BY DEF SInv, IInv
  <2>2. size \in Nat
    BY <2>1, SizeType
  <2> QED
    BY <2>1, <2>2, SizeFacts
<1>2. /\ NDIRECT \in Nat /\ NDIRECT >= 1 /\ NINDIRECT \in Nat /\ NINDIRECT >= 1
      /\ MAXFILE = NDIRECT + NINDIRECT /\ MAXFILE \in Nat /\ BLOCK_SIZE \in Nat
  BY LayoutFacts, LayoutAssumption
<1> SUFFICES ASSUME ~ Damaged(i) PROVE FALSE
  OBVIOUS
<1>3. \A k \in 0 .. n - 1 : SlotOf(k) \in Slots /\ Pointers(i)[SlotOf(k)] # 0
  BY <1>1, InvalidChunk
<1>4. RemovesIndirect(i) /\ Pointers(i)[NDIRECT] \notin using_blocks
  <2>1. \A s \in R : Pointers(i)[s] \in using_blocks
    <3>1. \A s \in R : s \in 0 .. s /\ \A t \in 0 .. s : is_valid_block(Pointers(i)[t], using_blocks)
      BY <1>2 DEF RemovedDirect
    <3> QED
      BY <3>1 DEF is_valid_block
  <2>2. \A s \in RemovedIndirect(i) : Pointers(i)[s] \in using_blocks
    <3>1. \A s \in RemovedIndirect(i) :
            /\ s \in NDIRECT + 1 .. s
            /\ \A t \in NDIRECT + 1 .. s : is_valid_block(Pointers(i)[t], using_blocks)
      BY <1>2 DEF RemovedIndirect, Slots
    <3> QED
      BY <3>1 DEF is_valid_block
  <2> HIDE DEF R
  <2> QED
    BY <2>1, <2>2 DEF FreedByRemove, R
<1>5. Pointers(i)[NDIRECT] = 0
  BY <1>1, <1>4, PointerFacts, LayoutFacts
<1>6. n <= NDIRECT
  <2> SUFFICES ASSUME NDIRECT < n PROVE FALSE
    BY <1>1, <1>2
  <2>1. NDIRECT \in 0 .. n - 1 /\ SlotOf(NDIRECT) = NDIRECT + 1 /\ NDIRECT + 1 \in Slots
    BY <1>1, <1>2 DEF SlotOf, Slots
  <2>2. Pointers(i)[NDIRECT + 1] # 0
    BY <1>3, <2>1
  <2>3. NDIRECT \in Slots /\ NDIRECT < NDIRECT + 1
    BY <1>2, LayoutFacts
  <2> QED
    BY <1>1, <1>5, <2>1, <2>2, <2>3 DEF Shaped
<1>7. \A k \in 0 .. n - 1 : k \in Slots /\ is_valid_block(Pointers(i)[k], using_blocks)
  <2>1. \A k \in 0 .. n - 1 : SlotOf(k) = k
    BY <1>1, <1>2, <1>6 DEF SlotOf
  <2> HIDE DEF n
  <2> QED
    BY <1>1, <1>3, <2>1, MissingFacts
<1>8. 0 .. n - 1 \subseteq R
  <2>1. ASSUME NEW k \in 0 .. n - 1 PROVE k \in R
    <3>1. k \in 0 .. NDIRECT - 1 /\ k \in Nat /\ k < n
      BY <1>1, <1>2, <1>6
    <3>2. k * BLOCK_SIZE < size
      BY <1>1, <3>1, ChunkStarts
    <3>3. \A t \in 0 .. k : t \in 0 .. n - 1
      BY <1>1, <3>1
    <3> QED
      BY <1>7, <3>1, <3>2, <3>3 DEF RemovedDirect
  <2> QED
    BY <2>1
<1>9. n <= Cardinality(R) /\ Cardinality(R) \in Nat
  <2>1. R \in SUBSET (0 .. NDIRECT - 1)
    BY DEF RemovedDirect
  <2>2. IsFiniteSet(0 .. NDIRECT - 1)
    BY <1>2, FS_Interval
  <2>3. IsFiniteSet(R)
    BY <2>1, <2>2, FS_Subset
  <2>4. IsFiniteSet(0 .. n - 1) /\ Cardinality(0 .. n - 1) = n
    <3> DEFINE m == n - 1
    <3> HIDE DEF n
    <3>1. m \in Int /\ 0 \in Int
      BY <1>1
    <3> HIDE DEF m
    <3>2. IsFiniteSet(0 .. m) /\ Cardinality(0 .. m) = IF 0 > m THEN 0 ELSE m - 0 + 1
      BY <3>1, FS_Interval
    <3> QED
      BY <1>1, <3>2 DEF m
  <2> HIDE DEF R, n
  <2> QED
    BY <1>8, <2>3, <2>4, FS_Subset, FS_CardinalityType
<1>10. Cardinality(R) * BLOCK_SIZE < size
  BY <1>4 DEF RemovesIndirect
<1>11. size <= n * BLOCK_SIZE
  BY <1>1, ChunkStarts
<1> HIDE DEF R, n, size
<1>12. n * BLOCK_SIZE <= Cardinality(R) * BLOCK_SIZE
  BY <1>1, <1>2, <1>9
<1>13. n * BLOCK_SIZE \in Nat /\ Cardinality(R) * BLOCK_SIZE \in Nat
  BY <1>1, <1>2, <1>9
<1> QED
  BY <1>1, <1>10, <1>11, <1>12, <1>13

-----------------------------------------------------------------------------
(* The extent server implements the extent store: every step. *)

\* A file without bytes, before and after a step.
LEMMA EmptyFile ==
    ASSUME NEW i
    PROVE  /\ get_inode(i).size = 0 => FileOf(i) = Store!Empty(get_inode(i).type)
           /\ get_inode(i)'.size = 0 => FileOf(i)' = Store!Empty(get_inode(i)'.type)
<1>1. Chunks(0) = 0
  BY DEF Chunks
<1>2. \A f : [k \in 1 .. 0 |-> f[k - 1]] = << >>
  OBVIOUS
<1>3. get_inode(i).size = 0 => FileOf(i) = Store!Empty(get_inode(i).type)
  BY <1>1, <1>2 DEF FileOf, Attr, Store!Empty
<1>4. get_inode(i)'.size = 0 => FileOf(i)' = Store!Empty(get_inode(i)'.type)
  <2> SUFFICES ASSUME get_inode(i)'.size = 0 PROVE FileOf(i)' = Store!Empty(get_inode(i)'.type)
    OBVIOUS
  <2>1. FileOf(i)' = [type |-> get_inode(i)'.type, size |-> get_inode(i)'.size,
                      data |-> [k \in 1 .. Chunks(get_inode(i)'.size) |-> Content(i)'[k - 1]]]
    BY DEF FileOf, Attr, Chunks, BlocksFor
  <2> QED
    BY <1>1, <1>2, <2>1 DEF Store!Empty
<1> QED
  BY <1>3, <1>4

\* Types and damage are the same for both specifications.
LEMMA FileFacts ==
    ASSUME NEW i
    PROVE  /\ FileOf(i).type = get_inode(i).type
           /\ FileOf(i)'.type = get_inode(i)'.type
           /\ FileOf(i)'.size = get_inode(i)'.size
           /\ FileOf(i)'.data = [k \in 1 .. Chunks(get_inode(i)'.size) |-> Content(i)'[k - 1]]
           /\ FileOf(i).data = [k \in 1 .. Chunks(get_inode(i).size) |-> Content(i)[k - 1]]
BY DEF FileOf, Attr, Chunks, BlocksFor

\* A damaged file is one in the abstract store too.
LEMMA SameDamage ==
    ASSUME TypeOK, NEW i \in InodeNums, Damaged(i) PROVE Store!Damaged(FileOf(i))
<1> DEFINE n == Chunks(get_inode(i).size)
<1>1. n \in Nat
  BY SizeType, SizeFacts
<1>2. DOMAIN Content(i) = 0 .. n - 1
  BY DEF Content
<1>3. PICK k \in 0 .. n - 1 : Content(i)[k] = Junk
  BY <1>2 DEF Damaged
<1>4. FileOf(i).data = [j \in 1 .. n |-> Content(i)[j - 1]]
  BY FileFacts
<1> HIDE DEF n
<1>5. k + 1 \in 1 .. n /\ (k + 1) - 1 = k
  BY <1>1
<1>6. FileOf(i).data[k + 1] = Junk /\ k + 1 \in DOMAIN FileOf(i).data
  BY <1>3, <1>4, <1>5
<1> QED
  BY <1>6 DEF Store!Damaged

\* A step that changes one file, in one of the ways of the store.
LEMMA ChangeStep ==
    ASSUME status = "up", status' = "up", NEW i \in Inums,
           \A j \in Inums : j # i => FileOf(j)' = FileOf(j),
           \/ Store!Created(FileOf(i), FileOf(i)')
           \/ Store!Replaced(FileOf(i), FileOf(i)')
           \/ Store!Removed(FileOf(i), FileOf(i)')
    PROVE  Store!Next
<1> DEFINE before == [j \in Inums |-> FileOf(j)]
           after == [j \in Inums |-> FileOf(j)']
<1>1. \A j \in Inums : before[j] = FileOf(j) /\ after[j] = FileOf(j)'
  OBVIOUS
<1>2. \A j \in Inums \ {i} : after[j] = before[j]
  BY <1>1
<1>3. \/ Store!Created(before[i], after[i])
      \/ Store!Replaced(before[i], after[i])
      \/ Store!Removed(before[i], after[i])
  BY <1>1
<1>4. Store!Change
  BY <1>2, <1>3 DEF Store!Change
<1> QED
  BY <1>4 DEF Store!Next

\* A step that stops the process over a damaged file.
LEMMA DieStep ==
    ASSUME status = "up", status' # "up", NEW i \in Inums, Exists(i), TypeOK, Damaged(i),
           \A j \in Inums : FileOf(j)' = FileOf(j)
    PROVE  Store!Next
<1> DEFINE before == [j \in Inums |-> FileOf(j)]
           after == [j \in Inums |-> FileOf(j)']
<1>1. i \in InodeNums
  BY LayoutAssumption DEF Inums, InodeNums
<1>2. FileOf(i).type # "0" /\ Store!Damaged(FileOf(i))
  BY <1>1, FileFacts, SameDamage DEF Exists
<1>3. before[i] = FileOf(i) /\ after = before
  OBVIOUS
<1>4. before[i].type # "0" /\ Store!Damaged(before[i])
  BY <1>2, <1>3
<1>5. Store!Die
  BY <1>3, <1>4 DEF Store!Die, Store!Present
<1> QED
  BY <1>5 DEF Store!Next

\* A step that neither changes a file nor stops the process.
LEMMA StutterStep ==
    ASSUME status' = "up" <=> status = "up", \A j \in Inums : FileOf(j)' = FileOf(j)
    PROVE  UNCHANGED Store!storeVars
BY DEF Store!storeVars

\* The blocks of a put that found no room are a suffix of the string.
LEMMA LostSuffix ==
    ASSUME SInv, NEW i \in InodeNums, NEW size \in Nat
    PROVE  \E c \in 0 .. Chunks(size) : \A k \in 0 .. Chunks(size) - 1 :
              (SlotOf(k) \in Slots /\ Filled(i, size)[SlotOf(k)] # 0) <=> k < c
<1> DEFINE n == Chunks(size)
           Found(k) == SlotOf(k) \in Slots /\ Filled(i, size)[SlotOf(k)] # 0
           Bad == {k \in 0 .. n - 1 : ~ Found(k)}
<1>1. n \in Nat /\ IInv /\ Shaped(i)
  BY SizeFacts DEF SInv
<1>2. ASSUME NEW k \in 0 .. n - 1, NEW l \in 0 .. n - 1, k < l, Found(l) PROVE Found(k)
  <2>1. SlotOf(k) \in Nat /\ SlotOf(l) \in Nat /\ SlotOf(k) < SlotOf(l)
    <3>1. NDIRECT \in Nat
      BY LayoutAssumption
    <3> QED
      BY <1>1, <1>2, <3>1 DEF SlotOf
  <2>2. SlotOf(k) \in Slots
    BY <1>2, <2>1, LayoutFacts DEF Slots
  <2> QED
    BY <1>1, <1>2, <2>1, <2>2, FillShape
<1>3. CASE Bad = {}
  <2>1. n \in 0 .. n /\ \A k \in 0 .. n - 1 : Found(k) <=> k < n
    BY <1>1, <1>3
  <2> QED
    BY <2>1
<1>4. CASE Bad # {}
  <2>1. IsFiniteSet(Bad) /\ Bad \in SUBSET Int
    <3>1. Bad \in SUBSET (0 .. n - 1)
      OBVIOUS
    <3> HIDE DEF Bad, n
    <3>2. IsFiniteSet(0 .. n - 1) /\ 0 .. n - 1 \subseteq Int
      BY <1>1, FS_Interval
    <3> QED
      BY <3>1, <3>2, FS_Subset
  <2>2. PICK c \in Bad : \A k \in Bad : c <= k
    BY <1>4, <2>1, LeastElement
  <2>3. c \in 0 .. n - 1 /\ ~ Found(c)
    OBVIOUS
  <2> HIDE DEF Found
  <2>4. ASSUME NEW k \in 0 .. n - 1 PROVE Found(k) <=> k < c
    <3>1. k < c => Found(k)
      BY <1>1, <2>2, <2>3
    <3>2. Found(k) => k < c
      BY <1>1, <1>2, <2>3
    <3> QED
      BY <3>1, <3>2
  <2>5. c \in 0 .. n
    BY <1>1, <2>3
  <2> QED
    BY <2>4, <2>5 DEF Found
<1> QED
  BY <1>3, <1>4

\* A completed put replaces the content of its file.
LEMMA WriteReplaces ==
    ASSUME SInv, NEW i \in Inums, Exists(i), NEW size \in Sizes, NEW v \in Values,
           disk' = WriteDisk(i, size, v),
           using_blocks' = UsingAfterFill(i, size)
                           \ {Filled(i, size)[s] : s \in FreedByWrite(i, size)}
    PROVE  Store!Replaced(FileOf(i), FileOf(i)')
<1> DEFINE n == Chunks(size)
<1>1. i \in InodeNums /\ IInv /\ TypeOK /\ Shaped(i) /\ size \in Nat /\ n \in Nat
  <2>1. Sizes \subseteq Nat
    BY LayoutAssumption
  <2>2. i \in InodeNums
    BY LayoutAssumption DEF Inums, InodeNums
  <2> QED
    BY <2>1, <2>2, SizeFacts DEF SInv, IInv
<1>2. get_inode(i)' = NodeAfter(i, size)
  BY <1>1, WriteFacts, Zenon
<1>3. get_inode(i)'.type = get_inode(i).type /\ get_inode(i)'.size = size
  BY <1>1, <1>2, NodeAfterFacts
<1>4. FileOf(i).type # "0" /\ FileOf(i)'.type = FileOf(i).type /\ FileOf(i)'.size = size
  BY <1>3, FileFacts DEF Exists
<1>5. PICK c \in 0 .. n : \A k \in 0 .. n - 1 :
         (SlotOf(k) \in Slots /\ Filled(i, size)[SlotOf(k)] # 0) <=> k < c
  BY <1>1, LostSuffix
<1>6. Content(i)' = [k \in 0 .. n - 1 |-> IF k < c THEN [val |-> v, idx |-> k] ELSE Junk]
  <2>1. Content(i)' = [k \in 0 .. n - 1 |->
                            IF SlotOf(k) \in Slots /\ Filled(i, size)[SlotOf(k)] # 0
                            THEN [val |-> v, idx |-> k] ELSE Junk]
    BY <1>1, WriteContent, Zenon
  <2> QED
    BY <1>5, <2>1
<1>7. FileOf(i)'.data = [k \in 1 .. n |-> Content(i)'[k - 1]]
  BY <1>3, FileFacts
<1>8. FileOf(i)'.data = Store!Stored(size, v, c)
  <2>1. \A k \in 1 .. n : k - 1 \in 0 .. n - 1 /\ (k - 1 < c <=> k <= c)
    BY <1>1
  <2>2. Store!Stored(size, v, c) =
          [k \in 1 .. n |-> IF k <= c THEN [val |-> v, idx |-> k - 1] ELSE Junk]
    BY DEF Store!Stored
  <2>3. ASSUME NEW k \in 1 .. n
        PROVE  Content(i)'[k - 1] = IF k <= c THEN [val |-> v, idx |-> k - 1] ELSE Junk
    BY <1>6, <2>1
  <2> HIDE DEF n
  <2> QED
    BY <1>7, <2>2, <2>3
<1> QED
  BY <1>4, <1>5, <1>8 DEF Store!Replaced

\* The constructor.
LEMMA InitStore == ASSUME Init PROVE Store!Init
<1>1. PICK garbage \in 0 .. UINT_LIMIT - 1 :
        /\ disk = [b \in BlockIds |->
                      IF b = IBLOCK(to_alloc(1, garbage))
                      THEN InodeBlock([ZeroInode EXCEPT !.type = "T_DIR"]) ELSE ZeroBlock]
        /\ status = IF to_alloc(1, garbage) = 1 THEN "up" ELSE "exited"
  BY DEF Init, imInit
<1> DEFINE r == to_alloc(1, garbage)
<1>2. r \in InodeNums
  <2>1. garbage \in Nat /\ 1 \in Nat
    BY UintAssumption
  <2> QED
    BY <2>1, ToAllocRange
<1>3. r \in Inums \cup {0} /\ Inums \subseteq InodeNums
  BY <1>2, LayoutAssumption DEF Inums, InodeNums
<1> HIDE DEF r
<1>4. ASSUME NEW i \in Inums
      PROVE  FileOf(i) = IF i = r THEN Store!Empty("T_DIR") ELSE Store!Absent
  <2>1. /\ i <= INODE_NUM /\ IBLOCK(i) \in BlockIds
        /\ IBLOCK(i) = IBLOCK(r) => i = r
    <3>1. i <= INODE_NUM
      BY LayoutAssumption DEF Inums
    <3> QED
      BY <1>2, <1>3, <3>1, LayoutFacts
  <2>2. get_inode(i) = IF i = r THEN [ZeroInode EXCEPT !.type = "T_DIR"] ELSE ZeroInode
    <3>1. disk[IBLOCK(i)] = IF i = r THEN InodeBlock([ZeroInode EXCEPT !.type = "T_DIR"]) ELSE ZeroBlock
      BY <1>1, <2>1 DEF r
    <3> QED
      BY <2>1, <3>1 DEF get_inode, InodeBlock, ZeroBlock
  <2>3. get_inode(i).size = 0 /\ get_inode(i).type = IF i = r THEN "T_DIR" ELSE "0"
    BY <2>2 DEF ZeroInode
  <2>4. FileOf(i) = Store!Empty(get_inode(i).type)
    BY <2>3, EmptyFile
  <2>5. Store!Absent = Store!Empty("0")
    BY DEF Store!Absent, Store!Empty
  <2> QED
    BY <2>3, <2>4, <2>5
<1>5. [i \in Inums |-> FileOf(i)] = [i \in Inums |-> IF i = r THEN Store!Empty("T_DIR") ELSE Store!Absent]
  BY <1>4
<1>6. CASE r = 1
  <2>1. status = "up"
    BY <1>1, <1>6 DEF r
  <2> QED
    BY <1>5, <1>6, <2>1 DEF Store!Init
<1>7. CASE r # 1
  <2>1. status # "up"
    BY <1>1, <1>7 DEF r
  <2> QED
    BY <1>3, <1>5, <2>1 DEF Store!Init
<1> QED
  BY <1>6, <1>7

\* Every step of the extent server is a step of the store or changes nothing
\* that its callers see.
LEMMA NextStore ==
    ASSUME SInv, SInv', [Next]_imVars PROVE [Store!Next]_(Store!storeVars)
<1>1. IInv /\ IInv' /\ TypeOK /\ Inums \subseteq InodeNums
  BY LayoutAssumption DEF SInv, IInv, Inums, InodeNums
<1>2. \A j \in InodeNums : Untouched(j) => FileOf(j)' = FileOf(j)
  BY <1>1, UntouchedFile
<1>3. ASSUME UNCHANGED <<disk, using_blocks>> PROVE \A j \in Inums : FileOf(j)' = FileOf(j)
  BY <1>1, <1>2, <1>3, SameUntouched
<1>4. \A i \in InodeNums : Exists(i) /\ status = "up" => i \in Inums
  BY LayoutAssumption DEF SInv, InodeNums, Inums
<1> DEFINE Goal == Store!Next \/ UNCHANGED Store!storeVars
<1>5. ASSUME NEW type \in NewTypes, create(type) PROVE Goal
  <2>1. status = "up" /\ status' = "up" /\ alloc_inode(type)
    BY <1>5 DEF create, alloc_inode
  <2>2. CASE AllocInum = 0
    BY <1>3, <2>1, <2>2, StutterStep DEF alloc_inode
  <2>3. CASE AllocInum # 0
    <3>1. PICK i \in Inums : /\ i = AllocInum
                             /\ get_inode(i)' = [ZeroInode EXCEPT !.type = type]
                             /\ \A j \in InodeNums : j # i => Untouched(j)
      BY <2>1, <2>3, AllocEffect
    <3>2. get_inode(i) = ZeroInode
      BY <1>1, <2>1, <2>3, <3>1, AllocEffect DEF SInv, Shaped
    <3>3. FileOf(i) = Store!Absent
      <4>1. FileOf(i) = Store!Empty("0")
        BY <3>2, EmptyFile DEF ZeroInode
      <4> QED
        BY <4>1 DEF Store!Absent, Store!Empty
    <3>4. FileOf(i)' = Store!Empty(type)
      <4>1. get_inode(i)'.size = 0 /\ get_inode(i)'.type = type
        BY <3>1 DEF ZeroInode
      <4> QED
        BY <4>1, EmptyFile
    <3>5. Store!Created(FileOf(i), FileOf(i)')
      BY <3>3, <3>4, IdAssumption DEF Store!Created
    <3>6. \A j \in Inums : j # i => FileOf(j)' = FileOf(j)
      BY <1>1, <1>2, <3>1
    <3> QED
      BY <2>1, <3>5, <3>6, ChangeStep
  <2> QED
    BY <2>2, <2>3
<1>6. ASSUME NEW id \in Ids, NEW size \in Sizes, NEW v \in Values, put(id, size, v) PROVE Goal
  <2> DEFINE i == Mask(id)
  <2>1. status = "up" /\ write_file(i, size, v) /\ i \in Nat
    BY <1>6, MaskFacts DEF put
  <2> HIDE DEF i
  <2>2. size \in Nat
    <3>1. Sizes \subseteq Nat
      BY LayoutAssumption
    <3> QED
      BY <3>1
  <2>3. CASE ~ Exists(i)
    BY <1>3, <2>1, <2>3, StutterStep DEF write_file, imVars
  <2>4. CASE Exists(i) /\ status' # "up"
    <3>1. i \in InodeNums /\ i \in Inums
      BY <1>4, <2>1, <2>4, ExistsInTable
    <3>2. status' = WriteStatus(i, size) /\ UNCHANGED <<disk, using_blocks>>
      BY <2>1, <2>4 DEF write_file
    <3>3. Damaged(i)
      BY <2>2, <2>4, <3>1, <3>2, WriteDiesDamaged
    <3> QED
      BY <1>1, <1>3, <2>1, <2>4, <3>1, <3>2, <3>3, DieStep
  <2>5. CASE Exists(i) /\ status' = "up"
    <3>1. i \in InodeNums /\ i \in Inums /\ Shaped(i)
      BY <1>4, <2>1, <2>5, ExistsInTable DEF SInv
    <3>2. /\ disk' = WriteDisk(i, size, v)
          /\ using_blocks' = UsingAfterFill(i, size)
                             \ {Filled(i, size)[s] : s \in FreedByWrite(i, size)}
      BY <2>1, <2>5 DEF write_file
    <3>3. \A j \in InodeNums : j # i => Untouched(j)
      BY <1>1, <3>1, <3>2, WriteFacts, Zenon
    <3>4. \A j \in Inums : j # i => FileOf(j)' = FileOf(j)
      BY <1>1, <1>2, <3>3
    <3>5. Store!Replaced(FileOf(i), FileOf(i)')
      BY <2>5, <3>1, <3>2, WriteReplaces, Zenon
    <3> QED
      BY <2>1, <2>5, <3>1, <3>4, <3>5, ChangeStep
  <2> QED
    BY <2>3, <2>4, <2>5
<1>7. ASSUME NEW id \in Ids, get(id) PROVE Goal
  <2> DEFINE i == Mask(id)
  <2>1. status = "up" /\ read_file(i) /\ i \in Nat
    BY <1>7, MaskFacts DEF get
  <2> HIDE DEF i
  <2>2. ~ (Exists(i) /\ ReadOverruns(i))
    BY <2>1, ExistsInTable, ShapeInBounds
  <2>3. status' = "up" /\ UNCHANGED <<disk, using_blocks>>
    BY <2>1, <2>2 DEF read_file
  <2> QED
    BY <1>3, <2>1, <2>3, StutterStep
<1>8. ASSUME NEW id \in Ids, remove(id) PROVE Goal
  <2> DEFINE i == Mask(id)
  <2>1. status = "up" /\ remove_file(i) /\ i \in Nat
    BY <1>8, MaskFacts DEF remove
  <2> HIDE DEF i
  <2>2. CASE ~ Exists(i)
    BY <1>3, <2>1, <2>2, StutterStep DEF remove_file, imVars
  <2>3. CASE Exists(i) /\ status' # "up"
    <3>1. i \in InodeNums /\ i \in Inums
      BY <1>4, <2>1, <2>3, ExistsInTable
    <3>2. /\ ~ ({Pointers(i)[s] : s \in FreedByRemove(i)} \subseteq using_blocks)
          /\ UNCHANGED <<disk, using_blocks>>
      BY <2>1, <2>3 DEF remove_file
    <3>3. Damaged(i)
      BY <3>1, <3>2, RemoveDiesDamaged
    <3> QED
      BY <1>1, <1>3, <2>1, <2>3, <3>1, <3>2, <3>3, DieStep
  <2>4. CASE Exists(i) /\ status' = "up"
    <3>1. i \in InodeNums /\ i \in Inums
      BY <1>4, <2>1, <2>4, ExistsInTable
    <3>2. get_inode(i)' = ZeroInode /\ \A j \in InodeNums : j # i => Untouched(j)
      BY <2>1, <2>4, <3>1, RemoveEffect
    <3>3. FileOf(i)' = Store!Absent
      <4>1. get_inode(i)'.size = 0 /\ get_inode(i)'.type = "0"
        BY <3>2 DEF ZeroInode
      <4>2. FileOf(i)' = Store!Empty("0")
        BY <4>1, EmptyFile
      <4> QED
        BY <4>2 DEF Store!Absent, Store!Empty
    <3>4. Store!Removed(FileOf(i), FileOf(i)')
      BY <2>4, <3>3, FileFacts DEF Store!Removed, Exists
    <3>5. \A j \in Inums : j # i => FileOf(j)' = FileOf(j)
      BY <1>1, <1>2, <3>2
    <3> QED
      BY <2>1, <2>4, <3>1, <3>4, <3>5, ChangeStep
  <2> QED
    BY <2>2, <2>3, <2>4
<1>9. ASSUME UNCHANGED imVars \/ \E id \in Ids : getattr(id) PROVE Goal
  <2>1. UNCHANGED <<disk, using_blocks, status>>
    BY <1>9 DEF imVars, getattr
  <2> QED
    BY <1>3, <2>1, StutterStep
<1> HIDE DEF Goal
<1>10. Goal
  BY <1>5, <1>6, <1>7, <1>8, <1>9 DEF Next
<1> QED
  BY <1>10 DEF Goal

\* The extent server implements the extent store: for every disk geometry, every
\* call on blocks and inodes is to a caller of get and getattr one call on a
\* table of files, and only a file that has lost bytes brings the process down.
THEOREM ServerImplementsStore == Spec => StoreSpec
<1>1. Init => Store!Init
  BY InitStore
<1>2. SInv /\ SInv' /\ [Next]_imVars => [Store!Next]_(Store!storeVars)
  BY NextStore
<1> QED
  BY <1>1, <1>2, SInvHolds, PTL DEF Spec, StoreSpec, Store!Spec

=============================================================================
