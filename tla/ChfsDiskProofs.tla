--------------------------- MODULE ChfsDiskProofs ---------------------------
(***************************************************************************)
(* Directories on the disk, for every number of names and entries, every   *)
(* number of blocks and of direct pointers, and whichever old entries, or  *)
(* bytes without a slash, memory holds where read_file finds no block.     *)
(*                                                                         *)
(* What a directory's blocks hold is a prefix of the last content that was *)
(* put (Stores).  A put reaches at least as far as the blocks that the     *)
(* directory had (PutDirStep), and what is read in front of the first lost *)
(* piece is what was put (GetsOf, ParsedFacts): so no readable entry is    *)
(* lost, and until the first loss the blocks are the text of the table.    *)
(* An intact directory is read as it was put (StoresIntact): a new entry   *)
(* has the inode of its request, and an unlink finds its name again.       *)
(***************************************************************************)
EXTENDS ChfsDisk, ExtentStoreProofs, SequenceTheorems

\* The pieces of a directory.
Piece == Entry \cup {Garbage}

\* Directory i was last put with content v, and its blocks from the c-th on are
\* lost.
Stores(i, v, c) ==
    /\ c \in 0 .. Len(v) /\ c <= MAXFILE
    /\ get_inode(i).size = BLOCK_SIZE * Len(v)
    /\ Content(i) = [k \in 0 .. Len(v) - 1 |-> IF k < c THEN [val |-> v, idx |-> k] ELSE Junk]

DirOK(i) == get_inode(i).type = "T_DIR" => \E v \in DirContents : \E c \in 0 .. Len(v) : Stores(i, v, c)

\* A node of the table for a directory with these entries.
DirNode(list) == [type |-> "T_DIR", data |-> C!Fields(list)]

\* The blocks of i are what the table says.
TableOK(i) ==
    /\ table[i].type = get_inode(i).type
    /\ get_inode(i).type = "T_DIR" =>
          \E v \in DirContents : v \in Seq(Entry) /\ Stores(i, v, Len(v)) /\ table[i] = DirNode(v)

Request == [op : {"create", "mkdir", "unlink"}, parent : Inums, name : Names, ino : InodeNums]

\* The request in progress: its directory is there, the inode that it has
\* allocated is empty, and the one that it has removed is gone.
RequestOK ==
    req # Idle =>
        /\ get_inode(req.parent).type = "T_DIR"
        /\ req.op \in {"create", "mkdir"} =>
              /\ get_inode(req.parent).size < MaxEntries * BLOCK_SIZE
              /\ req.ino = 0 => Cardinality(FreeInums) <= 1
              /\ req.ino # 0 => /\ req.ino # req.parent
                                /\ get_inode(req.ino).type = NewType[req.op]
                                /\ get_inode(req.ino).size = 0
        /\ req.op = "unlink" => req.ino \in Inums /\ get_inode(req.ino).type = "0"

\* The table, but for the inode of the request in progress.
TableInv ==
    /\ table = [i \in Inums |-> table[i]]
    /\ \A i \in Inums : (req # Idle => req.ino # i) => TableOK(i)
    /\ req # Idle /\ req.op = "unlink" => req.ino = C!lookup(table, req.parent, req.name).ino

\* The inductive invariant.
DInv ==
    /\ SInv
    /\ req = Idle \/ req \in Request
    /\ lost \in BOOLEAN
    /\ status = "up" => /\ \A i \in Inums : DirOK(i)
                        /\ RequestOK
                        /\ ~ lost => TableInv

-----------------------------------------------------------------------------
(* Directories as text. *)

\* Entries, and the piece that is none.
LEMMA EntryFacts ==
    /\ Garbage \notin Entry /\ Garbage.name \notin Names /\ Garbage.name = "none"
    /\ \A e \in Entry : e.name \in Names /\ e.inum \in InodeNums /\ e.name # Garbage.name
    /\ \A e \in Entry : e = [inum |-> e.inum, name |-> e.name]
    /\ \A n \in InodeNums, name \in Names : [inum |-> n, name |-> name] \in Entry
    /\ INODE_NUM \in Nat /\ MaxEntries \in Nat /\ BLOCK_SIZE \in Nat /\ BLOCK_SIZE >= 4
    /\ C!Inums = Inums
<1>1. Garbage.name \notin Names /\ Garbage.name = "none"
  BY EntryAssumption DEF Garbage
<1>2. \A e \in Entry : e.name \in Names /\ e.inum \in InodeNums
  BY DEF Entry
<1>3. INODE_NUM \in Nat /\ MaxEntries \in Nat /\ BLOCK_SIZE \in Nat /\ BLOCK_SIZE >= 4
  BY LayoutAssumption, EntryAssumption
<1>4. C!Inums = Inums
  BY DEF C!Inums, Inums
<1> QED
  BY <1>1, <1>2, <1>3, <1>4 DEF Entry

\* The contents of directories are the sequences of pieces up to the bound.
LEMMA DirContentsAre ==
    /\ \A v \in DirContents : v \in Seq(Piece) /\ Len(v) \in 0 .. MaxEntries /\ v \in Values
    /\ \A v \in Seq(Piece) : Len(v) <= MaxEntries => v \in DirContents
    /\ Seq(Entry) \subseteq Seq(Piece)
<1>1. MaxEntries \in Nat
  BY EntryFacts
<1>2. ASSUME NEW v \in DirContents
      PROVE  v \in Seq(Piece) /\ Len(v) \in 0 .. MaxEntries /\ v \in Values
  <2>1. PICK n \in 0 .. MaxEntries : v \in [1 .. n -> Piece]
    BY DEF DirContents, Piece
  <2>2. v \in Values
    BY CallerAssumption
  <2> QED
    BY <1>1, <2>1, <2>2
<1>3. ASSUME NEW v \in Seq(Piece), Len(v) <= MaxEntries PROVE v \in DirContents
  <2>1. v \in [1 .. Len(v) -> Piece] /\ Len(v) \in 0 .. MaxEntries
    BY <1>1, <1>3
  <2> QED
    BY <2>1 DEF DirContents, Piece
<1>4. Seq(Entry) \subseteq Seq(Piece)
  BY DEF Piece
<1> QED
  BY <1>2, <1>3, <1>4

\* A block holds one piece.
LEMMA ChunksOf ==
    ASSUME NEW n \in Nat
    PROVE  /\ Chunks(BLOCK_SIZE * n) = n /\ BLOCK_SIZE * n \in Nat
           /\ n <= MaxEntries => BLOCK_SIZE * n \in Sizes
<1>1. BLOCK_SIZE = 4 /\ MaxEntries \in Nat
  BY EntryAssumption
<1>2. n <= MaxEntries => BLOCK_SIZE * n \in Sizes
  BY <1>1, CallerAssumption
<1>3. n # 0 => (4 * n - 1) \div 4 + 1 = n
  OBVIOUS
<1> QED
  BY <1>1, <1>2, <1>3 DEF Chunks, BlocksFor

\* The content of a directory has two fields for each of its entries.
LEMMA FieldsShape ==
    ASSUME NEW list \in Seq(Entry)
    PROVE  /\ Len(C!Fields(list)) = 2 * Len(list)
           /\ C!Fields(list) = [j \in 1 .. 2 * Len(list) |-> C!Fields(list)[j]]
           /\ \A k \in 1 .. Len(list) : /\ C!Fields(list)[2 * k - 1] = C!filename(list[k].inum)
                                        /\ C!Fields(list)[2 * k] = list[k].name
<1>1. Len(list) \in Nat
  OBVIOUS
<1>2. /\ Len(C!Fields(list)) = 2 * Len(list)
      /\ C!Fields(list) = [j \in 1 .. 2 * Len(list) |-> C!Fields(list)[j]]
  BY <1>1 DEF C!Fields
<1>3. ASSUME NEW k \in 1 .. Len(list)
      PROVE  /\ C!Fields(list)[2 * k - 1] = C!filename(list[k].inum)
             /\ C!Fields(list)[2 * k] = list[k].name
  <2>1. 2 * k \in 1 .. 2 * Len(list) /\ 2 * k - 1 \in 1 .. 2 * Len(list)
    BY <1>1
  <2>2. (2 * k) % 2 = 0 /\ (2 * k - 1) % 2 = 1 /\ (2 * k) \div 2 = k /\ (2 * k - 1 + 1) \div 2 = k
    OBVIOUS
  <2> QED
    BY <2>1, <2>2 DEF C!Fields
<1> QED
  BY <1>2, <1>3

\* The text of an empty directory is empty.
LEMMA EmptyFields == C!Fields(<< >>) = << >> /\ << >> \in Seq(Entry)
  BY DEF C!Fields

\* What readdir makes of a text: the entries that it was written from, or an
\* error when something without a slash is left over.
LEMMA FieldsRead ==
    ASSUME NEW f, NEW d \in Inums, NEW list \in Seq(Entry), f[d].type = "T_DIR"
    PROVE  /\ f[d].data = C!Fields(list) => C!readdir(f, d).r = "OK" /\ C!readdir(f, d).list = list
           /\ f[d].data = C!Fields(list) \o <<Garbage>> => C!readdir(f, d).r # "OK"
<1>1. Len(list) \in Nat /\ list = [k \in 1 .. Len(list) |-> list[k]]
  OBVIOUS
<1>2. C!ec_get(f, d) = f[d].data /\ C!check_dir_inode(f, d)
  BY EntryFacts DEF C!ec_get, C!check_dir_inode, C!TypeIn
<1>3. \A n \in Nat : (2 * n) % 2 = 0 /\ (2 * n) \div 2 = n /\ (2 * n + 1) % 2 = 1
  OBVIOUS
<1>4. ASSUME f[d].data = C!Fields(list) PROVE C!readdir(f, d).r = "OK" /\ C!readdir(f, d).list = list
  <2>0. /\ Len(C!ec_get(f, d)) = 2 * Len(list) /\ C!ec_get(f, d) = C!Fields(list)
        /\ (2 * Len(list)) % 2 = 0 /\ (2 * Len(list)) \div 2 = Len(list)
    BY <1>1, <1>2, <1>3, <1>4, FieldsShape
  <2>1. C!readdir(f, d).r = "OK"
    BY <1>2, <2>0 DEF C!readdir
  <2>2. ASSUME NEW k \in 1 .. Len(list)
        PROVE  [inum |-> C!n2i(C!Fields(list)[2 * k - 1]), name |-> C!Fields(list)[2 * k]] = list[k]
    <3>1. list[k] \in Entry
      BY <1>1
    <3>2. C!n2i(C!filename(list[k].inum)) = list[k].inum
      BY <3>1, EntryFacts DEF C!n2i, C!filename, InodeNums
    <3>3. list[k] = [inum |-> list[k].inum, name |-> list[k].name]
      BY <3>1, EntryFacts
    <3> QED
      BY <3>2, <3>3, FieldsShape
  <2>3. C!readdir(f, d).list = [k \in 1 .. Len(list) |->
                [inum |-> C!n2i(C!Fields(list)[2 * k - 1]), name |-> C!Fields(list)[2 * k]]]
    BY <1>2, <2>0 DEF C!readdir
  <2> QED
    BY <1>1, <2>1, <2>2, <2>3
<1>5. ASSUME f[d].data = C!Fields(list) \o <<Garbage>> PROVE C!readdir(f, d).r # "OK"
  <2>1. Len(C!Fields(list) \o <<Garbage>>) = 2 * Len(list) + 1
    <3> DEFINE text == C!Fields(list)
    <3>1. text = [j \in 1 .. 2 * Len(list) |-> text[j]] /\ Len(text) = 2 * Len(list) /\ 2 * Len(list) \in Nat
      BY <1>1, FieldsShape
    <3> HIDE DEF text
    <3>2. text \in Seq({text[j] : j \in 1 .. 2 * Len(list)})
      BY <3>1
    <3>3. Len(text \o <<Garbage>>) = 2 * Len(list) + 1
      BY <3>1
    <3> QED
      BY <3>3 DEF text
  <2>2. PICK buf : buf = C!ec_get(f, d)
    OBVIOUS
  <2>3. Len(buf) % 2 = 1
    BY <1>1, <1>2, <1>3, <1>5, <2>1, <2>2
  <2>4. Len(C!ec_get(f, d)) % 2 # 0
    BY <2>2, <2>3
  <2>5. C!readdir(f, d).r = IF C!check_dir_inode(f, d) /\ Len(C!ec_get(f, d)) % 2 = 0 THEN "OK" ELSE "IOERR"
    BY DEF C!readdir
  <2> QED
    BY <2>4, <2>5
<1> QED
  BY <1>4, <1>5

\* Appending the text of an entry to a directory appends the entry.
LEMMA FieldsAppend ==
    ASSUME NEW list \in Seq(Entry), NEW entry \in Entry
    PROVE  C!Fields(list) \o <<C!filename(entry.inum), entry.name>> = C!Fields(Append(list, entry))
<1> DEFINE more == Append(list, entry)
           n == Len(list)
           two == <<C!filename(entry.inum), entry.name>>
<1>1. n \in Nat
  OBVIOUS
<1>2. more \in Seq(Entry) /\ Len(more) = n + 1 /\ more[n + 1] = entry
      /\ \A k \in 1 .. n : more[k] = list[k]
  BY <1>1
<1> HIDE DEF more
<1> DEFINE left == C!Fields(list) \o two
           right == C!Fields(more)
<1>3. Len(C!Fields(list)) = 2 * n /\ Len(right) = 2 * n + 2
  BY <1>1, <1>2 DEF C!Fields
<1>4. C!Fields(list) = [j \in 1 .. 2 * n |-> C!Fields(list)[j]] /\ right = [j \in 1 .. 2 * n + 2 |-> right[j]]
  BY <1>1, <1>2 DEF C!Fields
<1>5. left = [j \in 1 .. 2 * n + 2 |-> IF j <= 2 * n THEN C!Fields(list)[j] ELSE two[j - 2 * n]]
  BY <1>1, <1>3, <1>4
<1>6. ASSUME NEW j \in 1 .. 2 * n + 2
      PROVE  right[j] = IF j <= 2 * n THEN C!Fields(list)[j] ELSE two[j - 2 * n]
  <2>1. CASE j <= 2 * n
    <3>1. (j % 2 = 1 => (j + 1) \div 2 \in 1 .. n) /\ (j % 2 # 1 => j \div 2 \in 1 .. n)
      BY <1>1, <2>1
    <3> QED
      BY <1>1, <1>2, <2>1, <3>1 DEF C!Fields
  <2>2. CASE j > 2 * n
    <3>1. j = 2 * (n + 1) - 1 \/ j = 2 * (n + 1)
      BY <1>1, <2>2
    <3>2. right[2 * (n + 1) - 1] = C!filename(entry.inum) /\ right[2 * (n + 1)] = entry.name
      <4>1. n + 1 \in 1 .. Len(more) /\ more[n + 1] = entry
        BY <1>1, <1>2
      <4>2. \A k \in 1 .. Len(more) : right[2 * k - 1] = C!filename(more[k].inum) /\ right[2 * k] = more[k].name
        BY <1>2, FieldsShape
      <4> QED
        BY <4>1, <4>2
    <3>3. 2 * (n + 1) - 1 - 2 * n = 1 /\ 2 * (n + 1) - 2 * n = 2
      BY <1>1
    <3> QED
      BY <1>1, <2>2, <3>1, <3>2, <3>3
  <2> QED
    BY <1>1, <2>1, <2>2
<1> QED
  BY <1>4, <1>5, <1>6 DEF more

\* A list without a name: the entries of other names, none of them further back
\* than it was, and the first ones where they were.
Shortened(list, rest, name) ==
    /\ Len(rest) <= Len(list)
    /\ \A n \in 1 .. Len(rest) : \E k \in 1 .. Len(list) : rest[n] = list[k] /\ list[k].name # name
    /\ \A k \in 1 .. Len(list) : list[k].name # name =>
          \E n \in 1 .. Len(rest) : n <= k /\ rest[n] = list[k]
    /\ \A k \in 1 .. Len(list) : (\A j \in 1 .. k : list[j].name # name) =>
          k <= Len(rest) /\ rest[k] = list[k]

\* What unlink writes back is the list without the name.
LEMMA WithoutFacts ==
    ASSUME NEW S, NEW list \in Seq(S), NEW name
    PROVE  C!Without(list, name) \in Seq(S) /\ Shortened(list, C!Without(list, name), name)
<1> DEFINE kept == {k \in DOMAIN list : list[k].name # name}
           nth(n) == CHOOSE k \in kept : Cardinality({j \in kept : j <= k}) = n
           N == 1 .. Cardinality(kept)
           rest == C!Without(list, name)
<1>1. DOMAIN list = 1 .. Len(list) /\ Len(list) \in Nat /\ \A k \in DOMAIN list : list[k] \in S
  OBVIOUS
<1>2. /\ kept \in SUBSET Int /\ IsFiniteSet(kept) /\ Cardinality(kept) \in Nat
      /\ Cardinality(kept) <= Len(list)
  <2>1. kept \subseteq 1 .. Len(list) /\ IsFiniteSet(1 .. Len(list)) /\ Cardinality(1 .. Len(list)) = Len(list)
    BY <1>1, FS_Interval
  <2>2. IsFiniteSet(kept) /\ Cardinality(kept) <= Len(list)
    BY <2>1, FS_Subset
  <2> QED
    BY <2>1, <2>2, FS_CardinalityType
<1>3. rest = [n \in N |-> list[nth(n)]]
  BY DEF C!Without, C!Cardinality, Cardinality
<1>4. \A k \in kept : Rank(kept, k) \in N
  BY <1>2, RankFacts
<1>5. \A k, l \in kept : Rank(kept, k) = Rank(kept, l) => k = l
  BY <1>2, RankFacts
<1>6. \A n \in N : \E k \in kept : Rank(kept, k) = n
  BY <1>2, RankOnto
<1>7. ASSUME NEW n \in N PROVE nth(n) \in kept /\ Rank(kept, nth(n)) = n
  <2>1. nth(n) = CHOOSE k \in kept : Rank(kept, k) = n
    BY DEF Rank
  <2> QED
    BY <1>6, <2>1
<1>8. \A k \in kept : k \in 1 .. Len(list) /\ list[k].name # name
  BY <1>1
<1>9. ASSUME NEW k \in kept PROVE nth(Rank(kept, k)) = k
  BY <1>4, <1>5, <1>7, <1>9
<1>10. ASSUME NEW k \in kept
       PROVE  /\ Rank(kept, k) <= k
              /\ (\A j \in 1 .. k : list[j].name # name) => Rank(kept, k) = k
  <2> DEFINE below == {j \in kept : j <= k}
  <2>1. k \in Nat /\ k >= 1 /\ k <= Len(list)
    BY <1>1, <1>10
  <2>2. below \subseteq 1 .. k
    BY <1>1, <2>1
  <2>3. IsFiniteSet(1 .. k) /\ Cardinality(1 .. k) = k
    BY <2>1, FS_Interval
  <2>4. Cardinality(below) <= k
    BY <2>2, <2>3, FS_Subset
  <2>5. ASSUME \A j \in 1 .. k : list[j].name # name PROVE below = 1 .. k
    BY <1>1, <2>1, <2>2, <2>5
  <2>6. Rank(kept, k) = Cardinality(below)
    BY DEF Rank
  <2> HIDE DEF below
  <2> QED
    BY <2>3, <2>4, <2>5, <2>6
<1>11. \A k \in 1 .. Len(list) : list[k].name # name => k \in kept
  BY <1>1
<1> HIDE DEF kept, nth, N, rest
<1>12. rest \in Seq(S) /\ Len(rest) = Cardinality(kept) /\ N = 1 .. Len(rest)
  <2>1. \A n \in N : list[nth(n)] \in S
    BY <1>1, <1>7, <1>8
  <2> QED
    BY <1>2, <1>3, <2>1 DEF N
<1>13. ASSUME NEW n \in 1 .. Len(rest)
       PROVE  \E k \in 1 .. Len(list) : rest[n] = list[k] /\ list[k].name # name
  BY <1>3, <1>7, <1>8, <1>12
<1>14. ASSUME NEW k \in 1 .. Len(list), list[k].name # name
       PROVE  /\ Rank(kept, k) \in 1 .. Len(rest) /\ Rank(kept, k) <= k
              /\ rest[Rank(kept, k)] = list[k]
              /\ (\A j \in 1 .. k : list[j].name # name) => Rank(kept, k) = k
  <2>1. k \in kept
    BY <1>11, <1>14
  <2>2. Rank(kept, k) \in N /\ nth(Rank(kept, k)) = k
    BY <1>4, <1>9, <2>1
  <2> QED
    BY <1>3, <1>10, <1>12, <2>1, <2>2
<1>15. ASSUME NEW k \in 1 .. Len(list), \A j \in 1 .. k : list[j].name # name
       PROVE  k <= Len(rest) /\ rest[k] = list[k]
  <2>1. list[k].name # name
    BY <1>1, <1>15
  <2>2. Rank(kept, k) = k /\ Rank(kept, k) \in 1 .. Len(rest) /\ rest[Rank(kept, k)] = list[k]
    BY <1>14, <1>15, <2>1
  <2> QED
    BY <1>12, <2>2
<1>16. Len(rest) <= Len(list)
  BY <1>2, <1>12
<1> QED
  BY <1>12, <1>13, <1>14, <1>15, <1>16 DEF rest, Shortened

\* A list without a name that is not in it is the same list.
LEMMA WithoutAbsent ==
    ASSUME NEW S, NEW list \in Seq(S), NEW name, \A k \in 1 .. Len(list) : list[k].name # name
    PROVE  C!Without(list, name) = list
<1> DEFINE rest == C!Without(list, name)
<1>1. /\ rest \in Seq(S) /\ Len(rest) <= Len(list)
      /\ \A k \in 1 .. Len(list) : (\A j \in 1 .. k : list[j].name # name) =>
            k <= Len(rest) /\ rest[k] = list[k]
  <2>1. rest \in Seq(S) /\ Shortened(list, rest, name)
    BY WithoutFacts
  <2> HIDE DEF rest
  <2> QED
    BY <2>1 DEF Shortened
<1>2. Len(list) \in Nat /\ Len(rest) \in Nat
  BY <1>1
<1> HIDE DEF rest
<1>3. \A k \in 1 .. Len(list) : k <= Len(rest) /\ rest[k] = list[k]
  <2> TAKE k \in 1 .. Len(list)
  <2>1. \A j \in 1 .. k : j \in 1 .. Len(list)
    BY <1>2
  <2> QED
    BY <1>1, <2>1
<1>4. Len(rest) = Len(list)
  <2>1. CASE Len(list) = 0
    BY <1>1, <1>2, <2>1
  <2>2. CASE Len(list) # 0
    <3>1. Len(list) \in 1 .. Len(list)
      BY <1>2, <2>2
    <3> QED
      BY <1>1, <1>2, <1>3, <3>1
  <2> QED
    BY <2>1, <2>2
<1>5. rest = [k \in 1 .. Len(list) |-> rest[k]] /\ list = [k \in 1 .. Len(list) |-> list[k]]
  BY <1>1, <1>4
<1> QED
  BY <1>3, <1>5 DEF rest

\* The fields of any content: those of a list of entries, which begins as the
\* content does up to the first bytes without a slash.
LEMMA FieldsOfFacts ==
    ASSUME NEW c \in Seq(Piece)
    PROVE  \E list \in Seq(Entry) :
              /\ FieldsOf(c) \in {C!Fields(list), C!Fields(list) \o <<Garbage>>}
              /\ Len(list) <= Len(c)
              /\ \A k \in 1 .. Len(c) : (\A j \in 1 .. k : c[j] # Garbage) =>
                    k <= Len(list) /\ list[k] = c[k]
              /\ c \in Seq(Entry) => list = c /\ FieldsOf(c) = C!Fields(list)
<1> DEFINE inum(k) == IF k > 1 /\ c[k - 1] = Garbage THEN 0 ELSE c[k].inum
           read == [k \in DOMAIN c |-> [inum |-> inum(k), name |-> c[k].name]]
           list == C!Without(read, Garbage.name)
           S == {read[k] : k \in 1 .. Len(c)}
           tail == IF c # << >> /\ c[Len(c)] = Garbage THEN <<Garbage>> ELSE << >>
<1>1. DOMAIN c = 1 .. Len(c) /\ Len(c) \in Nat /\ \A k \in 1 .. Len(c) : c[k] \in Piece
  OBVIOUS
<1>2. FieldsOf(c) = C!Fields(list) \o tail
  BY DEF FieldsOf
<1>3. ASSUME NEW k \in 1 .. Len(c)
      PROVE  /\ read[k].name = c[k].name
             /\ c[k] = Garbage <=> read[k].name = Garbage.name
             /\ c[k] # Garbage => read[k] \in Entry
             /\ c[k] # Garbage /\ (k > 1 => c[k - 1] # Garbage) => read[k] = c[k]
  <2>1. read[k] = [inum |-> inum(k), name |-> c[k].name]
    BY <1>1
  <2>2. c[k] \in Entry \/ c[k] = Garbage
    BY <1>1 DEF Piece
  <2>3. c[k] = Garbage <=> c[k].name = Garbage.name
    BY <2>2, EntryFacts
  <2>4. ASSUME c[k] # Garbage PROVE [inum |-> inum(k), name |-> c[k].name] \in Entry
    <3>1. c[k].name \in Names /\ c[k].inum \in InodeNums /\ 0 \in InodeNums
      BY <2>2, <2>4, EntryFacts DEF InodeNums
    <3>2. inum(k) \in InodeNums
      BY <3>1
    <3> QED
      BY <3>1, <3>2, EntryFacts
  <2>5. ASSUME c[k] # Garbage, k > 1 => c[k - 1] # Garbage
        PROVE  [inum |-> inum(k), name |-> c[k].name] = c[k]
    BY <2>2, <2>5, EntryFacts
  <2> QED
    BY <2>1, <2>3, <2>4, <2>5
<1>4. read \in Seq(S) /\ Len(read) = Len(c)
  BY <1>1
<1> HIDE DEF read, S, inum
<1>5. /\ list \in Seq(S) /\ Len(list) <= Len(c)
      /\ \A n \in 1 .. Len(list) : \E k \in 1 .. Len(c) : list[n] = read[k] /\ read[k].name # Garbage.name
      /\ \A k \in 1 .. Len(c) : (\A j \in 1 .. k : read[j].name # Garbage.name) =>
            k <= Len(list) /\ list[k] = read[k]
  <2>1. /\ list \in Seq(S) /\ Len(list) <= Len(read)
        /\ \A n \in 1 .. Len(list) : \E k \in 1 .. Len(read) : list[n] = read[k] /\ read[k].name # Garbage.name
        /\ \A k \in 1 .. Len(read) : (\A j \in 1 .. k : read[j].name # Garbage.name) =>
              k <= Len(list) /\ list[k] = read[k]
    <3>1. list \in Seq(S) /\ Shortened(read, list, Garbage.name)
      BY <1>4, WithoutFacts
    <3> HIDE DEF list
    <3> QED
      BY <3>1 DEF Shortened
  <2> QED
    BY <1>4, <2>1
<1>6. list \in Seq(Entry)
  <2>1. \A n \in 1 .. Len(list) : list[n] \in Entry
    BY <1>3, <1>5
  <2> HIDE DEF list
  <2> QED
    BY <1>5, <2>1
<1>7. ASSUME NEW k \in 1 .. Len(c), \A j \in 1 .. k : c[j] # Garbage
      PROVE  k <= Len(list) /\ list[k] = c[k]
  <2>1. \A j \in 1 .. k : j \in 1 .. Len(c) /\ read[j].name # Garbage.name
    BY <1>1, <1>3, <1>7
  <2>2. k \in 1 .. k /\ (k > 1 => k - 1 \in 1 .. k)
    BY <1>1
  <2>3. read[k] = c[k]
    BY <1>3, <1>7, <2>2
  <2> QED
    BY <1>5, <2>1, <2>3
<1>8. C!Fields(list) \o << >> = C!Fields(list)
  <2> HIDE DEF list
  <2> DEFINE text == C!Fields(list)
  <2>1. text = [j \in 1 .. 2 * Len(list) |-> text[j]] /\ 2 * Len(list) \in Nat
    BY <1>6, FieldsShape
  <2> HIDE DEF text
  <2>2. text \in Seq({text[j] : j \in 1 .. 2 * Len(list)})
    BY <2>1
  <2>3. text \o << >> = text
    BY <2>2
  <2> QED
    BY <2>3 DEF text
<1>9. ASSUME c \in Seq(Entry) PROVE list = c /\ FieldsOf(c) = C!Fields(list)
  <2>1. \A k \in 1 .. Len(c) : c[k] # Garbage
    BY <1>1, <1>9, EntryFacts
  <2>2. \A k \in 1 .. Len(c) : k <= Len(list) /\ list[k] = c[k]
    <3> TAKE k \in 1 .. Len(c)
    <3>1. \A j \in 1 .. k : c[j] # Garbage
      BY <1>1, <2>1
    <3> QED
      BY <1>7, <3>1
  <2> HIDE DEF list
  <2>3. Len(list) = Len(c)
    <3>1. Len(list) \in Nat
      BY <1>6
    <3>2. CASE Len(c) = 0
      BY <1>5, <3>1, <3>2
    <3>3. CASE Len(c) # 0
      <4>1. Len(c) \in 1 .. Len(c)
        BY <1>1, <3>3
      <4>2. Len(c) <= Len(list)
        BY <2>2, <4>1
      <4>3. Len(list) <= Len(c)
        BY <1>5
      <4> QED
        BY <1>1, <3>1, <4>2, <4>3
    <3> QED
      BY <3>2, <3>3
  <2>4. list = c
    <3>1. list = [k \in 1 .. Len(c) |-> list[k]] /\ c = [k \in 1 .. Len(c) |-> c[k]]
      BY <1>6, <2>3
    <3> QED
      BY <2>2, <3>1
  <2>5. tail = << >>
    <3>1. CASE c = << >>
      BY <3>1
    <3>2. CASE c # << >>
      <4>1. Len(c) \in 1 .. Len(c)
        BY <1>1, <3>2
      <4> QED
        BY <2>1, <4>1
    <3> QED
      BY <3>1, <3>2
  <2> HIDE DEF tail
  <2>6. FieldsOf(c) = C!Fields(list)
    BY <1>2, <1>8, <2>5
  <2> QED
    BY <2>4, <2>6
<1>10. FieldsOf(c) \in {C!Fields(list), C!Fields(list) \o <<Garbage>>}
  <2>1. tail = <<Garbage>> \/ tail = << >>
    OBVIOUS
  <2> HIDE DEF tail, list
  <2> QED
    BY <1>2, <1>8, <2>1
<1> HIDE DEF list
<1> QED
  BY <1>5, <1>6, <1>7, <1>9, <1>10

\* What a request reads in a directory from which it has got c.
LEMMA ParsedFacts ==
    ASSUME NEW d \in Inums, get_inode(d).type = "T_DIR", NEW c \in Seq(Piece)
    PROVE  \E list \in Seq(Entry) :
              /\ C!readdir(View(d, c), d).r = "OK" => C!readdir(View(d, c), d).list = list
              /\ Len(list) <= Len(c)
              /\ \A k \in 1 .. Len(c) : (\A j \in 1 .. k : c[j] # Garbage) =>
                    k <= Len(list) /\ list[k] = c[k]
              /\ c \in Seq(Entry) =>
                    /\ list = c /\ C!readdir(View(d, c), d).r = "OK"
                    /\ View(d, c)[d].data = C!Fields(c)
<1>1. View(d, c)[d].type = "T_DIR" /\ View(d, c)[d].data = FieldsOf(c)
  BY DEF View, Attr
<1>2. PICK list \in Seq(Entry) :
              /\ FieldsOf(c) \in {C!Fields(list), C!Fields(list) \o <<Garbage>>}
              /\ Len(list) <= Len(c)
              /\ \A k \in 1 .. Len(c) : (\A j \in 1 .. k : c[j] # Garbage) =>
                    k <= Len(list) /\ list[k] = c[k]
              /\ c \in Seq(Entry) => list = c /\ FieldsOf(c) = C!Fields(list)
  BY FieldsOfFacts
<1>3. /\ View(d, c)[d].data = C!Fields(list) =>
            C!readdir(View(d, c), d).r = "OK" /\ C!readdir(View(d, c), d).list = list
      /\ View(d, c)[d].data = C!Fields(list) \o <<Garbage>> => C!readdir(View(d, c), d).r # "OK"
  <2>1. PICK f : f = View(d, c)
    OBVIOUS
  <2>2. /\ f[d].data = C!Fields(list) => C!readdir(f, d).r = "OK" /\ C!readdir(f, d).list = list
        /\ f[d].data = C!Fields(list) \o <<Garbage>> => C!readdir(f, d).r # "OK"
    <3>1. f[d].type = "T_DIR"
      BY <1>1, <2>1
    <3> QED
      BY <3>1, FieldsRead
  <2> QED
    BY <2>1, <2>2
<1> QED
  BY <1>1, <1>2, <1>3

-----------------------------------------------------------------------------
(* What the extent calls do to directories. *)

\* The numbers of inodes: those of files, and 0.
LEMMA InumFacts == Inums \subseteq InodeNums /\ 0 \in InodeNums /\ 0 \notin Inums /\ InodeNums = Inums \cup {0}
  BY LayoutAssumption DEF Inums, InodeNums

\* create of an extent.
LEMMA AllocDisk ==
    ASSUME SInv, status = "up", NEW type \in {"T_FILE", "T_DIR"}, alloc_inode(type)
    PROVE  /\ SInv' /\ status' = "up"
           /\ \E n \in InodeNums :
                 /\ n = AllocInum
                 /\ \A j \in Inums : j # n => Untouched(j)
                 /\ n # 0 => /\ get_inode(n).type = "0"
                             /\ get_inode(n)'.type = type /\ get_inode(n)'.size = 0
<1>1. type \in NewTypes
  BY CallerAssumption
<1>2. SInv'
  BY <1>1, NextSInv DEF create, Next
<1>3. IInv /\ TypeOK
  BY DEF SInv, IInv
<1>4. CASE AllocInum = 0
  <2>1. UNCHANGED <<disk, using_blocks>>
    BY <1>4 DEF alloc_inode
  <2>2. \A j \in Inums : Untouched(j)
    BY <1>3, <2>1, SameUntouched, InumFacts
  <2> QED
    BY <1>2, <1>4, <2>2, InumFacts DEF alloc_inode
<1>5. CASE AllocInum # 0
  <2>1. PICK n \in Inums :
             /\ n = AllocInum
             /\ get_inode(n)' = [ZeroInode EXCEPT !.type = type]
             /\ \A j \in InodeNums : j # n => Untouched(j)
    BY <1>1, <1>5, AllocEffect
  <2>2. ~ Exists(AllocInum)
    BY <1>1, <1>5, AllocEffect
  <2>3. get_inode(n).type = "0"
    BY <2>1, <2>2 DEF Exists
  <2>4. get_inode(n)'.type = type /\ get_inode(n)'.size = 0
    BY <2>1 DEF ZeroInode
  <2> QED
    BY <1>2, <2>1, <2>3, <2>4, InumFacts DEF alloc_inode
<1> QED
  BY <1>4, <1>5

\* remove of an extent.
LEMMA RemoveDisk ==
    ASSUME SInv, status = "up", NEW i \in Inums, get_inode(i).type # "0", remove_file(i)
    PROVE  /\ SInv'
           /\ status' = "up" => /\ get_inode(i)'.type = "0"
                                /\ \A j \in Inums : j # i => Untouched(j)
<1>1. i \in Nat /\ i \in InodeNums /\ Exists(i) /\ IInv
  BY InumFacts DEF Exists, SInv, Inums
<1>2. IInv'
  BY <1>1, RemoveStep
<1>3. CASE status' # "up"
  <2>1. UNCHANGED <<disk, using_blocks>>
    BY <1>1, <1>3 DEF remove_file
  <2> QED
    BY <1>2, <1>3, <2>1, SameShape DEF SInv
<1>4. CASE status' = "up"
  <2>1. /\ get_inode(i)' = ZeroInode
        /\ \A j \in InodeNums : Shaped(j)'
        /\ \A j \in InodeNums : j # i => Untouched(j)
    BY <1>1, <1>4, RemoveEffect
  <2>2. ~ Exists(0)'
    BY <2>1, InumFacts, ShapeFrame DEF SInv
  <2>3. get_inode(i)'.type = "0"
    BY <2>1 DEF ZeroInode
  <2> QED
    BY <1>2, <2>1, <2>2, <2>3, InumFacts DEF SInv
<1> QED
  BY <1>3, <1>4

\* put of an extent.
LEMMA WriteForm ==
    ASSUME SInv, status = "up", NEW i \in Inums, get_inode(i).type # "0",
           NEW size \in Sizes, NEW v \in Values, write_file(i, size, v)
    PROVE  /\ SInv' /\ i \in InodeNums /\ IInv /\ Shaped(i) /\ size \in Nat
           /\ status' = "up" =>
                 /\ disk' = WriteDisk(i, size, v)
                 /\ using_blocks' = UsingAfterFill(i, size)
                                    \ {Filled(i, size)[s] : s \in FreedByWrite(i, size)}
           /\ status' # "up" => WriteStatus(i, size) # "up" /\ UNCHANGED <<disk, using_blocks>>
<1>1. i \in Nat /\ i \in InodeNums /\ Exists(i) /\ IInv /\ Shaped(i)
  BY InumFacts DEF Exists, SInv, Inums
<1>2. SInv'
  BY <1>1, WriteStep, WriteShape DEF SInv
<1>3. size \in Nat
  BY LayoutAssumption
<1> QED
  BY <1>1, <1>2, <1>3 DEF write_file

\* put changes the size of its own file, and no other file.
LEMMA WriteOthers ==
    ASSUME SInv, status = "up", NEW i \in Inums, get_inode(i).type # "0",
           NEW size \in Sizes, NEW v \in Values, write_file(i, size, v)
    PROVE  /\ SInv'
           /\ status' = "up" => /\ get_inode(i)'.type = get_inode(i).type
                                /\ get_inode(i)'.size = size
                                /\ \A j \in Inums : j # i => Untouched(j)
<1>1. /\ SInv' /\ i \in InodeNums /\ IInv /\ Shaped(i) /\ size \in Nat
      /\ status' = "up" =>
            /\ disk' = WriteDisk(i, size, v)
            /\ using_blocks' = UsingAfterFill(i, size)
                               \ {Filled(i, size)[s] : s \in FreedByWrite(i, size)}
  BY WriteForm
<1>2. ASSUME status' = "up"
      PROVE  /\ get_inode(i)' = NodeAfter(i, size)
             /\ \A j \in InodeNums : j # i => Untouched(j)
  BY <1>1, <1>2, WriteFacts, Zenon
<1>3. TypeOK
  BY <1>1 DEF IInv
<1>4. NodeAfter(i, size).type = get_inode(i).type /\ NodeAfter(i, size).size = size
  BY <1>1, <1>3, NodeAfterFacts
<1> QED
  BY <1>1, <1>2, <1>4, InumFacts

\* A content of which nothing is lost is not damaged, and conversely.
LEMMA StoresDamaged ==
    ASSUME NEW i, NEW v \in DirContents, NEW c
    PROVE  /\ Stores(i, v, c) => (Damaged(i) <=> c # Len(v))
           /\ Stores(i, v, c)' => (Damaged(i)' <=> c # Len(v))
<1>1. Len(v) \in Nat /\ v \in Values
  BY DirContentsAre
<1> DEFINE Of == [k \in 0 .. Len(v) - 1 |-> IF k < c THEN [val |-> v, idx |-> k] ELSE Junk]
<1>2. ASSUME c \in 0 .. Len(v), c <= MAXFILE
      PROVE  (\E k \in DOMAIN Of : Of[k] = Junk) <=> c # Len(v)
  <2>1. MAXFILE \in Nat
    BY LayoutFacts
  <2>2. \A k \in 0 .. Len(v) - 1 : k < c => [val |-> v, idx |-> k] # Junk
    BY <1>1, <1>2, <2>1, JunkAssumption
  <2>3. c # Len(v) => c \in 0 .. Len(v) - 1
    BY <1>1, <1>2
  <2> QED
    BY <1>1, <1>2, <2>2, <2>3
<1> HIDE DEF Of
<1>3. ASSUME Stores(i, v, c) PROVE Damaged(i) <=> c # Len(v)
  <2>1. Content(i) = Of /\ c \in 0 .. Len(v) /\ c <= MAXFILE
    BY <1>3 DEF Stores, Of
  <2> QED
    BY <1>2, <2>1 DEF Damaged
<1>4. ASSUME Stores(i, v, c)' PROVE Damaged(i)' <=> c # Len(v)
  <2>1. Content(i)' = Of /\ c \in 0 .. Len(v) /\ c <= MAXFILE
    BY <1>4 DEF Stores, Of
  <2> QED
    BY <1>2, <2>1 DEF Damaged
<1> QED
  BY <1>3, <1>4

\* A directory that a step leaves alone holds what it held.
LEMMA StoresFrame ==
    ASSUME SInv, SInv', NEW i \in Inums, Untouched(i)
    PROVE  /\ get_inode(i)' = get_inode(i) /\ Content(i)' = Content(i)
           /\ \A v, c : Stores(i, v, c)' <=> Stores(i, v, c)
           /\ DirOK(i) => DirOK(i)'
<1>1. IInv /\ IInv' /\ i \in InodeNums
  BY InumFacts DEF SInv
<1>2. get_inode(i)' = get_inode(i)
  BY DEF Untouched
<1>3. Content(i)' = Content(i)
  BY <1>1, UntouchedFile
<1>4. ASSUME NEW v, NEW c PROVE Stores(i, v, c)' <=> Stores(i, v, c)
  BY <1>2, <1>3 DEF Stores
<1>5. DirOK(i) => DirOK(i)'
  BY <1>2, <1>4 DEF DirOK
<1> QED
  BY <1>2, <1>3, <1>4, <1>5

\* An inode of size 0 holds the empty content.
LEMMA EmptyStores ==
    ASSUME NEW i
    PROVE  /\ get_inode(i).size = 0 => Stores(i, << >>, 0)
           /\ get_inode(i)'.size = 0 => Stores(i, << >>, 0)'
           /\ << >> \in DirContents /\ << >> \in Seq(Entry) /\ Len(<< >>) = 0
<1>1. Chunks(0) = 0 /\ BLOCK_SIZE * 0 = 0 /\ MAXFILE \in Nat
  BY LayoutFacts, EntryFacts DEF Chunks
<1>2. ASSUME get_inode(i).size = 0 PROVE Stores(i, << >>, 0)
  BY <1>1, <1>2 DEF Stores, Content
<1>3. ASSUME get_inode(i)'.size = 0 PROVE Stores(i, << >>, 0)'
  BY <1>1, <1>3 DEF Stores, Content
<1>4. << >> \in DirContents
  <2>1. << >> \in Seq(Piece) /\ Len(<< >>) = 0 /\ MaxEntries \in Nat
    BY EntryFacts
  <2>2. << >> \in Seq(Piece) /\ Len(<< >>) <= MaxEntries
    BY <2>1
  <2> QED
    BY <2>2, DirContentsAre
<1> QED
  BY <1>2, <1>3, <1>4

\* What get returns begins with what the blocks still hold.
LEMMA GetsOf ==
    ASSUME NEW d \in Inums, NEW v \in DirContents, NEW c, Stores(d, v, c), NEW g \in Gets(d)
    PROVE  /\ g \in DirContents /\ Len(g) = Len(v)
           /\ \A k \in 1 .. c : g[k] = v[k]
           /\ c = Len(v) => g = v
<1>1. /\ Len(v) \in Nat /\ v \in Seq(Piece) /\ v \in Values /\ Len(v) <= MaxEntries
      /\ c \in 0 .. Len(v) /\ c <= MAXFILE /\ MAXFILE \in Nat
  BY DirContentsAre, LayoutFacts DEF Stores
<1> DEFINE content == Content(d)
           piece(k) == IF content[k - 1] = Junk THEN JunkReads
                       ELSE {content[k - 1].val[content[k - 1].idx + 1]}
           n == Cardinality(DOMAIN content)
           pieces == UNION {piece(k) : k \in 1 .. n}
<1>2. g \in {x \in [1 .. n -> pieces] : \A k \in 1 .. n : x[k] \in piece(k)}
  BY DEF Gets
<1>3. content = [k \in 0 .. Len(v) - 1 |-> IF k < c THEN [val |-> v, idx |-> k] ELSE Junk]
  BY DEF Stores
<1> HIDE DEF content
<1>4. n = Len(v)
  <2>1. DOMAIN content = 0 .. Len(v) - 1
    BY <1>3
  <2>2. Cardinality(0 .. Len(v) - 1) = Len(v)
    <3>1. 0 \in Int /\ Len(v) - 1 \in Int
      BY <1>1
    <3>2. Cardinality(0 .. Len(v) - 1) = IF 0 > Len(v) - 1 THEN 0 ELSE Len(v) - 1 - 0 + 1
      BY <3>1, FS_Interval
    <3> QED
      BY <1>1, <3>2
  <2> QED
    BY <2>1, <2>2
<1>5. ASSUME NEW k \in 1 .. Len(v)
      PROVE  /\ k <= c => piece(k) = {v[k]}
             /\ k > c => piece(k) = JunkReads
  <2>1. k - 1 \in 0 .. Len(v) - 1 /\ (k - 1 < c <=> k <= c) /\ k - 1 + 1 = k
    BY <1>1
  <2>2. k <= c => content[k - 1] = [val |-> v, idx |-> k - 1] /\ content[k - 1] # Junk
    BY <1>1, <1>3, <2>1, JunkAssumption
  <2>3. k > c => content[k - 1] = Junk
    BY <1>1, <1>3, <2>1
  <2> QED
    BY <1>1, <2>1, <2>2, <2>3
<1>6. JunkReads \subseteq Piece
  BY EntryAssumption DEF JunkReads, Piece, Entry
<1> HIDE DEF n, piece, pieces
<1>7. g = [k \in 1 .. Len(v) |-> g[k]] /\ \A k \in 1 .. Len(v) : g[k] \in piece(k)
  BY <1>2, <1>4
<1>8. ASSUME NEW k \in 1 .. Len(v) PROVE g[k] \in Piece /\ (k <= c => g[k] = v[k])
  <2>1. v[k] \in Piece
    BY <1>1
  <2> QED
    BY <1>1, <1>5, <1>6, <1>7, <2>1
<1>9. g \in Seq(Piece) /\ Len(g) = Len(v)
  BY <1>1, <1>7, <1>8
<1>10. g \in DirContents
  BY <1>1, <1>9, DirContentsAre
<1>11. \A k \in 1 .. c : g[k] = v[k]
  BY <1>1, <1>8
<1>12. ASSUME c = Len(v) PROVE g = v
  <2>1. v = [k \in 1 .. Len(v) |-> v[k]]
    BY <1>1
  <2> QED
    BY <1>7, <1>11, <1>12, <2>1
<1> QED
  BY <1>9, <1>10, <1>11, <1>12

\* The entries in the first c pieces of v, up to one that is no entry.
Front(v, c) == {v[k] : k \in {k \in 1 .. c : \A j \in 1 .. k : v[j] # Garbage}}

\* The readable entries are those in front of what is lost.
LEMMA StoresReadable ==
    ASSUME NEW i, NEW v \in DirContents, NEW c
    PROVE  /\ Stores(i, v, c) => Readable(i) = Front(v, c)
           /\ Stores(i, v, c)' => Readable(i)' = Front(v, c)
<1>1. /\ Len(v) \in Nat /\ v \in Values /\ MAXFILE \in Nat
  BY DirContentsAre, LayoutFacts
<1> DEFINE Of == [k \in 0 .. Len(v) - 1 |-> IF k < c THEN [val |-> v, idx |-> k] ELSE Junk]
           entry(content, k) == content[k].val[content[k].idx + 1]
           In(content) == {entry(content, k) : k \in {k \in DOMAIN content :
                              \A j \in 0 .. k : content[j] # Junk /\ entry(content, j) # Garbage}}
<1>2. ASSUME c \in 0 .. Len(v), c <= MAXFILE PROVE In(Of) = Front(v, c)
  <2>1. ASSUME NEW k \in 0 .. Len(v) - 1
        PROVE  /\ Of[k] = IF k < c THEN [val |-> v, idx |-> k] ELSE Junk
               /\ Of[k] # Junk <=> k < c
               /\ k < c => entry(Of, k) = v[k + 1]
    BY <1>1, <1>2, JunkAssumption
  <2>2. DOMAIN Of = 0 .. Len(v) - 1
    OBVIOUS
  <2> HIDE DEF Of, entry
  <2>3. ASSUME NEW k \in DOMAIN Of, \A j \in 0 .. k : Of[j] # Junk /\ entry(Of, j) # Garbage
        PROVE  /\ k + 1 \in 1 .. c /\ entry(Of, k) = v[k + 1]
               /\ \A j \in 1 .. k + 1 : v[j] # Garbage
    <3>1. k \in 0 .. k /\ k \in 0 .. Len(v) - 1
      BY <1>1, <2>2
    <3>2. k < c /\ entry(Of, k) = v[k + 1]
      BY <2>1, <2>3, <3>1
    <3>3. ASSUME NEW j \in 1 .. k + 1 PROVE v[j] # Garbage
      <4>1. j - 1 \in 0 .. k /\ j - 1 \in 0 .. Len(v) - 1 /\ j - 1 < c /\ j - 1 + 1 = j
        BY <1>1, <1>2, <3>1, <3>2
      <4>2. entry(Of, j - 1) # Garbage
        BY <2>3, <4>1
      <4>3. entry(Of, j - 1) = v[j - 1 + 1]
        BY <2>1, <4>1
      <4> QED
        BY <4>1, <4>2, <4>3
    <3>4. k + 1 \in 1 .. c
      BY <1>1, <1>2, <3>1, <3>2
    <3> QED
      BY <3>2, <3>3, <3>4
  <2>4. ASSUME NEW k \in 1 .. c, \A j \in 1 .. k : v[j] # Garbage
        PROVE  /\ k - 1 \in DOMAIN Of /\ entry(Of, k - 1) = v[k]
               /\ \A j \in 0 .. k - 1 : Of[j] # Junk /\ entry(Of, j) # Garbage
    <3>1. k - 1 \in 0 .. Len(v) - 1 /\ k - 1 < c /\ k - 1 + 1 = k
      BY <1>1, <1>2
    <3>2. entry(Of, k - 1) = v[k - 1 + 1]
      BY <2>1, <3>1
    <3>3. ASSUME NEW j \in 0 .. k - 1 PROVE Of[j] # Junk /\ entry(Of, j) # Garbage
      <4>1. j \in 0 .. Len(v) - 1 /\ j < c /\ j + 1 \in 1 .. k
        BY <1>1, <1>2, <3>1
      <4>2. Of[j] # Junk /\ entry(Of, j) = v[j + 1]
        BY <2>1, <4>1
      <4> QED
        BY <2>4, <4>1, <4>2
    <3> QED
      BY <2>2, <3>1, <3>2, <3>3
  <2>5. \A x : x \in In(Of) => x \in Front(v, c)
    <3> SUFFICES ASSUME NEW k \in DOMAIN Of, \A j \in 0 .. k : Of[j] # Junk /\ entry(Of, j) # Garbage
                 PROVE  entry(Of, k) \in Front(v, c)
      BY Zenon
    <3> QED
      BY <2>3 DEF Front
  <2>6. \A x : x \in Front(v, c) => x \in In(Of)
    <3> SUFFICES ASSUME NEW k \in 1 .. c, \A j \in 1 .. k : v[j] # Garbage PROVE v[k] \in In(Of)
      BY Zenon DEF Front
    <3> QED
      BY <2>4
  <2> HIDE DEF In
  <2> QED
    BY <2>5, <2>6
<1>3. ASSUME Stores(i, v, c) PROVE Readable(i) = Front(v, c)
  <2>1. Content(i) = Of /\ c \in 0 .. Len(v) /\ c <= MAXFILE
    BY <1>3 DEF Stores
  <2>2. Readable(i) = In(Content(i))
    BY DEF Readable
  <2> HIDE DEF Of, In
  <2> QED
    BY <1>2, <2>1, <2>2
<1>4. ASSUME Stores(i, v, c)' PROVE Readable(i)' = Front(v, c)
  <2>1. Content(i)' = Of /\ c \in 0 .. Len(v) /\ c <= MAXFILE
    BY <1>4 DEF Stores
  <2>2. Readable(i)' = In(Content(i)')
    BY DEF Readable
  <2> HIDE DEF Of, In
  <2> QED
    BY <1>2, <2>1, <2>2
<1> QED
  BY <1>3, <1>4

\* A directory is intact when all of the content that was put is there and
\* consists of entries.
LEMMA StoresIntact ==
    ASSUME NEW i, NEW v \in DirContents, NEW c
    PROVE  /\ Stores(i, v, c) => (Intact(i) <=> c = Len(v) /\ v \in Seq(Entry))
           /\ Stores(i, v, c)' => (Intact(i)' <=> c = Len(v) /\ v \in Seq(Entry))
<1>1. /\ Len(v) \in Nat /\ v \in Values /\ v \in Seq(Piece) /\ MAXFILE \in Nat
  BY DirContentsAre, LayoutFacts
<1> DEFINE Of == [k \in 0 .. Len(v) - 1 |-> IF k < c THEN [val |-> v, idx |-> k] ELSE Junk]
           Whole(content) == \A k \in DOMAIN content :
                                content[k] # Junk /\ content[k].val[content[k].idx + 1] # Garbage
<1>2. ASSUME c \in 0 .. Len(v), c <= MAXFILE PROVE Whole(Of) <=> c = Len(v) /\ v \in Seq(Entry)
  <2>1. ASSUME NEW k \in 0 .. Len(v) - 1
        PROVE  /\ Of[k] # Junk <=> k < c
               /\ k < c => Of[k].val[Of[k].idx + 1] = v[k + 1]
    BY <1>1, <1>2, JunkAssumption
  <2>2. DOMAIN Of = 0 .. Len(v) - 1
    OBVIOUS
  <2> HIDE DEF Of
  <2>3. ASSUME Whole(Of) PROVE c = Len(v) /\ v \in Seq(Entry)
    <3>1. ASSUME c # Len(v) PROVE FALSE
      <4>1. c \in 0 .. Len(v) - 1
        BY <1>1, <1>2, <3>1
      <4> QED
        BY <2>1, <2>2, <2>3, <4>1
    <3>2. ASSUME NEW k \in 1 .. Len(v) PROVE v[k] \in Entry
      <4>1. k - 1 \in 0 .. Len(v) - 1 /\ k - 1 < c /\ k - 1 + 1 = k
        BY <1>1, <3>1
      <4>2. v[k - 1 + 1] # Garbage
        BY <2>1, <2>2, <2>3, <4>1
      <4>3. v[k] \in Piece /\ v[k] # Garbage
        BY <1>1, <4>1, <4>2
      <4> QED
        BY <4>3 DEF Piece
    <3>3. v = [k \in 1 .. Len(v) |-> v[k]]
      BY <1>1
    <3>4. v \in [1 .. Len(v) -> Entry]
      BY <3>2, <3>3
    <3> QED
      BY <1>1, <3>1, <3>4
  <2>4. ASSUME c = Len(v), v \in Seq(Entry), NEW k \in DOMAIN Of
        PROVE  Of[k] # Junk /\ Of[k].val[Of[k].idx + 1] # Garbage
    <3>1. k \in 0 .. Len(v) - 1 /\ k < c /\ k + 1 \in 1 .. Len(v)
      BY <1>1, <2>2, <2>4
    <3>2. v[k + 1] \in Entry
      BY <2>4, <3>1
    <3> QED
      BY <2>1, <3>1, <3>2, EntryFacts
  <2> QED
    BY <2>3, <2>4
<1>3. ASSUME Stores(i, v, c) PROVE Intact(i) <=> c = Len(v) /\ v \in Seq(Entry)
  <2>1. Content(i) = Of /\ c \in 0 .. Len(v) /\ c <= MAXFILE
    BY <1>3 DEF Stores
  <2>2. Intact(i) <=> Whole(Content(i))
    BY DEF Intact
  <2> HIDE DEF Of, Whole
  <2> QED
    BY <1>2, <2>1, <2>2
<1>4. ASSUME Stores(i, v, c)' PROVE Intact(i)' <=> c = Len(v) /\ v \in Seq(Entry)
  <2>1. Content(i)' = Of /\ c \in 0 .. Len(v) /\ c <= MAXFILE
    BY <1>4 DEF Stores
  <2>2. Intact(i)' <=> Whole(Content(i)')
    BY DEF Intact
  <2> HIDE DEF Of, Whole
  <2> QED
    BY <1>2, <2>1, <2>2
<1> QED
  BY <1>3, <1>4

\* The put of a directory: it keeps a prefix of the new content, which reaches at
\* least as far as what the blocks held before, and the whole of it unless the
\* disk or the inode is full.
LEMMA PutDirStep ==
    ASSUME SInv, status = "up", NEW d \in Inums, get_inode(d).type = "T_DIR",
           NEW v \in DirContents, NEW c, Stores(d, v, c),
           NEW w \in DirContents, write_file(d, BLOCK_SIZE * Len(w), w)
    PROVE  /\ SInv'
           /\ status' # "up" => Damaged(d)'
           /\ status' = "up" =>
                 /\ \A j \in Inums : j # d => Untouched(j)
                 /\ get_inode(d)'.type = "T_DIR"
                 /\ \E b \in 0 .. Len(w) :
                       /\ Stores(d, w, b)'
                       /\ \A k \in 1 .. Len(w) : k <= c => k <= b
                       /\ b # Len(w) => \/ using_blocks' = DataBlocks
                                        \/ get_inode(d)'.size > MAXFILE * BLOCK_SIZE
<1> DEFINE size == BLOCK_SIZE * Len(w)
           n == Len(w)
<1>1. n \in Nat /\ n <= MaxEntries /\ w \in Values
  BY DirContentsAre, EntryFacts
<1>2. size \in Sizes /\ Chunks(size) = n /\ size \in Nat
  BY <1>1, ChunksOf
<1>3. /\ SInv' /\ d \in InodeNums /\ IInv /\ Shaped(d)
      /\ status' = "up" =>
            /\ disk' = WriteDisk(d, size, w)
            /\ using_blocks' = UsingAfterFill(d, size)
                               \ {Filled(d, size)[s] : s \in FreedByWrite(d, size)}
      /\ status' # "up" => WriteStatus(d, size) # "up" /\ UNCHANGED <<disk, using_blocks>>
  BY <1>1, <1>2, WriteForm
<1>4. ASSUME status' # "up" PROVE Damaged(d)'
  <2>1. Damaged(d)
    BY <1>2, <1>3, <1>4, WriteDiesDamaged
  <2>2. Untouched(d)
    BY <1>3, <1>4, SameUntouched
  <2>3. IInv'
    BY <1>3 DEF SInv
  <2> QED
    BY <1>3, <2>1, <2>2, <2>3, UntouchedFile
<1>5. ASSUME status' = "up"
      PROVE  /\ get_inode(d)'.type = "T_DIR" /\ get_inode(d)'.size = size
             /\ \A j \in Inums : j # d => Untouched(j)
  BY <1>1, <1>2, <1>5, WriteOthers
<1>6. PICK b \in 0 .. n : \A k \in 0 .. n - 1 :
         (SlotOf(k) \in Slots /\ Filled(d, size)[SlotOf(k)] # 0) <=> k < b
  BY <1>2, <1>3, LostSuffix
<1>7. b <= MAXFILE
  <2>1. MAXFILE \in Nat
    BY LayoutFacts
  <2>2. ASSUME b > MAXFILE PROVE FALSE
    <3>1. MAXFILE \in 0 .. n - 1 /\ MAXFILE < b
      BY <1>1, <2>1, <2>2
    <3>2. SlotOf(MAXFILE) \in Slots
      BY <1>6, <3>1
    <3>3. MAXFILE <= MAXFILE - 1
      BY <1>2, <3>1, <3>2, ChunkSlot
    <3> QED
      BY <2>1, <3>3
  <2> QED
    BY <1>1, <2>1, <2>2
<1>8. ASSUME status' = "up" PROVE Stores(d, w, b)'
  <2>1. Content(d)' = [k \in 0 .. Chunks(size) - 1 |->
                          IF SlotOf(k) \in Slots /\ Filled(d, size)[SlotOf(k)] # 0
                          THEN [val |-> w, idx |-> k] ELSE Junk]
    BY <1>1, <1>2, <1>3, <1>8, WriteContent, Zenon
  <2>2. Content(d)' = [k \in 0 .. n - 1 |-> IF k < b THEN [val |-> w, idx |-> k] ELSE Junk]
    BY <1>2, <1>6, <2>1
  <2>3. get_inode(d)'.size = size
    BY <1>5, <1>8
  <2> QED
    BY <1>6, <1>7, <2>2, <2>3 DEF Stores
<1>9. ASSUME NEW k \in 1 .. n, k <= c PROVE k <= b
  <2>1. /\ c \in 0 .. Len(v) /\ Len(v) \in Nat /\ c <= MAXFILE /\ MAXFILE \in Nat /\ v \in Values
        /\ get_inode(d).size = BLOCK_SIZE * Len(v)
        /\ Content(d) = [j \in 0 .. Len(v) - 1 |-> IF j < c THEN [val |-> v, idx |-> j] ELSE Junk]
    BY DirContentsAre, LayoutFacts DEF Stores
  <2>2. Chunks(get_inode(d).size) = Len(v)
    BY <2>1, ChunksOf
  <2>3. k - 1 \in 0 .. Len(v) - 1 /\ k - 1 < c /\ k - 1 \in 0 .. MAXFILE - 1 /\ k - 1 \in 0 .. n - 1
    BY <1>1, <1>9, <2>1
  <2>4. Content(d)[k - 1] # Junk
    BY <2>1, <2>3, JunkAssumption
  <2>5. SlotOf(k - 1) \in Slots /\ is_valid_block(Pointers(d)[SlotOf(k - 1)], using_blocks)
    BY <2>2, <2>3, <2>4 DEF Content
  <2>6. Pointers(d)[SlotOf(k - 1)] # 0
    BY <1>3, <2>5, MissingFacts
  <2>7. SlotOf(k - 1) \notin Missing(d, size)
    BY <1>3, <2>5, <2>6, MissingFacts
  <2>8. Filled(d, size)[SlotOf(k - 1)] # 0
    BY <1>2, <1>3, <2>5, <2>6, <2>7, FillShape
  <2>9. k - 1 < b
    BY <1>6, <2>3, <2>5, <2>8
  <2> QED
    BY <1>1, <2>9
<1>10. ASSUME status' = "up", b # n
       PROVE  using_blocks' = DataBlocks \/ get_inode(d)'.size > MAXFILE * BLOCK_SIZE
  <2>1. Damaged(d)'
    BY <1>8, <1>10, StoresDamaged
  <2> QED
    BY <1>1, <1>2, <1>3, <1>10, <2>1, WriteLoss, Zenon
<1> QED
  BY <1>3, <1>4, <1>5, <1>6, <1>8, <1>9, <1>10

-----------------------------------------------------------------------------
(* What the methods do to the table. *)

\* readdir and lookup look at the directory's own node only.
LEMMA LookupSame ==
    ASSUME NEW f, NEW g, NEW d \in Inums, f[d].type = g[d].type, f[d].data = g[d].data
    PROVE  /\ C!readdir(f, d) = C!readdir(g, d)
           /\ \A name : C!lookup(f, d, name) = C!lookup(g, d, name)
<1>1. C!readdir(f, d) = C!readdir(g, d)
  BY EntryFacts DEF C!readdir, C!ec_get, C!check_dir_inode, C!TypeIn
<1>2. ASSUME NEW name PROVE C!lookup(f, d, name) = C!lookup(g, d, name)
  BY <1>1 DEF C!lookup
<1> QED
  BY <1>1, <1>2

\* create and mkdir of ChfsClient append one entry and make an empty file.
LEMMA CreateTable ==
    ASSUME NEW f, f = [i \in Inums |-> f[i]], NEW parent \in Inums, NEW list \in Seq(Entry),
           f[parent] = DirNode(list), NEW ino \in InodeNums, ino # parent, NEW name \in Names, NEW type
    PROVE  C!AddEntry(C!ec_create(f, ino, type), parent, ino, name)
              = [i \in Inums |-> IF i = parent THEN DirNode(Append(list, [inum |-> ino, name |-> name]))
                                 ELSE IF i = ino THEN [type |-> type, data |-> << >>] ELSE f[i]]
<1> DEFINE h == C!ec_create(f, ino, type)
           entry == [inum |-> ino, name |-> name]
           more == C!Fields(Append(list, entry))
<1>1. h = [i \in Inums |-> IF i = ino THEN [type |-> type, data |-> << >>] ELSE f[i]]
  <2>1. CASE ino = 0
    BY <2>1, InumFacts DEF C!ec_create
  <2>2. CASE ino # 0
    BY <2>2, InumFacts DEF C!ec_create
  <2> QED
    BY <2>1, <2>2
<1> HIDE DEF h
<1>2. /\ h = [i \in Inums |-> h[i]] /\ h[parent] = DirNode(list)
      /\ \A i \in Inums : h[i] = IF i = ino THEN [type |-> type, data |-> << >>] ELSE f[i]
  BY <1>1
<1>3. C!TypeIn(h, parent) # "0" /\ C!ec_get(h, parent) = C!Fields(list)
  BY <1>2, EntryFacts DEF C!TypeIn, C!ec_get, DirNode
<1>4. entry \in Entry /\ entry.inum = ino /\ entry.name = name
  BY EntryFacts
<1>5. C!Fields(list) \o <<C!filename(ino), name>> = more
  <2> HIDE DEF entry
  <2> QED
    BY <1>4, FieldsAppend
<1> HIDE DEF more
<1>6. C!AddEntry(h, parent, ino, name) = [h EXCEPT ![parent].data = more]
  BY <1>3, <1>5 DEF C!AddEntry, C!ec_put
<1>7. [h EXCEPT ![parent].data = more]
         = [i \in Inums |-> IF i = parent THEN [h[parent] EXCEPT !.data = more] ELSE h[i]]
  BY <1>2
<1>8. [h[parent] EXCEPT !.data = more] = [type |-> "T_DIR", data |-> more]
  BY <1>2 DEF DirNode
<1>9. [type |-> "T_DIR", data |-> more] = DirNode(Append(list, entry))
  BY DEF DirNode, more
<1> HIDE DEF entry
<1>10. C!AddEntry(h, parent, ino, name)
         = [i \in Inums |-> IF i = parent THEN DirNode(Append(list, entry))
                            ELSE IF i = ino THEN [type |-> type, data |-> << >>] ELSE f[i]]
  BY <1>2, <1>6, <1>7, <1>8, <1>9
<1> QED
  BY <1>10 DEF h, entry

\* unlink of ChfsClient drops the entries of the name and the file.
LEMMA UnlinkTable ==
    ASSUME NEW f, f = [i \in Inums |-> f[i]], NEW parent \in Inums, NEW list \in Seq(Entry),
           f[parent] = DirNode(list), NEW name \in Names, NEW ino \in Inums, ino # parent,
           ino = C!lookup(f, parent, name).ino
    PROVE  C!unlink(f, parent, name)
              = [i \in Inums |-> IF i = parent THEN DirNode(C!Without(list, name))
                                 ELSE IF i = ino THEN C!NoFile ELSE f[i]]
<1> DEFINE h == C!ec_remove(f, ino)
           rest == C!Without(list, name)
<1>1. h = [i \in Inums |-> IF i = ino THEN C!NoFile ELSE f[i]]
  BY EntryFacts DEF C!ec_remove
<1> HIDE DEF h
<1>2. /\ h = [i \in Inums |-> h[i]] /\ h[parent] = DirNode(list)
      /\ \A i \in Inums : h[i] = IF i = ino THEN C!NoFile ELSE f[i]
  BY <1>1
<1>3. h[parent].type = "T_DIR" /\ h[parent].data = C!Fields(list)
  BY <1>2 DEF DirNode
<1>4. C!readdir(h, parent).list = list
  BY <1>3, FieldsRead
<1>5. C!TypeIn(h, parent) # "0"
  BY <1>3, EntryFacts DEF C!TypeIn
<1>6. C!unlink(f, parent, name) = [h EXCEPT ![parent].data = C!Fields(rest)]
  BY <1>4, <1>5 DEF C!unlink, C!ec_put, h
<1> HIDE DEF rest
<1>7. [h[parent] EXCEPT !.data = C!Fields(rest)] = DirNode(rest)
  BY <1>2 DEF DirNode
<1>8. [h EXCEPT ![parent].data = C!Fields(rest)]
          = [i \in Inums |-> IF i = parent THEN [h[parent] EXCEPT !.data = C!Fields(rest)] ELSE h[i]]
  BY <1>2
<1>9. C!unlink(f, parent, name)
          = [i \in Inums |-> IF i = parent THEN DirNode(rest) ELSE IF i = ino THEN C!NoFile ELSE f[i]]
  BY <1>2, <1>6, <1>7, <1>8
<1> QED
  BY <1>9 DEF rest

\* The nodes of the table.
LEMMA NodeFacts ==
    /\ \A list : DirNode(list).type = "T_DIR" /\ DirNode(list).data = C!Fields(list)
    /\ C!NoFile.type = "0"
    /\ \A type : [type |-> type, data |-> << >>].type = type
    /\ DirNode(<< >>) = [type |-> "T_DIR", data |-> << >>]
  BY EmptyFields DEF DirNode, C!NoFile

-----------------------------------------------------------------------------
(* The first state and the steps. *)

\* Of a directory that a step leaves alone, the entries stay, and the node of
\* the table stays right.
LEMMA DirFrame ==
    ASSUME SInv, SInv', NEW d \in Inums, Untouched(d)
    PROVE  /\ Readable(d)' = Readable(d)
           /\ d \in Dirs => d \in Dirs'
           /\ TableOK(d) /\ table'[d] = table[d] => TableOK(d)'
<1>1. /\ get_inode(d)' = get_inode(d) /\ Content(d)' = Content(d)
      /\ \A v, c : Stores(d, v, c)' <=> Stores(d, v, c)
  BY StoresFrame
<1>2. Readable(d)' = Readable(d)
  BY <1>1 DEF Readable
<1>3. d \in Dirs => d \in Dirs'
  BY <1>1 DEF Dirs, Attr
<1>4. TableOK(d) /\ table'[d] = table[d] => TableOK(d)'
  BY <1>1 DEF TableOK
<1> QED
  BY <1>2, <1>3, <1>4

\* A directory of size 0, as alloc_inode leaves it.
LEMMA EmptyDir ==
    ASSUME NEW i, NEW type
    PROVE  /\ get_inode(i).size = 0 => DirOK(i)
           /\ get_inode(i)'.size = 0 => DirOK(i)'
           /\ /\ get_inode(i).size = 0 /\ get_inode(i).type = type
              /\ table[i] = [type |-> type, data |-> << >>]
              => TableOK(i)
           /\ /\ get_inode(i)'.size = 0 /\ get_inode(i)'.type = type
              /\ table'[i] = [type |-> type, data |-> << >>]
              => TableOK(i)'
<1>1. << >> \in DirContents /\ << >> \in Seq(Entry) /\ 0 \in 0 .. Len(<< >>) /\ Len(<< >>) = 0
  BY EmptyStores
<1>2. ASSUME get_inode(i).size = 0 PROVE Stores(i, << >>, 0) /\ DirOK(i)
  BY <1>1, <1>2, EmptyStores DEF DirOK
<1>3. ASSUME get_inode(i)'.size = 0 PROVE Stores(i, << >>, 0)' /\ DirOK(i)'
  BY <1>1, <1>3, EmptyStores DEF DirOK
<1>4. ASSUME get_inode(i).size = 0, get_inode(i).type = type, table[i] = [type |-> type, data |-> << >>]
      PROVE  TableOK(i)
  BY <1>1, <1>2, <1>4, NodeFacts DEF TableOK
<1>5. ASSUME get_inode(i)'.size = 0, get_inode(i)'.type = type, table'[i] = [type |-> type, data |-> << >>]
      PROVE  TableOK(i)'
  BY <1>1, <1>3, <1>5, NodeFacts DEF TableOK
<1> QED
  BY <1>2, <1>3, <1>4, <1>5

\* The server starts with an empty root directory.
LEMMA InitDInv == ASSUME DiskInit PROVE DInv
<1>1. PICK garbage \in 0 .. UINT_LIMIT - 1 :
        /\ disk = [b \in BlockIds |->
                      IF b = IBLOCK(to_alloc(1, garbage))
                      THEN InodeBlock([ZeroInode EXCEPT !.type = "T_DIR"]) ELSE ZeroBlock]
        /\ status = IF to_alloc(1, garbage) = 1 THEN "up" ELSE "exited"
  BY DEF DiskInit, Init, imInit
<1> DEFINE root == [ZeroInode EXCEPT !.type = "T_DIR"]
<1>2. SInv
  BY InitSInv DEF DiskInit
<1>3. root.size = 0 /\ root.type = "T_DIR" /\ ZeroInode.size = 0 /\ ZeroInode.type = "0"
  BY DEF ZeroInode
<1>4. 1 \in InodeNums
  BY LayoutAssumption DEF InodeNums
<1>5. ASSUME status = "up", NEW i \in Inums
      PROVE  get_inode(i) = IF i = 1 THEN root ELSE ZeroInode
  <2>1. to_alloc(1, garbage) = 1
    BY <1>1, <1>5
  <2>2. IBLOCK(i) \in BlockIds /\ (IBLOCK(i) = IBLOCK(1) => i = 1)
    BY <1>4, InumFacts, LayoutFacts
  <2>3. i <= INODE_NUM
    BY LayoutAssumption DEF Inums
  <2>4. disk[IBLOCK(i)] = IF i = 1 THEN InodeBlock(root) ELSE ZeroBlock
    BY <1>1, <2>1, <2>2
  <2> QED
    BY <2>3, <2>4 DEF get_inode, InodeBlock, ZeroBlock
<1> HIDE DEF root
<1>6. table = EmptyTable /\ req = Idle /\ lost = FALSE
  BY DEF DiskInit
<1>7. table = [i \in Inums |-> table[i]]
  BY <1>6 DEF EmptyTable
<1>8. ASSUME status = "up", NEW i \in Inums PROVE DirOK(i) /\ TableOK(i)
  <2>1. get_inode(i).size = 0 /\ get_inode(i).type = (IF i = 1 THEN "T_DIR" ELSE "0")
    BY <1>3, <1>5, <1>8
  <2>2. table[i] = [type |-> IF i = 1 THEN "T_DIR" ELSE "0", data |-> << >>]
    BY <1>6 DEF EmptyTable, C!NoFile
  <2> QED
    BY <2>1, <2>2, EmptyDir
<1> QED
  BY <1>2, <1>6, <1>7, <1>8 DEF DInv, RequestOK, TableInv

\* What a step owes to the readable entries of directory d, and to the entry
\* that it has put there.
Survives(d) ==
    \A e \in Readable(d) : \/ d \in Dirs' /\ e \in Readable(d)'
                           \/ req.op = "unlink" /\ req.parent = d /\ req.name = e.name

NameKept(d) ==
    status' = "up" /\ req.op \in {"create", "mkdir"} /\ req.parent = d /\ req' = Idle =>
       \/ [inum |-> req.ino, name |-> req.name] \in Readable(d)'
       \/ using_blocks' = DataBlocks
       \/ Attr(d).size' > MAXFILE * BLOCK_SIZE
       \/ lost

\* What it owes to the entry that is new there, and to the one of an unlink.
NewHasFile(d) ==
    Intact(d) =>
        \A e \in Readable(d)' \ Readable(d) :
            Exists(e.inum)' \/ (e.inum = 0 /\ Cardinality(FreeInums) <= 1)

NameTaken(d) ==
    status' = "up" /\ req.op = "unlink" /\ req.parent = d /\ req' = Idle /\ Intact(d) =>
       Intact(d)' /\ \A e \in Readable(d)' : e.name # req.name

StepOK ==
    /\ DInv'
    /\ status' = "up" => \A d \in Dirs : Survives(d) /\ NewHasFile(d)
    /\ \A d \in Dirs : NameKept(d) /\ NameTaken(d)

\* Dirs are directories, and a request in progress is not the idle one.
LEMMA DirsFacts ==
    /\ \A d \in Dirs : d \in Inums /\ get_inode(d).type = "T_DIR"
    /\ Idle.op = "none" /\ \A r \in Request : r # Idle /\ r.op \in {"create", "mkdir", "unlink"}
<1>1. \A d \in Dirs : d \in Inums /\ get_inode(d).type = "T_DIR"
  BY EntryAssumption DEF Dirs, Attr
<1>2. Idle.op = "none"
  BY DEF Idle
<1>3. \A r \in Request : r.op \in {"create", "mkdir", "unlink"}
  BY DEF Request
<1>4. \A r \in Request : r # Idle
  BY <1>2, <1>3
<1> QED
  BY <1>1, <1>2, <1>3, <1>4

\* A step that touches no directory, and finishes no create.
LEMMA OthersSurvive ==
    ASSUME SInv, SInv', NEW i, \A j \in Inums : j # i => Untouched(j), i \notin Dirs
    PROVE  \A d \in Dirs : Survives(d) /\ NewHasFile(d)
<1> SUFFICES ASSUME NEW d \in Dirs PROVE Survives(d) /\ NewHasFile(d)
  OBVIOUS
<1>1. d \in Inums /\ Untouched(d)
  BY DirsFacts
<1>2. Readable(d)' = Readable(d) /\ d \in Dirs'
  BY <1>1, DirFrame
<1> QED
  BY <1>2 DEF Survives, NewHasFile

\* create and mkdir allocate their inode.
LEMMA BeginCreateStep ==
    ASSUME DInv, NEW op \in {"create", "mkdir"}, NEW parent \in Dirs, NEW name \in Names,
           begin_create(op, parent, name)
    PROVE  StepOK
<1> DEFINE type == NewType[op]
<1>1. /\ SInv /\ status = "up" /\ req = Idle /\ (\A i \in Inums : DirOK(i))
      /\ lost \in BOOLEAN /\ (~ lost => TableInv)
  BY DEF DInv, begin_create
<1>2. /\ alloc_inode(type) /\ table' = table /\ lost' = lost
      /\ get_inode(parent).size < MaxEntries * BLOCK_SIZE
      /\ req' = [op |-> op, parent |-> parent, name |-> name, ino |-> AllocInum]
  BY DEF begin_create, Attr
<1>3. type \in {"T_FILE", "T_DIR"} /\ parent \in Inums /\ get_inode(parent).type = "T_DIR"
  BY DirsFacts DEF NewType
<1> HIDE DEF type
<1>4. /\ SInv' /\ status' = "up"
      /\ \E n \in InodeNums :
            /\ n = AllocInum
            /\ \A j \in Inums : j # n => Untouched(j)
            /\ n # 0 => /\ get_inode(n).type = "0"
                        /\ get_inode(n)'.type = type /\ get_inode(n)'.size = 0
  BY <1>1, <1>2, <1>3, AllocDisk
<1>5. PICK n \in InodeNums :
            /\ n = AllocInum
            /\ \A j \in Inums : j # n => Untouched(j)
            /\ n # 0 => /\ get_inode(n).type = "0"
                        /\ get_inode(n)'.type = type /\ get_inode(n)'.size = 0
  BY <1>4
<1>6. /\ req' \in Request /\ req'.op = op /\ req'.parent = parent /\ req'.name = name /\ req'.ino = n
      /\ req' # Idle
  BY <1>2, <1>3, <1>5, DirsFacts DEF Request
<1>7. n # parent
  BY <1>3, <1>5, InumFacts
<1>8. get_inode(parent)' = get_inode(parent)
  BY <1>1, <1>3, <1>4, <1>5, <1>7, StoresFrame
<1>9. ASSUME NEW i \in Inums PROVE DirOK(i)'
  <2>1. CASE i = n
    BY <1>5, <2>1, EmptyDir, InumFacts
  <2>2. CASE i # n
    BY <1>1, <1>4, <1>5, <2>2, StoresFrame
  <2> QED
    BY <2>1, <2>2
<1>10. RequestOK'
  <2>1. NewType[op] = type
    BY DEF type
  <2>2. n = 0 => Cardinality(FreeInums)' <= 1
    <3> SUFFICES ASSUME n = 0 PROVE Cardinality(FreeInums)' <= 1
      OBVIOUS
    <3>1. TypeOK /\ AllocInum = 0
      BY <1>1, <1>5 DEF SInv, IInv
    <3>2. Cardinality(FreeInums) <= 1
      BY <3>1, ScanGivesUpLate DEF CreateUsesInodes, FreeInums
    <3>3. disk' = disk
      BY <1>2, <3>1 DEF alloc_inode
    <3>4. FreeInums' = FreeInums
      BY <3>3 DEF FreeInums, Exists, get_inode
    <3> QED
      BY <3>2, <3>4
  <2> QED
    BY <1>2, <1>3, <1>5, <1>6, <1>7, <1>8, <2>1, <2>2 DEF RequestOK
<1>11. ASSUME ~ lost PROVE TableInv'
  <2>1. \A i \in Inums : TableOK(i)
    BY <1>1, <1>11 DEF TableInv
  <2>2. \A i \in Inums : i # n => TableOK(i)'
    BY <1>1, <1>2, <1>4, <1>5, <2>1, DirFrame
  <2>3. table' = [i \in Inums |-> table'[i]]
    BY <1>1, <1>2, <1>11 DEF TableInv
  <2> QED
    BY <1>6, <2>2, <2>3 DEF TableInv
<1>12. DInv'
  BY <1>1, <1>2, <1>4, <1>6, <1>9, <1>10, <1>11 DEF DInv
<1>13. n \notin Dirs
  BY <1>5, DirsFacts, InumFacts
<1>14. \A d \in Dirs : Survives(d) /\ NewHasFile(d)
  BY <1>1, <1>4, <1>5, <1>13, OthersSurvive
<1>15. \A d \in Dirs : NameKept(d) /\ NameTaken(d)
  BY <1>6 DEF NameKept, NameTaken
<1> QED
  BY <1>12, <1>14, <1>15 DEF StepOK

\* write and setattr touch a file that is no directory.
LEMMA ResizeStep ==
    ASSUME DInv, NEW i \in Inums, NEW size \in FileSizes, resize_file(i, size)
    PROVE  StepOK
<1>1. /\ SInv /\ status = "up" /\ req = Idle /\ (\A j \in Inums : DirOK(j))
      /\ lost \in BOOLEAN /\ (~ lost => TableInv)
  BY DEF DInv, resize_file
<1>2. /\ write_file(i, size, FileData) /\ req' = req /\ table' = table /\ lost' = lost
      /\ get_inode(i).type = "T_FILE"
  BY DEF resize_file, Attr
<1>3. size \in Sizes /\ FileData \in Values
  BY CallerAssumption
<1>4. /\ SInv'
      /\ status' = "up" => /\ get_inode(i)'.type = get_inode(i).type
                           /\ \A j \in Inums : j # i => Untouched(j)
  BY <1>1, <1>2, <1>3, WriteOthers
<1>5. \A d \in Dirs : NameKept(d) /\ NameTaken(d)
  BY <1>1, DirsFacts DEF NameKept, NameTaken
<1>6. CASE status' # "up"
  BY <1>1, <1>2, <1>4, <1>5, <1>6 DEF StepOK, DInv
<1>7. CASE status' = "up"
  <2>1. i \notin Dirs
    BY <1>2, DirsFacts
  <2>2. \A d \in Dirs : Survives(d) /\ NewHasFile(d)
    BY <1>1, <1>4, <1>7, <2>1, OthersSurvive
  <2>3. ASSUME NEW j \in Inums PROVE DirOK(j)'
    <3>1. CASE j = i
      BY <1>2, <1>4, <1>7, <3>1 DEF DirOK
    <3>2. CASE j # i
      BY <1>1, <1>4, <1>7, <3>2, StoresFrame
    <3> QED
      BY <3>1, <3>2
  <2>4. RequestOK'
    BY <1>1, <1>2 DEF RequestOK
  <2>5. ASSUME ~ lost PROVE TableInv'
    <3>1. ASSUME NEW j \in Inums PROVE TableOK(j)'
      <4>1. TableOK(j)
        BY <1>1, <2>5 DEF TableInv
      <4>2. CASE j = i
        BY <1>2, <1>4, <1>7, <4>1, <4>2 DEF TableOK
      <4>3. CASE j # i
        BY <1>1, <1>2, <1>4, <1>7, <4>1, <4>3, DirFrame
      <4> QED
        BY <4>2, <4>3
    <3>2. table' = [j \in Inums |-> table'[j]]
      BY <1>1, <1>2, <2>5 DEF TableInv
    <3> QED
      BY <1>1, <1>2, <3>1, <3>2 DEF TableInv
  <2>6. DInv'
    BY <1>1, <1>2, <1>4, <2>3, <2>4, <2>5 DEF DInv
  <2> QED
    BY <1>5, <2>2, <2>6 DEF StepOK
<1> QED
  BY <1>6, <1>7

\* A step that changes nothing.
LEMMA SameStep == ASSUME DInv, UNCHANGED diskVars PROVE StepOK
<1>1. disk' = disk /\ using_blocks' = using_blocks /\ last_alloced' = last_alloced /\ status' = status
  BY DEF diskVars, imVars
<1>2. req' = req /\ table' = table /\ lost' = lost
  BY DEF diskVars
<1>3. SInv
  BY DEF DInv
<1>4. SInv'
  BY <1>1, <1>3, NextSInv DEF imVars
<1>5. \A i \in Inums : Untouched(i)
  BY <1>1, <1>3, SameUntouched, InumFacts DEF SInv
<1>6. \A i \in Inums : get_inode(i)' = get_inode(i) /\ (DirOK(i) => DirOK(i)')
  BY <1>3, <1>4, <1>5, StoresFrame
<1>7. \A i \in Inums : TableOK(i) => TableOK(i)'
  BY <1>2, <1>3, <1>4, <1>5, DirFrame
<1>8. RequestOK => RequestOK'
  <2>1. FreeInums' = FreeInums
    BY <1>1 DEF FreeInums, Exists, get_inode
  <2> QED
    BY <1>1, <1>2, <2>1 DEF RequestOK, get_inode
<1>9. TableInv => TableInv'
  BY <1>2, <1>7 DEF TableInv
<1>10. DInv'
  BY <1>1, <1>2, <1>4, <1>6, <1>8, <1>9 DEF DInv
<1>11. 0 \notin Dirs
  BY DirsFacts, InumFacts
<1>12. \A d \in Dirs : Survives(d) /\ NewHasFile(d)
  BY <1>3, <1>4, <1>5, <1>11, OthersSurvive
<1>13. \A d \in Dirs : NameKept(d) /\ NameTaken(d)
  BY <1>2, DirsFacts DEF NameKept, NameTaken
<1> QED
  BY <1>10, <1>12, <1>13 DEF StepOK

\* unlink removes the extent: a file, not the directory, and the one that the
\* table's lookup finds while nothing is lost.
LEMMA BeginUnlinkStep ==
    ASSUME DInv, NEW parent \in Dirs, NEW name \in Names, begin_unlink(parent, name)
    PROVE  StepOK
<1>1. /\ SInv /\ status = "up" /\ req = Idle /\ (\A i \in Inums : DirOK(i))
      /\ lost \in BOOLEAN /\ (~ lost => TableInv)
  BY DEF DInv, begin_unlink
<1>2. parent \in Inums /\ get_inode(parent).type = "T_DIR"
  BY DirsFacts
<1>3. PICK c \in Gets(parent) :
            /\ C!UnlinkCheck(View(parent, c), parent, name) = "OK"
            /\ remove_file(C!lookup(View(parent, c), parent, name).ino)
            /\ req' = [op |-> "unlink", parent |-> parent, name |-> name,
                       ino |-> C!lookup(View(parent, c), parent, name).ino]
  BY DEF begin_unlink
<1>4. table' = table /\ lost' = lost
  BY DEF begin_unlink
<1>5. PICK f : f = View(parent, c)
  OBVIOUS
<1>6. PICK ino : ino = C!lookup(f, parent, name).ino
  OBVIOUS
<1>7. /\ C!UnlinkCheck(f, parent, name) = "OK" /\ remove_file(ino)
      /\ req' = [op |-> "unlink", parent |-> parent, name |-> name, ino |-> ino]
  BY <1>3, <1>5, <1>6
<1>8. C!TypeIn(f, ino) = "T_FILE"
  BY <1>6, <1>7 DEF C!UnlinkCheck, C!isfile
<1>9. ino \in Inums /\ f[ino].type = "T_FILE"
  BY <1>8, EntryFacts DEF C!TypeIn
<1>10. get_inode(ino).type = "T_FILE" /\ ino # parent /\ ino \notin Dirs
  BY <1>2, <1>5, <1>9, DirsFacts DEF View, Attr
<1>11. /\ SInv'
       /\ status' = "up" => /\ get_inode(ino)'.type = "0"
                            /\ \A j \in Inums : j # ino => Untouched(j)
  BY <1>1, <1>7, <1>9, <1>10, RemoveDisk
<1>12. /\ req' \in Request /\ req'.op = "unlink" /\ req'.parent = parent
       /\ req'.name = name /\ req'.ino = ino /\ req' # Idle
  BY <1>2, <1>7, <1>9, InumFacts, DirsFacts DEF Request
<1>13. \A d \in Dirs : NameKept(d) /\ NameTaken(d)
  BY <1>1, DirsFacts DEF NameKept, NameTaken
<1>14. CASE status' # "up"
  BY <1>1, <1>4, <1>11, <1>12, <1>13, <1>14 DEF StepOK, DInv
<1>15. CASE status' = "up"
  <2>1. \A d \in Dirs : Survives(d) /\ NewHasFile(d)
    BY <1>1, <1>10, <1>11, <1>15, OthersSurvive
  <2>2. get_inode(parent)' = get_inode(parent)
    BY <1>1, <1>2, <1>10, <1>11, <1>15, StoresFrame
  <2>3. ASSUME NEW j \in Inums PROVE DirOK(j)'
    <3>1. CASE j = ino
      BY <1>11, <1>15, <3>1 DEF DirOK
    <3>2. CASE j # ino
      BY <1>1, <1>11, <1>15, <3>2, StoresFrame
    <3> QED
      BY <3>1, <3>2
  <2>4. RequestOK'
    BY <1>2, <1>9, <1>11, <1>12, <1>15, <2>2 DEF RequestOK
  <2>5. ASSUME ~ lost PROVE TableInv'
    <3>1. \A i \in Inums : TableOK(i)
      BY <1>1, <2>5 DEF TableInv
    <3>2. \A i \in Inums : i # ino => TableOK(i)'
      BY <1>1, <1>4, <1>11, <1>15, <3>1, DirFrame
    <3>3. table' = [i \in Inums |-> table'[i]]
      BY <1>1, <1>4, <2>5 DEF TableInv
    <3>4. PICK v \in DirContents : v \in Seq(Entry) /\ Stores(parent, v, Len(v)) /\ table[parent] = DirNode(v)
      BY <1>2, <3>1 DEF TableOK
    <3>5. c = v
      BY <1>2, <3>4, GetsOf
    <3>6. f[parent].data = C!Fields(v)
      <4>1. v \in Seq(Piece)
        BY DirContentsAre
      <4> QED
        BY <1>2, <1>5, <3>4, <3>5, <4>1, ParsedFacts
    <3>7. f[parent].type = "T_DIR"
      BY <1>2, <1>5 DEF View, Attr
    <3>8. PICK g : g = table
      OBVIOUS
    <3>9. g[parent].type = f[parent].type /\ g[parent].data = f[parent].data
      BY <3>4, <3>6, <3>7, <3>8, NodeFacts
    <3>10. C!lookup(g, parent, name) = C!lookup(f, parent, name)
      BY <1>2, <3>9, LookupSame
    <3>11. req'.ino = C!lookup(table', req'.parent, req'.name).ino
      BY <1>4, <1>6, <1>12, <3>8, <3>10
    <3> QED
      BY <1>12, <3>2, <3>3, <3>11 DEF TableInv
  <2>6. DInv'
    BY <1>1, <1>4, <1>11, <1>12, <2>3, <2>4, <2>5 DEF DInv
  <2> QED
    BY <1>13, <2>1, <2>6 DEF StepOK
<1> QED
  BY <1>14, <1>15

\* What the second half of a request finds on the disk.
LEMMA PendingFacts ==
    ASSUME DInv, status = "up", req.op \in {"create", "mkdir", "unlink"}, NEW g \in Gets(req.parent)
    PROVE  /\ SInv /\ req \in Request /\ req # Idle /\ req.parent \in Inums /\ req.name \in Names
           /\ req.ino \in InodeNums /\ get_inode(req.parent).type = "T_DIR" /\ g \in DirContents
           /\ \E v \in DirContents : \E c \in 0 .. Len(v) :
                 /\ Stores(req.parent, v, c)
                 /\ Len(g) = Len(v) /\ \A k \in 1 .. c : g[k] = v[k]
           /\ req.ino # req.parent
           /\ ~ lost => g \in Seq(Entry) /\ TableInv /\ table[req.parent] = DirNode(g)
<1>1. /\ SInv /\ (\A i \in Inums : DirOK(i)) /\ RequestOK /\ (~ lost => TableInv)
      /\ req \in Request /\ req # Idle
  BY DirsFacts DEF DInv
<1>2. /\ req.parent \in Inums /\ req.name \in Names /\ req.ino \in InodeNums
      /\ get_inode(req.parent).type = "T_DIR"
  BY <1>1 DEF Request, RequestOK
<1>3. PICK d : d = req.parent
  OBVIOUS
<1>4. d \in Inums /\ get_inode(d).type = "T_DIR" /\ g \in Gets(d)
  BY <1>2, <1>3
<1>5. PICK v \in DirContents : \E c \in 0 .. Len(v) : Stores(d, v, c)
  BY <1>1, <1>4 DEF DirOK
<1>6. PICK c \in 0 .. Len(v) : Stores(d, v, c)
  BY <1>5
<1>7. g \in DirContents /\ Len(g) = Len(v) /\ \A k \in 1 .. c : g[k] = v[k]
  BY <1>4, <1>6, GetsOf
<1>8. req.ino # req.parent
  <2>1. "T_DIR" # "0"
    OBVIOUS
  <2>2. InodeNums = Inums \cup {0} /\ 0 \notin Inums
    BY InumFacts
  <2> QED
    BY <1>1, <1>2, <2>1, <2>2 DEF RequestOK
<1>9. ASSUME ~ lost PROVE g \in Seq(Entry) /\ table[d] = DirNode(g)
  <2>1. TableOK(d)
    BY <1>1, <1>3, <1>4, <1>8, <1>9 DEF TableInv
  <2>2. PICK u \in DirContents : u \in Seq(Entry) /\ Stores(d, u, Len(u)) /\ table[d] = DirNode(u)
    BY <1>4, <2>1 DEF TableOK
  <2>3. g = u
    BY <1>4, <2>2, GetsOf
  <2> QED
    BY <2>2, <2>3
<1> QED
  BY <1>1, <1>2, <1>3, <1>6, <1>7, <1>8, <1>9

\* The put of a directory's new content, whichever request makes it: nothing is
\* lost in front of what was lost before.
LEMMA PutsKeep ==
    ASSUME NEW d \in Inums, get_inode(d)'.type = "T_DIR",
           NEW v \in DirContents, NEW c \in 0 .. Len(v), Stores(d, v, c),
           NEW w \in DirContents, NEW b \in 0 .. Len(w), Stores(d, w, b)'
    PROVE  /\ (d \in Dirs => d \in Dirs') /\ DirOK(d)' /\ get_inode(d)'.size = BLOCK_SIZE * Len(w)
           /\ Readable(d) = Front(v, c) /\ Readable(d)' = Front(w, b)
           /\ (Damaged(d)' <=> b # Len(w))
<1>1. d \in Dirs => d \in Dirs'
  BY DEF Dirs, Attr
<1>2. DirOK(d)'
  BY DEF DirOK
<1>3. get_inode(d)'.size = BLOCK_SIZE * Len(w)
  BY DEF Stores
<1>4. Readable(d) = Front(v, c) /\ Readable(d)' = Front(w, b)
  BY StoresReadable
<1>5. Damaged(d)' <=> b # Len(w)
  BY StoresDamaged
<1> QED
  BY <1>1, <1>2, <1>3, <1>4, <1>5

\* A list of entries is readable to the last of them.
LEMMA EntriesInFront ==
    ASSUME NEW w \in Seq(Entry), NEW b \in 0 .. Len(w), NEW n \in 1 .. Len(w), n <= b
    PROVE  w[n] \in Front(w, b)
<1>1. Len(w) \in Nat
  OBVIOUS
<1>2. n \in 1 .. b /\ \A j \in 1 .. n : j \in 1 .. Len(w)
  BY <1>1
<1>3. \A j \in 1 .. n : w[j] # Garbage
  BY <1>2, EntryFacts
<1> QED
  BY <1>2, <1>3 DEF Front

\* create and mkdir put the directory with the new entry at its end.
LEMMA FinishCreateStep == ASSUME DInv, finish_create PROVE StepOK
<1>1. status = "up" /\ req.op \in {"create", "mkdir"} /\ req' = Idle
  BY DEF finish_create
<1>2. PICK d \in {req.parent} : \E g \in Gets(d) :
            PutDir(d, Append(g, [inum |-> req.ino, name |-> req.name]))
  BY DEF finish_create
<1>3. PICK g \in Gets(d) : PutDir(d, Append(g, [inum |-> req.ino, name |-> req.name]))
  BY <1>2
<1>4. /\ SInv /\ req \in Request /\ req # Idle /\ req.parent \in Inums /\ req.name \in Names
      /\ req.ino \in InodeNums /\ get_inode(req.parent).type = "T_DIR" /\ g \in DirContents
      /\ \E v \in DirContents : \E c \in 0 .. Len(v) :
            /\ Stores(req.parent, v, c)
            /\ Len(g) = Len(v) /\ \A k \in 1 .. c : g[k] = v[k]
      /\ req.ino # req.parent
      /\ ~ lost => g \in Seq(Entry) /\ TableInv /\ table[req.parent] = DirNode(g)
  <2>1. g \in Gets(req.parent)
    BY <1>3
  <2> QED
    BY <1>1, <2>1, PendingFacts
<1>5. PICK n, name : d = req.parent /\ n = req.ino /\ name = req.name
  OBVIOUS
<1>6. PICK v \in DirContents : \E c \in 0 .. Len(v) :
            Stores(d, v, c) /\ Len(g) = Len(v) /\ \A k \in 1 .. c : g[k] = v[k]
  BY <1>4, <1>5
<1>7. PICK c \in 0 .. Len(v) : Stores(d, v, c) /\ Len(g) = Len(v) /\ \A k \in 1 .. c : g[k] = v[k]
  BY <1>6
<1>8. d \in Inums /\ n \in InodeNums /\ name \in Names /\ d # n /\ get_inode(d).type = "T_DIR"
  BY <1>4, <1>5
<1> DEFINE entry == [inum |-> n, name |-> name]
           w == Append(g, entry)
           type == NewType[req.op]
<1>9. entry \in Entry
  BY <1>8, EntryFacts
<1>10. (\A i \in Inums : DirOK(i)) /\ RequestOK /\ lost \in BOOLEAN
  BY <1>1 DEF DInv
<1>11. n # 0 => get_inode(n).type = type /\ get_inode(n).size = 0
  BY <1>1, <1>4, <1>5, <1>10 DEF RequestOK
<1>12. Len(v) \in Nat /\ Len(v) < MaxEntries /\ MaxEntries \in Nat
  <2>1. get_inode(d).size < MaxEntries * BLOCK_SIZE
    BY <1>1, <1>4, <1>5, <1>10 DEF RequestOK
  <2>2. Len(v) \in Nat
    BY DirContentsAre
  <2>3. BLOCK_SIZE * Len(v) < MaxEntries * BLOCK_SIZE /\ BLOCK_SIZE = 4 /\ MaxEntries \in Nat
    BY <1>7, <2>1, EntryAssumption DEF Stores
  <2>4. 4 * Len(v) < MaxEntries * 4
    BY <2>3
  <2> QED
    BY <2>2, <2>3, <2>4
<1> HIDE DEF entry
<1>13. g \in Seq(Piece) /\ entry \in Piece
  BY <1>4, <1>9, DirContentsAre DEF Piece
<1>14. /\ w \in Seq(Piece) /\ Len(w) = Len(v) + 1 /\ w[Len(v) + 1] = entry
       /\ \A k \in 1 .. Len(v) : w[k] = g[k]
       /\ g \in Seq(Entry) => w \in Seq(Entry)
  BY <1>7, <1>9, <1>12, <1>13
<1> HIDE DEF w
<1>15. w \in DirContents
  <2>1. Len(w) <= MaxEntries
    BY <1>12, <1>14
  <2> QED
    BY <1>14, <2>1, DirContentsAre
<1>16. /\ write_file(d, BLOCK_SIZE * Len(w), w) /\ lost' = (lost \/ Damaged(d)')
  BY <1>3, <1>5 DEF PutDir, w, entry
<1>17. /\ SInv'
       /\ status' # "up" => Damaged(d)'
       /\ status' = "up" =>
             /\ \A j \in Inums : j # d => Untouched(j)
             /\ get_inode(d)'.type = "T_DIR"
             /\ \E b \in 0 .. Len(w) :
                   /\ Stores(d, w, b)'
                   /\ \A k \in 1 .. Len(w) : k <= c => k <= b
                   /\ b # Len(w) => \/ using_blocks' = DataBlocks
                                    \/ get_inode(d)'.size > MAXFILE * BLOCK_SIZE
  BY <1>1, <1>4, <1>7, <1>8, <1>15, <1>16, PutDirStep
<1>18. lost' \in BOOLEAN
  BY <1>16
<1>19. CASE status' # "up"
  <2>1. \A e \in Dirs : NameKept(e) /\ NameTaken(e)
    BY <1>19 DEF NameKept, NameTaken
  <2>2. DInv'
    BY <1>1, <1>17, <1>18, <1>19 DEF DInv
  <2> QED
    BY <1>19, <2>1, <2>2 DEF StepOK
<1>20. CASE status' = "up"
  <2>1. PICK b \in 0 .. Len(w) :
                   /\ Stores(d, w, b)'
                   /\ \A k \in 1 .. Len(w) : k <= c => k <= b
                   /\ b # Len(w) => \/ using_blocks' = DataBlocks
                                    \/ get_inode(d)'.size > MAXFILE * BLOCK_SIZE
    BY <1>17, <1>20
  <2>2. /\ (d \in Dirs => d \in Dirs') /\ DirOK(d)'
        /\ Readable(d) = Front(v, c) /\ Readable(d)' = Front(w, b)
        /\ (Damaged(d)' <=> b # Len(w))
    BY <1>7, <1>8, <1>15, <1>17, <1>20, <2>1, PutsKeep
  <2>3. \A j \in Inums : j # d => Untouched(j)
    BY <1>17, <1>20
  <2>4. Front(v, c) \subseteq Front(w, b)
    <3> SUFFICES ASSUME NEW k \in 1 .. c, \A j \in 1 .. k : v[j] # Garbage
                 PROVE  v[k] \in Front(w, b)
      BY DEF Front
    <3>1. k \in 1 .. Len(w) /\ k \in 1 .. b
      BY <1>12, <1>14, <2>1
    <3>2. \A j \in 1 .. k : j \in 1 .. Len(v) /\ j \in 1 .. c
      BY <1>12
    <3>3. \A j \in 1 .. k : w[j] = v[j]
      BY <1>7, <1>14, <3>2
    <3>4. w[k] = v[k]
      BY <3>3
    <3> QED
      BY <3>1, <3>3, <3>4 DEF Front
  <2>4a. NewHasFile(d)
    <3> SUFFICES ASSUME Intact(d), NEW e \in Front(w, b), e \notin Front(v, c)
                 PROVE  Exists(e.inum)' \/ (e.inum = 0 /\ Cardinality(FreeInums) <= 1)
      BY <2>2 DEF NewHasFile
    <3>1. c = Len(v) /\ v \in Seq(Entry)
      BY <1>7, StoresIntact
    <3>2. PICK k \in 1 .. b : e = w[k]
      BY DEF Front
    <3>3. k \in 1 .. Len(v) \/ k = Len(v) + 1
      BY <1>12, <1>14, <3>2
    <3>4. ASSUME k \in 1 .. Len(v) PROVE FALSE
      <4>1. e = v[k]
        BY <1>7, <1>14, <3>1, <3>2, <3>4
      <4>2. v[k] \in Front(v, c)
        BY <1>12, <3>1, <3>4, EntriesInFront
      <4> QED
        BY <4>1, <4>2
    <3>5. e.inum = n
      BY <1>14, <3>2, <3>3, <3>4 DEF entry
    <3>6. CASE n = 0
      <4>1. Cardinality(FreeInums) <= 1
        BY <1>1, <1>4, <1>5, <1>10, <3>6 DEF RequestOK
      <4> QED
        BY <3>5, <3>6, <4>1
    <3>7. CASE n # 0
      <4>1. n \in Inums /\ Untouched(n)
        BY <1>8, <2>3, <3>7, InumFacts
      <4>2. get_inode(n)'.type = type /\ type # "0"
        BY <1>1, <1>11, <3>7, <4>1 DEF Untouched, NewType
      <4>3. Exists(n)'
        BY <4>2 DEF Exists
      <4> QED
        BY <3>5, <4>3
    <3> QED
      BY <3>6, <3>7
  <2>5. \A e \in Dirs : Survives(e) /\ NewHasFile(e)
    <3> SUFFICES ASSUME NEW e \in Dirs PROVE Survives(e) /\ NewHasFile(e)
      OBVIOUS
    <3>1. CASE e = d
      BY <2>2, <2>4, <2>4a, <3>1 DEF Survives
    <3>2. CASE e # d
      <4>1. e \in Inums /\ Untouched(e)
        BY <2>3, <3>2, DirsFacts
      <4>2. Readable(e)' = Readable(e) /\ e \in Dirs'
        BY <1>4, <1>17, <4>1, DirFrame
      <4> QED
        BY <4>2 DEF Survives, NewHasFile
    <3> QED
      BY <3>1, <3>2
  <2>6. \A e \in Dirs : NameKept(e) /\ NameTaken(e)
    <3>0. \A e \in Dirs : NameTaken(e)
      BY <1>1 DEF NameTaken
    <3> SUFFICES ASSUME ~ lost, b = Len(w) PROVE [inum |-> req.ino, name |-> req.name] \in Readable(d)'
      BY <1>5, <2>1, <3>0 DEF NameKept, Attr
    <3>1. w \in Seq(Entry) /\ Len(w) \in 1 .. Len(w) /\ Len(w) <= b /\ w[Len(w)] = entry
      BY <1>4, <1>12, <1>14
    <3>2. entry \in Front(w, b)
      BY <3>1, EntriesInFront
    <3> QED
      BY <1>5, <2>2, <3>2 DEF entry
  <2>7. ASSUME NEW i \in Inums PROVE DirOK(i)'
    <3>1. CASE i = d
      BY <2>2, <3>1
    <3>2. CASE i # d
      BY <1>4, <1>10, <1>17, <2>3, <3>2, StoresFrame
    <3> QED
      BY <3>1, <3>2
  <2>8. ASSUME ~ lost' PROVE TableInv'
    <3>1. ~ lost /\ b = Len(w)
      BY <1>16, <2>2, <2>8
    <3>2. g \in Seq(Entry) /\ TableInv /\ table[d] = DirNode(g)
      BY <1>4, <1>5, <3>1
    <3>3. table' = C!AddEntry(C!ec_create(table, n, type), d, n, name)
      BY <1>1, <1>5, <2>8 DEF finish_create, Keep, C!create, C!mkdir, NewType
    <3>4. PICK f : f = table
      OBVIOUS
    <3>5. f = [i \in Inums |-> f[i]] /\ f[d] = DirNode(g)
      BY <3>2, <3>4 DEF TableInv
    <3>6. C!AddEntry(C!ec_create(f, n, type), d, n, name)
              = [i \in Inums |-> IF i = d THEN DirNode(Append(g, [inum |-> n, name |-> name]))
                                 ELSE IF i = n THEN [type |-> type, data |-> << >>] ELSE f[i]]
      BY <1>8, <3>2, <3>5, CreateTable
    <3>7. table' = [i \in Inums |-> IF i = d THEN DirNode(w)
                                    ELSE IF i = n THEN [type |-> type, data |-> << >>] ELSE table[i]]
      BY <3>3, <3>4, <3>6 DEF w, entry
    <3> HIDE DEF type
    <3>8. table' = [i \in Inums |-> table'[i]]
      BY <3>7
    <3>9. TableOK(d)'
      <4>1. table'[d] = DirNode(w) /\ table'[d].type = "T_DIR"
        BY <1>8, <3>7, NodeFacts
      <4> QED
        BY <1>14, <1>15, <1>17, <1>20, <2>1, <3>1, <3>2, <4>1 DEF TableOK
    <3>10. ASSUME n \in Inums PROVE TableOK(n)'
      <4>1. n # 0 /\ Untouched(n)
        BY <1>8, <2>3, <3>10, InumFacts
      <4>2. get_inode(n)' = get_inode(n)
        BY <4>1 DEF Untouched
      <4>3. get_inode(n)'.type = type /\ get_inode(n)'.size = 0
        BY <1>11, <4>1, <4>2
      <4>4. table'[n] = [type |-> type, data |-> << >>]
        BY <1>8, <3>7, <3>10
      <4> QED
        BY <4>3, <4>4, EmptyDir
    <3>11. ASSUME NEW i \in Inums, i # d, i # n PROVE TableOK(i)'
      <4>1. TableOK(i)
        BY <1>5, <3>2, <3>11 DEF TableInv
      <4>2. table'[i] = table[i]
        BY <3>7, <3>11
      <4> QED
        BY <1>4, <1>17, <2>3, <3>11, <4>1, <4>2, DirFrame
    <3> QED
      BY <1>1, <3>8, <3>9, <3>10, <3>11 DEF TableInv
  <2>9. RequestOK'
    BY <1>1 DEF RequestOK
  <2>10. DInv'
    BY <1>1, <1>17, <1>18, <2>7, <2>8, <2>9 DEF DInv
  <2> QED
    BY <2>5, <2>6, <2>10 DEF StepOK
<1> QED
  BY <1>19, <1>20

\* unlink reads the directory once more and puts it without the name, or leaves it
\* when it cannot be parsed, which only a damaged one cannot.
LEMMA FinishUnlinkStep == ASSUME DInv, finish_unlink PROVE StepOK
<1>1. status = "up" /\ req.op = "unlink" /\ req' = Idle
  BY DEF finish_unlink
<1>2. PICK d \in {req.parent} : \E g \in Gets(d) :
            IF C!readdir(View(d, g), d).r = "OK"
            THEN PutDir(d, C!Without(C!readdir(View(d, g), d).list, req.name))
            ELSE UNCHANGED <<imVars, lost>>
  BY DEF finish_unlink
<1>3. PICK g \in Gets(d) :
            IF C!readdir(View(d, g), d).r = "OK"
            THEN PutDir(d, C!Without(C!readdir(View(d, g), d).list, req.name))
            ELSE UNCHANGED <<imVars, lost>>
  BY <1>2
<1>4. /\ SInv /\ req \in Request /\ req # Idle /\ req.parent \in Inums /\ req.name \in Names
      /\ req.ino \in InodeNums /\ get_inode(req.parent).type = "T_DIR" /\ g \in DirContents
      /\ \E v \in DirContents : \E c \in 0 .. Len(v) :
            /\ Stores(req.parent, v, c)
            /\ Len(g) = Len(v) /\ \A k \in 1 .. c : g[k] = v[k]
      /\ req.ino # req.parent
      /\ ~ lost => g \in Seq(Entry) /\ TableInv /\ table[req.parent] = DirNode(g)
  <2>1. g \in Gets(req.parent) /\ req.op \in {"create", "mkdir", "unlink"}
    BY <1>1, <1>3
  <2> QED
    BY <1>1, <2>1, PendingFacts
<1>5. PICK n, name : d = req.parent /\ n = req.ino /\ name = req.name
  OBVIOUS
<1>6. PICK v \in DirContents : \E c \in 0 .. Len(v) :
            Stores(d, v, c) /\ Len(g) = Len(v) /\ \A k \in 1 .. c : g[k] = v[k]
  BY <1>4, <1>5
<1>7. PICK c \in 0 .. Len(v) : Stores(d, v, c) /\ Len(g) = Len(v) /\ \A k \in 1 .. c : g[k] = v[k]
  BY <1>6
<1>8. d \in Inums /\ n \in InodeNums /\ name \in Names /\ d # n /\ get_inode(d).type = "T_DIR"
  BY <1>4, <1>5
<1>9. (\A i \in Inums : DirOK(i)) /\ RequestOK /\ lost \in BOOLEAN
  BY <1>1 DEF DInv
<1>10. n \in Inums /\ get_inode(n).type = "0"
  BY <1>1, <1>4, <1>5, <1>9 DEF RequestOK
<1>11. g \in Seq(Piece) /\ Len(g) = Len(v) /\ Len(v) \in Nat /\ Len(v) <= MaxEntries /\ MaxEntries \in Nat
  <2>1. MaxEntries \in Nat /\ Len(v) \in 0 .. MaxEntries /\ g \in Seq(Piece)
    BY <1>4, DirContentsAre, EntryFacts
  <2> QED
    BY <1>7, <2>1
<1>12. PICK list \in Seq(Entry) :
              /\ C!readdir(View(d, g), d).r = "OK" => C!readdir(View(d, g), d).list = list
              /\ Len(list) <= Len(g)
              /\ \A k \in 1 .. Len(g) : (\A j \in 1 .. k : g[j] # Garbage) =>
                    k <= Len(list) /\ list[k] = g[k]
              /\ g \in Seq(Entry) => list = g /\ C!readdir(View(d, g), d).r = "OK"
  BY <1>8, <1>11, ParsedFacts
<1>13. \A e \in Dirs : NameKept(e)
  BY <1>1 DEF NameKept
<1>14. RequestOK'
  BY <1>1 DEF RequestOK
<1>14a. ASSUME Intact(d) PROVE c = Len(v) /\ v \in Seq(Entry) /\ g = v /\ list = v
                              /\ C!readdir(View(d, g), d).r = "OK"
  <2>1. c = Len(v) /\ v \in Seq(Entry)
    BY <1>7, <1>14a, StoresIntact
  <2>2. g = v
    BY <1>3, <1>7, <1>8, <2>1, GetsOf
  <2> QED
    BY <1>12, <2>1, <2>2
<1>15. CASE C!readdir(View(d, g), d).r # "OK"
  <2>1. UNCHANGED imVars /\ lost' = lost
    BY <1>3, <1>15
  <2>2. SInv' /\ UNCHANGED <<disk, using_blocks, status>>
    BY <1>4, <2>1, NextSInv DEF imVars
  <2>3. \A i \in Inums : Untouched(i)
    BY <1>4, <2>2, SameUntouched, InumFacts DEF SInv
  <2>4. lost
    BY <1>4, <1>12, <1>15
  <2>5. \A i \in Inums : DirOK(i)'
    BY <1>4, <1>9, <2>2, <2>3, StoresFrame
  <2>6. 0 \notin Dirs
    BY DirsFacts, InumFacts
  <2>7. \A e \in Dirs : Survives(e) /\ NewHasFile(e)
    BY <1>4, <2>2, <2>3, <2>6, OthersSurvive
  <2>8. DInv'
    BY <1>1, <1>9, <1>14, <2>1, <2>2, <2>4, <2>5 DEF DInv
  <2>9. \A e \in Dirs : NameTaken(e)
    BY <1>5, <1>15, <1>14a DEF NameTaken
  <2> QED
    BY <1>13, <2>7, <2>8, <2>9 DEF StepOK
<1>16. ASSUME C!readdir(View(d, g), d).r = "OK" PROVE StepOK
  <2> DEFINE w == C!Without(list, name)
  <2>1. w \in Seq(Entry) /\ Shortened(list, w, name)
    BY WithoutFacts
  <2> HIDE DEF w
  <2>2. Len(w) <= Len(list) /\ Len(w) \in Nat /\ Len(list) \in Nat
    BY <2>1 DEF Shortened
  <2>3. w \in DirContents
    <3>1. Len(w) <= MaxEntries
      BY <1>11, <1>12, <2>2
    <3>2. w \in Seq(Piece)
      BY <2>1, DirContentsAre
    <3> QED
      BY <3>1, <3>2, DirContentsAre
  <2>4. PutDir(d, w)
    BY <1>3, <1>5, <1>12, <1>16 DEF w
  <2>5. write_file(d, BLOCK_SIZE * Len(w), w) /\ lost' = (lost \/ Damaged(d)')
    BY <2>4 DEF PutDir
  <2>6. /\ SInv'
        /\ status' # "up" => Damaged(d)'
        /\ status' = "up" =>
              /\ \A j \in Inums : j # d => Untouched(j)
              /\ get_inode(d)'.type = "T_DIR"
              /\ \E b \in 0 .. Len(w) :
                    /\ Stores(d, w, b)'
                    /\ \A k \in 1 .. Len(w) : k <= c => k <= b
                    /\ b # Len(w) => \/ using_blocks' = DataBlocks
                                     \/ get_inode(d)'.size > MAXFILE * BLOCK_SIZE
    BY <1>1, <1>4, <1>7, <1>8, <2>3, <2>5, PutDirStep
  <2>7. lost' \in BOOLEAN
    BY <2>5
  <2>8. CASE status' # "up"
    <3>1. DInv'
      BY <1>1, <2>6, <2>7, <2>8 DEF DInv
    <3>2. \A e \in Dirs : NameTaken(e)
      BY <2>8 DEF NameTaken
    <3> QED
      BY <1>13, <2>8, <3>1, <3>2 DEF StepOK
  <2>9. CASE status' = "up"
    <3>1. PICK b \in 0 .. Len(w) : Stores(d, w, b)' /\ \A k \in 1 .. Len(w) : k <= c => k <= b
      BY <2>6, <2>9
    <3>2. /\ (d \in Dirs => d \in Dirs') /\ DirOK(d)'
          /\ Readable(d) = Front(v, c) /\ Readable(d)' = Front(w, b)
          /\ (Damaged(d)' <=> b # Len(w))
      BY <1>7, <1>8, <2>3, <2>6, <2>9, <3>1, PutsKeep
    <3>3. \A j \in Inums : j # d => Untouched(j)
      BY <2>6, <2>9
    <3>4. ASSUME NEW e \in Front(v, c), e.name # name PROVE e \in Front(w, b)
      <4>1. PICK k \in 1 .. c : e = v[k] /\ \A j \in 1 .. k : v[j] # Garbage
        BY DEF Front
      <4>2. k \in 1 .. Len(g) /\ \A j \in 1 .. k : j \in 1 .. c
        BY <1>11
      <4>3. \A j \in 1 .. k : g[j] # Garbage
        BY <1>7, <4>1, <4>2
      <4>4. k <= Len(list) /\ list[k] = e
        BY <1>7, <1>12, <4>1, <4>2, <4>3
      <4>5. k \in 1 .. Len(list)
        BY <2>2, <4>4
      <4>6. PICK m \in 1 .. Len(w) : m <= k /\ w[m] = list[k]
        BY <2>1, <3>4, <4>4, <4>5 DEF Shortened
      <4>7. m <= c
        BY <1>11, <2>2, <4>6
      <4>8. m <= b
        BY <3>1, <4>7
      <4>9. w[m] \in Front(w, b)
        BY <2>1, <4>8, EntriesInFront
      <4> QED
        BY <4>4, <4>6, <4>9
    <3>4a. ASSUME NEW e \in Front(w, b)
          PROVE  e.name # name /\ (Intact(d) => e \in Front(v, c))
      <4>1. PICK m \in 1 .. b : e = w[m]
        BY DEF Front
      <4>2. m \in 1 .. Len(w)
        BY <2>2, <4>1
      <4>3. PICK k \in 1 .. Len(list) : w[m] = list[k] /\ list[k].name # name
        BY <2>1, <4>2 DEF Shortened
      <4>4. ASSUME Intact(d) PROVE e \in Front(v, c)
        <5>1. c = Len(v) /\ v \in Seq(Entry) /\ list = v
          BY <1>14a, <4>4
        <5>2. k \in 1 .. Len(v) /\ k <= c /\ c \in 0 .. Len(v)
          BY <1>11, <5>1
        <5>3. v[k] \in Front(v, c)
          BY <5>1, <5>2, EntriesInFront
        <5> QED
          BY <4>1, <4>3, <5>1, <5>3
      <4> QED
        BY <4>1, <4>3, <4>4
    <3>4b. NewHasFile(d)
      BY <3>2, <3>4a DEF NewHasFile
    <3>4c. ASSUME Intact(d) PROVE Intact(d)'
      <4>1. c = Len(v) /\ list = v
        BY <1>14a, <3>4c
      <4>2. b = Len(w)
        <5>1. Len(w) <= c
          BY <2>2, <4>1
        <5>2. Len(w) = 0 \/ Len(w) \in 1 .. Len(w)
          BY <2>2
        <5>3. Len(w) \in 1 .. Len(w) => Len(w) <= b
          BY <3>1, <5>1
        <5> QED
          BY <2>2, <5>2, <5>3
      <4> QED
        BY <2>1, <2>3, <3>1, <4>2, StoresIntact
    <3>4d. \A e \in Dirs : NameTaken(e)
      BY <1>5, <3>2, <3>4a, <3>4c DEF NameTaken
    <3>5. \A e \in Dirs : Survives(e) /\ NewHasFile(e)
      <4> SUFFICES ASSUME NEW e \in Dirs PROVE Survives(e) /\ NewHasFile(e)
        OBVIOUS
      <4>1. CASE e = d
        BY <1>1, <1>5, <3>2, <3>4, <3>4b, <4>1 DEF Survives
      <4>2. CASE e # d
        <5>1. e \in Inums /\ Untouched(e)
          BY <3>3, <4>2, DirsFacts
        <5>2. Readable(e)' = Readable(e) /\ e \in Dirs'
          BY <1>4, <2>6, <5>1, DirFrame
        <5> QED
          BY <5>2 DEF Survives, NewHasFile
      <4> QED
        BY <4>1, <4>2
    <3>6. ASSUME NEW i \in Inums PROVE DirOK(i)'
      <4>1. CASE i = d
        BY <3>2, <4>1
      <4>2. CASE i # d
        BY <1>4, <1>9, <2>6, <3>3, <4>2, StoresFrame
      <4> QED
        BY <4>1, <4>2
    <3>7. ASSUME ~ lost' PROVE TableInv'
      <4>1. ~ lost /\ b = Len(w)
        BY <2>5, <3>2, <3>7
      <4>2. TableInv /\ table[d] = DirNode(list)
        BY <1>4, <1>5, <1>12, <4>1
      <4>3. table' = C!unlink(table, d, name)
        BY <1>5, <3>7 DEF finish_unlink, Keep
      <4>4. PICK f : f = table
        OBVIOUS
      <4>5. f = [i \in Inums |-> f[i]] /\ f[d] = DirNode(list) /\ n = C!lookup(f, d, name).ino
        BY <1>1, <1>4, <1>5, <4>2, <4>4 DEF TableInv
      <4>6. C!unlink(f, d, name)
                = [i \in Inums |-> IF i = d THEN DirNode(C!Without(list, name))
                                   ELSE IF i = n THEN C!NoFile ELSE f[i]]
        BY <1>8, <1>10, <4>5, UnlinkTable
      <4>7. table' = [i \in Inums |-> IF i = d THEN DirNode(w) ELSE IF i = n THEN C!NoFile ELSE table[i]]
        BY <4>3, <4>4, <4>6 DEF w
      <4>8. table' = [i \in Inums |-> table'[i]]
        BY <4>7
      <4>9. TableOK(d)'
        <5>1. table'[d] = DirNode(w) /\ table'[d].type = "T_DIR"
          BY <1>8, <4>7, NodeFacts
        <5> QED
          BY <2>1, <2>3, <2>6, <2>9, <3>1, <4>1, <5>1 DEF TableOK
      <4>10. TableOK(n)'
        <5>1. get_inode(n)'.type = "0"
          BY <1>8, <1>10, <3>3 DEF Untouched
        <5>2. table'[n].type = "0"
          BY <1>8, <1>10, <4>7, NodeFacts
        <5> QED
          BY <5>1, <5>2 DEF TableOK
      <4>11. ASSUME NEW i \in Inums, i # d, i # n PROVE TableOK(i)'
        <5>1. TableOK(i)
          BY <1>5, <4>2, <4>11 DEF TableInv
        <5>2. table'[i] = table[i]
          BY <4>7, <4>11
        <5> QED
          BY <1>4, <2>6, <3>3, <4>11, <5>1, <5>2, DirFrame
      <4> QED
        BY <1>1, <4>8, <4>9, <4>10, <4>11 DEF TableInv
    <3>8. DInv'
      BY <1>1, <1>14, <2>6, <2>7, <3>6, <3>7 DEF DInv
    <3> QED
      BY <1>13, <3>5, <3>8, <3>4d DEF StepOK
  <2> QED
    BY <2>8, <2>9
<1> QED
  BY <1>15, <1>16

\* Every step keeps the invariant and does what the action properties ask.
LEMMA DiskStep == ASSUME DInv, [DiskNext]_diskVars PROVE StepOK
  BY BeginCreateStep, FinishCreateStep, BeginUnlinkStep, FinishUnlinkStep, ResizeStep, SameStep
     DEF DiskNext

\* The inductive invariant holds.
LEMMA DInvHolds == DiskSpec => []DInv
<1>1. DiskInit => DInv
  BY InitDInv
<1>2. DInv /\ [DiskNext]_diskVars => DInv'
  BY DiskStep DEF StepOK
<1> QED
  BY <1>1, <1>2, PTL DEF DiskSpec

-----------------------------------------------------------------------------
(* The theorems. *)

\* What create, mkdir, unlink and the writes of files put into the blocks, and
\* the request in progress between its two extent calls, are always of their type.
THEOREM DiskTypeCorrect == DiskSpec => []DiskTypeOK
<1>1. DInv => DiskTypeOK
  <2> SUFFICES ASSUME DInv PROVE DiskTypeOK
    OBVIOUS
  <2>1. TypeOK /\ lost \in BOOLEAN
    BY DEF DInv, SInv, IInv
  <2>2. req # Idle => req.parent \in Inums /\ req.ino \in 0 .. INODE_NUM
    BY DEF DInv, Request, InodeNums
  <2> QED
    BY <2>1, <2>2 DEF DiskTypeOK
<1> QED
  BY <1>1, DInvHolds, PTL

\* Until the put of a directory loses a piece, the inodes and the directories on
\* the disk are the files that chfs_client's create, mkdir and unlink compute:
\* for every geometry of the disk and every set of names.
THEOREM BlocksAreTheTable == DiskSpec => []BlocksHoldTheTable
<1>1. DInv => BlocksHoldTheTable
  <2> SUFFICES ASSUME DInv, status = "up", req = Idle, ~ lost, NEW i \in Inums
               PROVE  /\ Attr(i).type = table[i].type
                      /\ i \in Dirs => \A c \in Gets(i) : FieldsOf(c) = table[i].data
    BY DEF BlocksHoldTheTable
  <2>1. TableOK(i)
    BY DEF DInv, TableInv
  <2>2. Attr(i).type = table[i].type
    BY <2>1 DEF TableOK, Attr
  <2>3. ASSUME i \in Dirs, NEW c \in Gets(i) PROVE FieldsOf(c) = table[i].data
    <3>1. PICK v \in DirContents : v \in Seq(Entry) /\ Stores(i, v, Len(v)) /\ table[i] = DirNode(v)
      BY <2>1, <2>3, DirsFacts DEF TableOK
    <3>2. c = v
      BY <3>1, GetsOf
    <3>3. FieldsOf(v) = C!Fields(v)
      BY <3>1, FieldsOfFacts, DirContentsAre
    <3> QED
      BY <3>1, <3>2, <3>3, NodeFacts
  <2> QED
    BY <2>2, <2>3
<1> QED
  BY <1>1, DInvHolds, PTL

\* A create or mkdir that says OK leaves an entry that lookup finds, unless every
\* data block is in use, the directory is larger than an inode can describe, or a
\* directory had been damaged before.
THEOREM NamesLostOnlyWhenFull == DiskSpec => NameLostOnlyWhenFull
<1>1. DInv /\ [DiskNext]_diskVars =>
        [\A d \in Dirs :
            status' = "up" /\ req.op \in {"create", "mkdir"} /\ req.parent = d /\ req' = Idle =>
               \/ [inum |-> req.ino, name |-> req.name] \in Readable(d)'
               \/ using_blocks' = DataBlocks
               \/ Attr(d).size' > MAXFILE * BLOCK_SIZE
               \/ lost]_diskVars
  BY DiskStep DEF StepOK, NameKept
<1> QED
  BY <1>1, DInvHolds, PTL DEF DiskSpec, NameLostOnlyWhenFull

\* The entries in front of the first lost piece outlive every request, on a full
\* disk and in a damaged directory too, until they are unlinked by name.
THEOREM EntriesSurviveDamage == DiskSpec => ReadableEntriesSurvive
<1>1. DInv /\ [DiskNext]_diskVars =>
        [status' = "up" =>
            \A d \in Dirs : \A e \in Readable(d) :
                \/ d \in Dirs' /\ e \in Readable(d)'
                \/ req.op = "unlink" /\ req.parent = d /\ req.name = e.name]_diskVars
  BY DiskStep DEF StepOK, Survives
<1> QED
  BY <1>1, DInvHolds, PTL DEF DiskSpec, ReadableEntriesSurvive

\* An entry that create or mkdir adds to an intact directory leads to a file,
\* unless it is for inum 0 and at most one inode was free: for every number of
\* inodes and every history of the scan that alloc_inode makes.
THEOREM NewEntriesHaveFiles == DiskSpec => NewEntryHasFile
<1>1. DInv /\ [DiskNext]_diskVars =>
        [status' = "up" =>
            \A d \in Dirs : Intact(d) =>
                \A e \in Readable(d)' \ Readable(d) :
                    Exists(e.inum)' \/ (e.inum = 0 /\ Cardinality(FreeInums) <= 1)]_diskVars
  BY DiskStep DEF StepOK, NewHasFile
<1> QED
  BY <1>1, DInvHolds, PTL DEF DiskSpec, NewEntryHasFile

\* An unlink takes the name out of an intact directory and leaves it intact, on a
\* full disk too: only in a damaged directory can a name outlive its file.
THEOREM UnlinksTakeTheName == DiskSpec => UnlinkTakesTheName
<1>1. DInv /\ [DiskNext]_diskVars =>
        [\A d \in Dirs :
            status' = "up" /\ req.op = "unlink" /\ req.parent = d /\ req' = Idle /\ Intact(d) =>
               Intact(d)' /\ \A e \in Readable(d)' : e.name # req.name]_diskVars
  BY DiskStep DEF StepOK, NameTaken
<1> QED
  BY <1>1, DInvHolds, PTL DEF DiskSpec, UnlinkTakesTheName

=============================================================================
