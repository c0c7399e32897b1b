-------------------------- MODULE FuseServerProofs --------------------------
(***************************************************************************)
(* The namespace: what create, mkdir, symlink and unlink do to the tree of *)
(* directories, and that write and setattr never touch it.                 *)
(***************************************************************************)
EXTENDS FuseServer, Counting, SequenceTheorems

EntryRecord == [inum : 0 .. INODE_NUM, name : Names]
Contents == BoundedSeq(Bytes \cup {Zero}, MaxLen)
DirNode(list) == [type |-> "T_DIR", data |-> Fields(list)]
ListOf(f, d) == readdir(f, d).list

-----------------------------------------------------------------------------
(* Directories as text: what is written is what is read back. *)

\* The content of a directory has two fields for each of its entries.
LEMMA FieldsShape ==
    ASSUME NEW list \in Seq(EntryRecord)
    PROVE  /\ Len(Fields(list)) = 2 * Len(list)
           /\ \A k \in 1 .. Len(list) : /\ Fields(list)[2 * k - 1] = filename(list[k].inum)
                                        /\ Fields(list)[2 * k] = list[k].name
<1>1. Len(list) \in Nat
  OBVIOUS
<1>2. Len(Fields(list)) = 2 * Len(list)
  BY <1>1 DEF Fields
<1>3. ASSUME NEW k \in 1 .. Len(list)
      PROVE  /\ Fields(list)[2 * k - 1] = filename(list[k].inum)
             /\ Fields(list)[2 * k] = list[k].name
  <2>1. 2 * k \in 1 .. 2 * Len(list) /\ 2 * k - 1 \in 1 .. 2 * Len(list)
    BY <1>1
  <2>2. (2 * k) % 2 = 0 /\ (2 * k - 1) % 2 = 1 /\ (2 * k) \div 2 = k /\ (2 * k - 1 + 1) \div 2 = k
    OBVIOUS
  <2> QED
    BY <2>1, <2>2 DEF Fields
<1> QED
  BY <1>2, <1>3

\* readdir parses a directory back into the entries it was written from.
LEMMA FieldsRead ==
    ASSUME NEW f, NEW d \in Inums, NEW list \in Seq(EntryRecord), f[d] = DirNode(list)
    PROVE  readdir(f, d).r = "OK" /\ ListOf(f, d) = list
<1>1. Len(list) \in Nat /\ list = [k \in 1 .. Len(list) |-> list[k]]
  OBVIOUS
<1>2. ec_get(f, d) = Fields(list) /\ check_dir_inode(f, d)
  BY DEF ec_get, check_dir_inode, TypeIn, DirNode
<1>3. (2 * Len(list)) % 2 = 0 /\ (2 * Len(list)) \div 2 = Len(list)
  <2>1. \A n \in Nat : (2 * n) % 2 = 0 /\ (2 * n) \div 2 = n
    OBVIOUS
  <2> QED
    BY <1>1, <2>1
<1>4. readdir(f, d).r = "OK"
  BY <1>2, <1>3, FieldsShape DEF readdir
<1>5. ASSUME NEW k \in 1 .. Len(list)
      PROVE  [inum |-> n2i(Fields(list)[2 * k - 1]), name |-> Fields(list)[2 * k]] = list[k]
  <2>1. list[k] \in EntryRecord
    BY <1>1
  <2>2. n2i(filename(list[k].inum)) = list[k].inum
    BY <2>1 DEF n2i, filename, EntryRecord
  <2>3. list[k] = [inum |-> list[k].inum, name |-> list[k].name]
    BY <2>1 DEF EntryRecord
  <2> QED
    BY <2>2, <2>3, FieldsShape
<1>6. readdir(f, d).list = [k \in 1 .. Len(list) |->
                              [inum |-> n2i(Fields(list)[2 * k - 1]), name |-> Fields(list)[2 * k]]]
  BY <1>2, <1>3, FieldsShape DEF readdir
<1> QED
  BY <1>1, <1>4, <1>5, <1>6 DEF ListOf

\* Appending the text of an entry to a directory appends the entry.
LEMMA FieldsAppend ==
    ASSUME NEW list \in Seq(EntryRecord), NEW ino \in 0 .. INODE_NUM, NEW name \in Names
    PROVE  /\ Append(list, [inum |-> ino, name |-> name]) \in Seq(EntryRecord)
           /\ Fields(list) \o <<filename(ino), name>>
                 = Fields(Append(list, [inum |-> ino, name |-> name]))
<1> DEFINE entry == [inum |-> ino, name |-> name]
           more == Append(list, entry)
           n == Len(list)
<1>1. n \in Nat /\ entry \in EntryRecord
  BY DEF EntryRecord
<1>2. more \in Seq(EntryRecord) /\ Len(more) = n + 1 /\ more[n + 1] = entry
      /\ \A k \in 1 .. n : more[k] = list[k]
  BY <1>1
<1> HIDE DEF more
<1> DEFINE left == Fields(list) \o <<filename(ino), name>>
           right == Fields(more)
<1>3. Len(Fields(list)) = 2 * n /\ Len(right) = 2 * n + 2
  BY <1>1, <1>2, FieldsShape
<1>4. Fields(list) = [j \in 1 .. 2 * n |-> Fields(list)[j]] /\ right = [j \in 1 .. 2 * n + 2 |-> right[j]]
  BY <1>1, <1>2 DEF Fields
<1>5. left = [j \in 1 .. 2 * n + 2 |-> IF j <= 2 * n THEN Fields(list)[j]
                                        ELSE <<filename(ino), name>>[j - 2 * n]]
  BY <1>1, <1>3, <1>4
<1>6. ASSUME NEW j \in 1 .. 2 * n + 2
      PROVE  right[j] = IF j <= 2 * n THEN Fields(list)[j] ELSE <<filename(ino), name>>[j - 2 * n]
  <2>1. CASE j <= 2 * n
    <3>1. (j % 2 = 1 => (j + 1) \div 2 \in 1 .. n) /\ (j % 2 # 1 => j \div 2 \in 1 .. n)
      BY <1>1, <2>1
    <3> QED
      BY <1>1, <1>2, <2>1, <3>1 DEF Fields
  <2>2. CASE j > 2 * n
    <3>1. j = 2 * (n + 1) - 1 \/ j = 2 * (n + 1)
      BY <1>1, <2>2
    <3>2. right[2 * (n + 1) - 1] = filename(ino) /\ right[2 * (n + 1)] = name
      <4>1. n + 1 \in 1 .. Len(more) /\ more[n + 1].inum = ino /\ more[n + 1].name = name
        BY <1>1, <1>2
      <4>2. \A k \in 1 .. Len(more) : right[2 * k - 1] = filename(more[k].inum) /\ right[2 * k] = more[k].name
        BY <1>2, FieldsShape
      <4> QED
        BY <4>1, <4>2
    <3>3. 2 * (n + 1) - 1 - 2 * n = 1 /\ 2 * (n + 1) - 2 * n = 2
      BY <1>1
    <3> QED
      BY <1>1, <2>2, <3>1, <3>2, <3>3
  <2> QED
    BY <1>1, <2>1, <2>2
<1> QED
  BY <1>2, <1>4, <1>5, <1>6 DEF more

\* unlink keeps exactly the entries of another name, each once.
LEMMA WithoutFacts ==
    ASSUME NEW list \in Seq(EntryRecord), NEW name
    PROVE  LET rest == Without(list, name)
           IN  /\ rest \in Seq(EntryRecord)
               /\ \E from \in [DOMAIN rest -> DOMAIN list] :
                     /\ \A m, n \in DOMAIN rest : from[m] = from[n] => m = n
                     /\ \A n \in DOMAIN rest : rest[n] = list[from[n]] /\ rest[n].name # name
                     /\ \A k \in DOMAIN list :
                           list[k].name # name => \E n \in DOMAIN rest : from[n] = k
<1> DEFINE kept == {k \in DOMAIN list : list[k].name # name}
           nth(n) == CHOOSE k \in kept : Cardinality({j \in kept : j <= k}) = n
           N == 1 .. Cardinality(kept)
           from == [n \in N |-> nth(n)]
           rest == Without(list, name)
<1>1. DOMAIN list = 1 .. Len(list) /\ Len(list) \in Nat /\ \A k \in DOMAIN list : list[k] \in EntryRecord
  OBVIOUS
<1>2. kept \in SUBSET Int /\ IsFiniteSet(kept) /\ Cardinality(kept) \in Nat
  <2>1. kept \subseteq 1 .. Len(list) /\ IsFiniteSet(1 .. Len(list))
    BY <1>1, FS_Interval
  <2>2. IsFiniteSet(kept)
    BY <2>1, FS_Subset
  <2> QED
    BY <2>1, <2>2, FS_CardinalityType
<1>3. rest = [n \in N |-> list[nth(n)]]
  BY DEF Without
<1>4. \A k \in kept : Rank(kept, k) \in N
  BY <1>2, RankFacts
<1>5. \A k, l \in kept : Rank(kept, k) = Rank(kept, l) => k = l
  BY <1>2, RankFacts
<1>6. \A n \in N : \E k \in kept : Rank(kept, k) = n
  BY <1>2, RankOnto
<1>7. ASSUME NEW n \in N PROVE nth(n) \in kept /\ Rank(kept, nth(n)) = n
  <2>1. nth(n) = CHOOSE k \in kept : Rank(kept, k) = n
    BY DEF Rank
  <2> QED
    BY <1>6, <2>1
<1> HIDE DEF kept, nth, N
<1>8. rest \in Seq(EntryRecord) /\ DOMAIN rest = N
  <2>1. \A n \in N : list[nth(n)] \in EntryRecord
    BY <1>1, <1>7 DEF kept
  <2> QED
    BY <1>2, <1>3, <2>1 DEF N
<1>9. from \in [DOMAIN rest -> DOMAIN list]
  BY <1>7, <1>8 DEF kept
<1>10. \A m, n \in DOMAIN rest : from[m] = from[n] => m = n
  BY <1>7, <1>8
<1>11. \A n \in DOMAIN rest : rest[n] = list[from[n]] /\ rest[n].name # name
  BY <1>3, <1>7, <1>8 DEF kept
<1>12. ASSUME NEW k \in DOMAIN list, list[k].name # name PROVE \E n \in DOMAIN rest : from[n] = k
  <2>1. k \in kept
    BY <1>12 DEF kept
  <2>2. Rank(kept, k) \in N /\ nth(Rank(kept, k)) = k
    BY <1>4, <1>5, <1>7, <2>1
  <2> QED
    BY <1>8, <2>2
<1> QED
  BY <1>8, <1>9, <1>10, <1>11, <1>12

\* lookup finds an entry exactly when there is one of that name.
LEMMA LookupFacts ==
    ASSUME NEW f, NEW d \in Inums, NEW list \in Seq(EntryRecord), f[d] = DirNode(list), NEW name
    PROVE  /\ lookup(f, d, name).r = "OK" /\ lookup(f, d, name).found \in BOOLEAN
           /\ lookup(f, d, name).found =>
                 \E k \in DOMAIN list : list[k].name = name /\ lookup(f, d, name).ino = list[k].inum
           /\ ~ lookup(f, d, name).found =>
                 lookup(f, d, name).ino = 0 /\ \A k \in DOMAIN list : list[k].name # name
           /\ lookup(f, d, name).ino \in 0 .. INODE_NUM
<1> DEFINE dir == readdir(f, d)
           hits == {k \in DOMAIN dir.list : dir.list[k].name = name}
           first == CHOOSE k \in hits : \A j \in hits : k <= j
           L == lookup(f, d, name)
<1>1. DOMAIN list = 1 .. Len(list) /\ Len(list) \in Nat /\ \A k \in DOMAIN list : list[k] \in EntryRecord
  OBVIOUS
<1>2. dir.r = "OK" /\ dir.list = list
  BY FieldsRead DEF ListOf
<1>3. L = [r |-> dir.r, found |-> dir.r = "OK" /\ hits # {},
           ino |-> IF dir.r = "OK" /\ hits # {} THEN dir.list[first].inum ELSE 0]
  BY Zenon DEF lookup
<1> HIDE DEF dir
<1>4. hits # {} => first \in hits
  <2>1. hits \subseteq 1 .. Len(list) /\ IsFiniteSet(1 .. Len(list))
    BY <1>1, <1>2, FS_Interval
  <2>2. IsFiniteSet(hits) /\ hits \in SUBSET Int
    BY <2>1, FS_Subset
  <2>3. hits # {} => \E k \in hits : \A j \in hits : k <= j
    BY <2>2, LeastElement
  <2> QED
    BY <2>3
<1> HIDE DEF first
<1>5. hits # {} => first \in DOMAIN list /\ list[first].name = name /\ list[first].inum \in 0 .. INODE_NUM
  BY <1>1, <1>2, <1>4 DEF EntryRecord
<1>6. hits = {} => \A k \in DOMAIN list : list[k].name # name
  BY <1>2
<1> HIDE DEF hits
<1>7. /\ L.r = "OK" /\ L.found = (hits # {})
      /\ hits # {} => L.ino = list[first].inum
      /\ hits = {} => L.ino = 0
  BY <1>2, <1>3
<1>8. 0 \in 0 .. INODE_NUM
  BY ChfsAssumption
<1> QED
  BY <1>5, <1>6, <1>7, <1>8

-----------------------------------------------------------------------------
(* The tree as a property of a file table. *)

FileOK(f, i) ==
    \/ f[i] = NoFile
    \/ \E list \in Seq(EntryRecord) : f[i] = DirNode(list)
    \/ \E type \in {"T_FILE", "T_SYMBOLIC"}, data \in Contents : f[i] = [type |-> type, data |-> data]

Table(f) ==
    /\ f = [i \in Inums |-> f[i]]
    /\ \A i \in Inums : FileOK(f, i)
    /\ f[1].type = "T_DIR"

LiveIn(f) == Inums \ Absent(f)
DirsIn(f) == {i \in Inums : f[i].type = "T_DIR"}

\* LinkedOnce, NamesUnique and Connected of a file table.
LinkedIn(f) ==
    /\ \A d \in DirsIn(f) : \A k \in DOMAIN ListOf(f, d) :
          ListOf(f, d)[k].inum # 0 => ListOf(f, d)[k].inum \in LiveIn(f) \ {1}
    /\ \A i \in LiveIn(f) \ {1} : \E d \in DirsIn(f) : \E k \in DOMAIN ListOf(f, d) :
          ListOf(f, d)[k].inum = i
    /\ \A d, e \in DirsIn(f) : \A k \in DOMAIN ListOf(f, d), m \in DOMAIN ListOf(f, e) :
          ListOf(f, d)[k].inum # 0 /\ ListOf(f, d)[k].inum = ListOf(f, e)[m].inum => d = e /\ k = m

UniqueIn(f) ==
    \A d \in DirsIn(f) : \A j, k \in DOMAIN ListOf(f, d) :
        ListOf(f, d)[j].name = ListOf(f, d)[k].name => j = k

Closed(f, S) ==
    \A d \in S \cap DirsIn(f) : \A k \in DOMAIN ListOf(f, d) :
        ListOf(f, d)[k].inum \in LiveIn(f) => ListOf(f, d)[k].inum \in S

ReachIn(f) == \A S \in SUBSET LiveIn(f) : 1 \in S /\ Closed(f, S) => S = LiveIn(f)

\* Every entry of f is still an entry of g.
Kept(f, g) ==
    \A d \in DirsIn(f) : \A k \in DOMAIN ListOf(f, d) :
        \E m \in DOMAIN ListOf(g, d) : ListOf(g, d)[m] = ListOf(f, d)[k]

Tree(f) == Table(f) /\ LinkedIn(f) /\ UniqueIn(f) /\ ReachIn(f)

\* A directory of a table has a list of entries, and readdir returns it.
LEMMA DirHasList ==
    ASSUME NEW f, Table(f), NEW d \in DirsIn(f)
    PROVE  /\ d \in LiveIn(f)
           /\ ListOf(f, d) \in Seq(EntryRecord) /\ f[d] = DirNode(ListOf(f, d))
           /\ readdir(f, d).r = "OK"
<1>1. d \in Inums /\ f[d].type = "T_DIR" /\ FileOK(f, d)
  BY DEF Table, DirsIn
<1>2. PICK list \in Seq(EntryRecord) : f[d] = DirNode(list)
  <2>1. f[d] # NoFile
    BY <1>1 DEF NoFile
  <2>2. ASSUME NEW t \in {"T_FILE", "T_SYMBOLIC"}, NEW c \in Contents, f[d] = [type |-> t, data |-> c]
        PROVE  FALSE
    <3>1. f[d].type = t
      BY <2>2
    <3> QED
      BY <1>1, <3>1
  <2> QED
    BY <1>1, <2>1, <2>2, Zenon DEF FileOK
<1>3. readdir(f, d).r = "OK" /\ ListOf(f, d) = list
  BY <1>1, <1>2, FieldsRead
<1> QED
  BY <1>1, <1>2, <1>3 DEF LiveIn, Absent

\* An empty content is that of a directory without entries.
LEMMA EmptyDir == Fields(<< >>) = << >> /\ << >> \in Seq(EntryRecord)
<1>1. Len(<< >>) = 0 /\ 2 * 0 = 0 /\ 1 .. 0 = {}
  OBVIOUS
<1> QED
  BY <1>1 DEF Fields

-----------------------------------------------------------------------------
(* A new entry. *)

\* The nodes that create, mkdir and symlink make.
NewNodes == {[type |-> "T_FILE", data |-> << >>], DirNode(<< >>)}
                \cup {[type |-> "T_SYMBOLIC", data |-> <<b>>] : b \in Bytes}

\* g is f with a node for ino, when that is not 0, and an entry for it at the
\* end of the parent.
Added(f, g, parent, ino, name, node) ==
    /\ ino = 0 \/ ino \in Absent(f)
    /\ g = [i \in Inums |-> IF i = parent
                            THEN DirNode(Append(ListOf(f, parent), [inum |-> ino, name |-> name]))
                            ELSE IF i = ino THEN node ELSE f[i]]

\* AddEntry replaces the list of a directory by a longer one.
LEMMA AddEntryEffect ==
    ASSUME NEW h, h = [i \in Inums |-> h[i]], NEW parent \in Inums, NEW list \in Seq(EntryRecord),
           h[parent] = DirNode(list), NEW ino \in 0 .. INODE_NUM, NEW name \in Names
    PROVE  AddEntry(h, parent, ino, name)
              = [i \in Inums |-> IF i = parent
                                 THEN DirNode(Append(list, [inum |-> ino, name |-> name])) ELSE h[i]]
<1>1. TypeIn(h, parent) # "0" /\ ec_get(h, parent) = Fields(list)
  BY DEF TypeIn, ec_get, DirNode
<1>2. Fields(list) \o <<filename(ino), name>> = Fields(Append(list, [inum |-> ino, name |-> name]))
  BY FieldsAppend
<1> DEFINE more == Fields(Append(list, [inum |-> ino, name |-> name]))
<1>3. AddEntry(h, parent, ino, name) = [h EXCEPT ![parent].data = more]
  BY <1>1, <1>2 DEF AddEntry, ec_put
<1>4. [h EXCEPT ![parent].data = more] = [i \in Inums |-> IF i = parent THEN [h[parent] EXCEPT !.data = more] ELSE h[i]]
  OBVIOUS
<1>5. [h[parent] EXCEPT !.data = more] = [type |-> "T_DIR", data |-> more]
  BY DEF DirNode
<1> QED
  BY <1>3, <1>4, <1>5 DEF DirNode

\* create, mkdir and create_symbolic_link all add one entry.
LEMMA CreateEffect ==
    ASSUME NEW f, Table(f), NEW parent \in DirsIn(f), NEW name \in Names, NEW ino \in Creatable(f)
    PROVE  /\ Added(f, create(f, parent, name, ino), parent, ino, name, [type |-> "T_FILE", data |-> << >>])
           /\ Added(f, mkdir(f, parent, name, ino), parent, ino, name, DirNode(<< >>))
           /\ \A b \in Bytes :
                 Added(f, create_symbolic_link(f, parent, <<b>>, name, ino), parent, ino, name,
                       [type |-> "T_SYMBOLIC", data |-> <<b>>])
<1> DEFINE list == ListOf(f, parent)
<1>1. list \in Seq(EntryRecord) /\ f[parent] = DirNode(list) /\ parent \in Inums
  BY DirHasList DEF DirsIn
<1>2. f = [i \in Inums |-> f[i]]
  BY DEF Table
<1>3. ino = 0 \/ ino \in Absent(f)
  BY DEF Creatable
<1>4. ino \in 0 .. INODE_NUM /\ ino # parent /\ 0 \notin Inums /\ (ino # 0 => ino \in Inums)
  BY <1>1, <1>3, ChfsAssumption DEF Absent, Inums, DirNode
<1> HIDE DEF list
<1>5. ASSUME NEW h, NEW node, h = [i \in Inums |-> IF i = ino THEN node ELSE f[i]]
      PROVE  Added(f, AddEntry(h, parent, ino, name), parent, ino, name, node)
  <2>1. h = [i \in Inums |-> h[i]] /\ h[parent] = DirNode(list) /\ \A i \in Inums : h[i] = IF i = ino THEN node ELSE f[i]
    BY <1>1, <1>4, <1>5
  <2>2. AddEntry(h, parent, ino, name)
           = [i \in Inums |-> IF i = parent
                              THEN DirNode(Append(list, [inum |-> ino, name |-> name])) ELSE h[i]]
    BY <1>1, <1>4, <2>1, AddEntryEffect
  <2> QED
    BY <1>3, <2>1, <2>2 DEF Added, list
<1>6. ASSUME NEW type
      PROVE  ec_create(f, ino, type)
                = [i \in Inums |-> IF i = ino THEN [type |-> type, data |-> << >>] ELSE f[i]]
  BY <1>2, <1>4 DEF ec_create
<1>7. Added(f, create(f, parent, name, ino), parent, ino, name, [type |-> "T_FILE", data |-> << >>])
  BY <1>5, <1>6 DEF create
<1>8. Added(f, mkdir(f, parent, name, ino), parent, ino, name, DirNode(<< >>))
  BY <1>5, <1>6, EmptyDir DEF mkdir, DirNode
<1>9. ASSUME NEW b \in Bytes
      PROVE  Added(f, create_symbolic_link(f, parent, <<b>>, name, ino), parent, ino, name,
                   [type |-> "T_SYMBOLIC", data |-> <<b>>])
  <2> DEFINE c == ec_create(f, ino, "T_SYMBOLIC")
             h == ec_put(c, ino, <<b>>)
  <2>1. c = [i \in Inums |-> IF i = ino THEN [type |-> "T_SYMBOLIC", data |-> << >>] ELSE f[i]]
    BY <1>6
  <2> HIDE DEF c
  <2>2. h = [i \in Inums |-> IF i = ino THEN [type |-> "T_SYMBOLIC", data |-> <<b>>] ELSE f[i]]
    <3>1. CASE ino = 0
      <4>1. TypeIn(c, ino) = "0"
        BY <1>4, <3>1 DEF TypeIn
      <4> QED
        BY <1>4, <2>1, <3>1, <4>1 DEF ec_put
    <3>2. CASE ino # 0
      <4>1. TypeIn(c, ino) = "T_SYMBOLIC" /\ c[ino] = [type |-> "T_SYMBOLIC", data |-> << >>]
        BY <1>4, <2>1, <3>2 DEF TypeIn
      <4>2. h = [c EXCEPT ![ino].data = <<b>>]
        BY <4>1 DEF ec_put
      <4> QED
        BY <1>4, <2>1, <3>2, <4>1, <4>2
    <3> QED
      BY <3>1, <3>2
  <2> HIDE DEF h
  <2>3. create_symbolic_link(f, parent, <<b>>, name, ino) = AddEntry(h, parent, ino, name)
    BY DEF create_symbolic_link, h, c
  <2> QED
    BY <1>5, <2>2, <2>3
<1> QED
  BY <1>7, <1>8, <1>9

\* readdir looks at nothing but the directory's own node.
LEMMA SameList ==
    ASSUME NEW f, NEW g, NEW d \in Inums, g[d] = f[d]
    PROVE  ListOf(g, d) = ListOf(f, d)
BY DEF ListOf, readdir, ec_get, check_dir_inode, TypeIn

\* The new nodes are files of the table, and none is absent.
LEMMA NewNodeOK ==
    ASSUME NEW f, NEW i, f[i] \in NewNodes
    PROVE  FileOK(f, i) /\ f[i].type # "0" /\ (f[i].type = "T_DIR" => f[i] = DirNode(<< >>))
<1>1. CASE f[i] = [type |-> "T_FILE", data |-> << >>]
  <2>1. << >> \in Contents
    BY FuseAssumption DEF Contents, BoundedSeq, SeqOf
  <2> QED
    BY <1>1, <2>1 DEF FileOK
<1>2. CASE f[i] = DirNode(<< >>)
  <2>1. FileOK(f, i)
    BY <1>2, EmptyDir DEF FileOK
  <2> QED
    BY <1>2, <2>1 DEF DirNode
<1>3. ASSUME NEW b \in Bytes, f[i] = [type |-> "T_SYMBOLIC", data |-> <<b>>]
      PROVE  FileOK(f, i) /\ f[i].type # "0" /\ f[i].type # "T_DIR"
  <2>1. <<b>> \in [1 .. 1 -> Bytes \cup {Zero}] /\ 1 \in 0 .. MaxLen
    BY FuseAssumption
  <2>2. <<b>> \in Contents
    BY <2>1 DEF Contents, BoundedSeq, SeqOf
  <2> QED
    BY <1>3, <2>2 DEF FileOK
<1> QED
  BY <1>1, <1>2, <1>3 DEF NewNodes

\* What adding an entry does to the live files, the directories and their lists.
LEMMA AddLists ==
    ASSUME NEW f, NEW g, Table(f), NEW parent \in DirsIn(f), NEW ino, NEW name \in Names,
           NEW node \in NewNodes, Added(f, g, parent, ino, name, node)
    PROVE  /\ Table(g)
           /\ LiveIn(g) = LiveIn(f) \cup ({ino} \ {0}) /\ ino \notin LiveIn(f)
           /\ DirsIn(f) \subseteq DirsIn(g)
           /\ \A d \in DirsIn(g) \ DirsIn(f) : ListOf(g, d) = << >>
           /\ \A d \in DirsIn(f) \ {parent} : ListOf(g, d) = ListOf(f, d)
           /\ ListOf(g, parent) = Append(ListOf(f, parent), [inum |-> ino, name |-> name])
<1> DEFINE list == ListOf(f, parent)
           more == Append(list, [inum |-> ino, name |-> name])
<1>1. list \in Seq(EntryRecord) /\ f[parent] = DirNode(list) /\ parent \in Inums /\ parent \in LiveIn(f)
  BY DirHasList DEF DirsIn
<1>2. ino \in 0 .. INODE_NUM /\ ino # parent /\ 0 \notin Inums /\ (ino # 0 => ino \in Absent(f) /\ ino \in Inums)
  BY <1>1, ChfsAssumption DEF Added, Absent, Inums, LiveIn
<1>3. more \in Seq(EntryRecord)
  BY <1>1, <1>2, FieldsAppend
<1>4. g = [i \in Inums |-> IF i = parent THEN DirNode(more) ELSE IF i = ino THEN node ELSE f[i]]
  BY DEF Added
<1> HIDE DEF more, list
<1>5. /\ g = [i \in Inums |-> g[i]]
      /\ g[parent] = DirNode(more)
      /\ ino # 0 => g[ino] = node
      /\ \A i \in Inums \ {parent, ino} : g[i] = f[i]
  BY <1>1, <1>2, <1>4
<1>6. g[parent].type = "T_DIR" /\ f[parent].type = "T_DIR"
  BY <1>1, <1>5 DEF DirNode
<1>7. ino # 0 => FileOK(g, ino) /\ g[ino].type # "0" /\ (g[ino].type = "T_DIR" => g[ino] = DirNode(<< >>))
  BY <1>5, NewNodeOK
<1>8. ino # 0 => f[ino].type = "0"
  BY <1>2 DEF Absent
<1>9. Table(g)
  <2>1. FileOK(g, parent)
    BY <1>3, <1>5 DEF FileOK
  <2>2. \A i \in Inums \ {parent, ino} : FileOK(g, i)
    BY <1>5 DEF Table, FileOK
  <2>3. 1 \in Inums /\ f[1].type = "T_DIR"
    BY ChfsAssumption DEF Table, Inums
  <2>4. g[1].type = "T_DIR"
    BY <1>2, <1>5, <1>6, <1>8, <2>3
  <2> QED
    BY <1>2, <1>5, <1>7, <2>1, <2>2, <2>4 DEF Table
<1>10. LiveIn(g) = LiveIn(f) \cup ({ino} \ {0}) /\ ino \notin LiveIn(f)
  BY <1>2, <1>5, <1>6, <1>7, <1>8 DEF LiveIn, Absent
<1>11. DirsIn(f) \subseteq DirsIn(g) /\ \A d \in DirsIn(g) \ DirsIn(f) : d = ino /\ d # 0
  BY <1>2, <1>5, <1>6, <1>8 DEF DirsIn
<1>12. \A d \in DirsIn(g) \ DirsIn(f) : ListOf(g, d) = << >>
  <2>1. ASSUME NEW d \in DirsIn(g) \ DirsIn(f) PROVE ListOf(g, d) = << >>
    <3>1. d \in Inums /\ g[d] = DirNode(<< >>)
      BY <1>7, <1>11 DEF DirsIn
    <3> QED
      BY <3>1, FieldsRead, EmptyDir
  <2> QED
    BY <2>1
<1>13. \A d \in DirsIn(f) \ {parent} : ListOf(g, d) = ListOf(f, d)
  <2>1. ASSUME NEW d \in DirsIn(f) \ {parent} PROVE ListOf(g, d) = ListOf(f, d)
    <3>1. d \in Inums /\ g[d] = f[d]
      BY <1>2, <1>5, <1>8 DEF DirsIn
    <3> QED
      BY <3>1, SameList
  <2> QED
    BY <2>1
<1>14. ListOf(g, parent) = more
  BY <1>1, <1>3, <1>5, FieldsRead
<1> QED
  BY <1>9, <1>10, <1>11, <1>12, <1>13, <1>14 DEF more, list

\* Adding an entry changes the type of no other inode.
LEMMA AddTypes ==
    ASSUME NEW f, NEW g, NEW parent \in DirsIn(f), NEW ino, NEW name, NEW node,
           Added(f, g, parent, ino, name, node)
    PROVE  \A i \in Inums \ {ino} : g[i].type = f[i].type
<1> DEFINE more == Append(ListOf(f, parent), [inum |-> ino, name |-> name])
<1>1. f[parent].type = "T_DIR"
  BY DEF DirsIn
<1>2. DirNode(more).type = "T_DIR"
  BY DEF DirNode
<1>3. g = [i \in Inums |-> IF i = parent THEN DirNode(more) ELSE IF i = ino THEN node ELSE f[i]]
  BY DEF Added
<1> HIDE DEF more
<1> QED
  BY <1>1, <1>2, <1>3

\* Adding an entry of a new name keeps the tree.
LEMMA AddKeepsTree ==
    ASSUME NEW f, NEW g, Tree(f), NEW parent \in DirsIn(f), NEW ino, NEW name \in Names,
           NEW node \in NewNodes, Added(f, g, parent, ino, name, node),
           \A k \in DOMAIN ListOf(f, parent) : ListOf(f, parent)[k].name # name
    PROVE  Tree(g) /\ Kept(f, g)
<1> DEFINE list == ListOf(f, parent)
           entry == [inum |-> ino, name |-> name]
           n == Len(list)
           L(d) == ListOf(f, d)
           M(d) == ListOf(g, d)
<1>1. Table(f) /\ LinkedIn(f) /\ UniqueIn(f) /\ ReachIn(f)
  BY DEF Tree
<1>2. /\ Table(g)
      /\ LiveIn(g) = LiveIn(f) \cup ({ino} \ {0}) /\ ino \notin LiveIn(f)
      /\ DirsIn(f) \subseteq DirsIn(g)
      /\ \A d \in DirsIn(g) \ DirsIn(f) : M(d) = << >>
      /\ \A d \in DirsIn(f) \ {parent} : M(d) = L(d)
      /\ M(parent) = Append(list, entry)
  BY <1>1, AddLists
<1>3. list \in Seq(EntryRecord) /\ n \in Nat /\ DOMAIN list = 1 .. n
  BY <1>1, DirHasList
<1>4. /\ DOMAIN M(parent) = 1 .. n + 1
      /\ M(parent)[n + 1] = entry /\ n + 1 \notin 1 .. n
      /\ \A k \in 1 .. n : M(parent)[k] = L(parent)[k]
  <2>1. n + 1 \notin 1 .. n
    BY <1>3
  <2> QED
    BY <1>2, <1>3, <2>1
<1>5. entry.inum = ino /\ entry.name = name
  OBVIOUS
<1>6. 1 \in LiveIn(f) /\ parent \in LiveIn(f) /\ ino # 1
  <2>1. 1 \in DirsIn(f)
    BY <1>1, ChfsAssumption DEF Table, DirsIn, Inums
  <2> QED
    BY <1>1, <1>2, <2>1, DirHasList
<1> HIDE DEF list, entry, L, M, n
\* An entry of g is one of f, or the new one.
<1>7. ASSUME NEW d \in DirsIn(g), NEW k \in DOMAIN M(d)
      PROVE  \/ d \in DirsIn(f) /\ k \in DOMAIN L(d) /\ M(d)[k] = L(d)[k]
             \/ d = parent /\ k = n + 1 /\ M(d)[k] = entry
  <2>1. CASE d \notin DirsIn(f)
    BY <1>2, <2>1
  <2>2. CASE d \in DirsIn(f) \ {parent}
    BY <1>2, <2>2
  <2>3. CASE d = parent
    BY <1>3, <1>4, <2>3 DEF L, list
  <2> QED
    BY <2>1, <2>2, <2>3
<1>8. ASSUME NEW d \in DirsIn(f), NEW k \in DOMAIN L(d)
      PROVE  d \in DirsIn(g) /\ k \in DOMAIN M(d) /\ M(d)[k] = L(d)[k]
  <2>1. CASE d # parent
    BY <1>2, <2>1
  <2>2. CASE d = parent
    <3>1. k \in 1 .. n
      BY <1>3, <2>2 DEF L, list
    <3> QED
      BY <1>2, <1>3, <1>4, <2>2, <3>1
  <2> QED
    BY <2>1, <2>2
<1>9. parent \in DirsIn(g) /\ n + 1 \in DOMAIN M(parent) /\ M(parent)[n + 1] = entry
  BY <1>2, <1>3, <1>4
<1>10. \A k \in DOMAIN L(parent) : k # n + 1 /\ L(parent)[k].name # name
  BY <1>3, <1>4 DEF L, list
<1>11. /\ \A d \in DirsIn(f) : \A k \in DOMAIN L(d) : L(d)[k].inum # 0 => L(d)[k].inum \in LiveIn(f) \ {1}
       /\ \A i \in LiveIn(f) \ {1} : \E d \in DirsIn(f) : \E k \in DOMAIN L(d) : L(d)[k].inum = i
       /\ \A d, e \in DirsIn(f) : \A k \in DOMAIN L(d), m \in DOMAIN L(e) :
             L(d)[k].inum # 0 /\ L(d)[k].inum = L(e)[m].inum => d = e /\ k = m
  BY <1>1 DEF LinkedIn, L
<1>12. \A d \in DirsIn(f) : \A j, k \in DOMAIN L(d) : L(d)[j].name = L(d)[k].name => j = k
  BY <1>1 DEF UniqueIn, L
<1>13. LinkedIn(g)
  <2>1. ASSUME NEW d \in DirsIn(g), NEW k \in DOMAIN M(d), M(d)[k].inum # 0
        PROVE  M(d)[k].inum \in LiveIn(g) \ {1}
    BY <1>2, <1>5, <1>6, <1>7, <1>11, <2>1
  <2>2. ASSUME NEW i \in LiveIn(g) \ {1}
        PROVE  \E d \in DirsIn(g) : \E k \in DOMAIN M(d) : M(d)[k].inum = i
    <3>1. CASE i = ino
      BY <1>5, <1>9, <3>1
    <3>2. CASE i \in LiveIn(f)
      <4>1. PICK d \in DirsIn(f) : \E k \in DOMAIN L(d) : L(d)[k].inum = i
        BY <1>11, <3>2
      <4> QED
        BY <1>8, <4>1
    <3> QED
      BY <1>2, <3>1, <3>2
  <2>3. ASSUME NEW d \in DirsIn(g), NEW e \in DirsIn(g), NEW k \in DOMAIN M(d), NEW m \in DOMAIN M(e),
               M(d)[k].inum # 0, M(d)[k].inum = M(e)[m].inum
        PROVE  d = e /\ k = m
    <3>1. \A c \in DirsIn(f) : \A j \in DOMAIN L(c) : L(c)[j].inum # 0 => L(c)[j].inum # ino
      BY <1>2, <1>11
    <3> QED
      BY <1>5, <1>7, <1>11, <2>3, <3>1
  <2> QED
    BY <2>1, <2>2, <2>3 DEF LinkedIn, M
<1>14. UniqueIn(g)
  <2>1. ASSUME NEW d \in DirsIn(g), NEW j \in DOMAIN M(d), NEW k \in DOMAIN M(d),
               M(d)[j].name = M(d)[k].name
        PROVE  j = k
    BY <1>5, <1>7, <1>10, <1>12, <2>1
  <2> QED
    BY <2>1 DEF UniqueIn, M
<1>15. ReachIn(g)
  <2>1. SUFFICES ASSUME NEW S \in SUBSET LiveIn(g), 1 \in S, Closed(g, S)
                 PROVE  S = LiveIn(g)
    BY DEF ReachIn
  <2> DEFINE T == S \cap LiveIn(f)
  <2>2. \A d \in S \cap DirsIn(g) : \A k \in DOMAIN M(d) : M(d)[k].inum \in LiveIn(g) => M(d)[k].inum \in S
    BY <2>1 DEF Closed, M
  <2>3. ASSUME NEW d \in T \cap DirsIn(f), NEW k \in DOMAIN L(d), L(d)[k].inum \in LiveIn(f)
        PROVE  L(d)[k].inum \in T
    <3>1. d \in DirsIn(g) /\ k \in DOMAIN M(d) /\ M(d)[k] = L(d)[k]
      BY <1>8
    <3> QED
      BY <1>2, <2>2, <2>3, <3>1
  <2>4. Closed(f, T)
    BY <2>3 DEF Closed, L
  <2>5. T = LiveIn(f)
    <3>1. T \in SUBSET LiveIn(f) /\ 1 \in T
      BY <1>6, <2>1
    <3> QED
      BY <1>1, <2>4, <3>1 DEF ReachIn
  <2>6. parent \in S
    BY <1>6, <2>5
  <2>7. ino # 0 => ino \in S
    BY <1>2, <1>5, <1>9, <2>2, <2>6
  <2> QED
    BY <1>2, <2>1, <2>5, <2>7
<1>16. Kept(f, g)
  BY <1>8 DEF Kept, L, M
<1> QED
  BY <1>2, <1>13, <1>14, <1>15, <1>16 DEF Tree

-----------------------------------------------------------------------------
(* An entry removed. *)

\* g is f without the file ino and without the entries of this name in the parent.
Unlinked(f, g, parent, ino, name) ==
    g = [i \in Inums |-> IF i = parent THEN DirNode(Without(ListOf(f, parent), name))
                         ELSE IF i = ino THEN NoFile ELSE f[i]]

\* unlink, when its checks pass, removes the file that lookup finds.
LEMMA UnlinkEffect ==
    ASSUME NEW f, Table(f), NEW parent \in DirsIn(f), NEW name \in Names,
           UnlinkCheck(f, parent, name) = "OK"
    PROVE  LET ino == lookup(f, parent, name).ino
           IN  /\ Unlinked(f, unlink(f, parent, name), parent, ino, name)
               /\ ino \in Inums /\ f[ino].type = "T_FILE"
               /\ \E k \in DOMAIN ListOf(f, parent) :
                     ListOf(f, parent)[k].name = name /\ ListOf(f, parent)[k].inum = ino
<1> DEFINE list == ListOf(f, parent)
           L == lookup(f, parent, name)
           ino == L.ino
<1>1. list \in Seq(EntryRecord) /\ f[parent] = DirNode(list) /\ parent \in Inums
  BY DirHasList DEF DirsIn
<1>2. f = [i \in Inums |-> f[i]]
  BY DEF Table
<1>3. L.found /\ isfile(f, ino)
  BY DEF UnlinkCheck
<1>4. ino \in Inums /\ f[ino].type = "T_FILE"
  BY <1>3 DEF isfile, TypeIn
<1> HIDE DEF L, list
<1>5. \E k \in DOMAIN list : list[k].name = name /\ list[k].inum = ino
  BY <1>1, <1>3, LookupFacts DEF L
<1>6. ino # parent
  BY <1>1, <1>4 DEF DirNode
<1> DEFINE h == ec_remove(f, ino)
           rest == Without(list, name)
<1>7. h = [i \in Inums |-> IF i = ino THEN NoFile ELSE f[i]]
  BY <1>2, <1>4 DEF ec_remove
<1> HIDE DEF h
<1>8. h[parent] = DirNode(list) /\ h = [i \in Inums |-> h[i]] /\ \A i \in Inums : h[i] = IF i = ino THEN NoFile ELSE f[i]
  BY <1>1, <1>6, <1>7
<1>9. readdir(h, parent).list = list
  BY <1>1, <1>8, FieldsRead DEF ListOf
<1>10. TypeIn(h, parent) # "0"
  BY <1>1, <1>8 DEF TypeIn, DirNode
<1>11. unlink(f, parent, name) = [h EXCEPT ![parent].data = Fields(rest)]
  BY <1>9, <1>10 DEF unlink, ec_put, h, L
<1> HIDE DEF rest
<1>12. [h[parent] EXCEPT !.data = Fields(rest)] = DirNode(rest)
  BY <1>8 DEF DirNode
<1>13. [h EXCEPT ![parent].data = Fields(rest)]
          = [i \in Inums |-> IF i = parent THEN [h[parent] EXCEPT !.data = Fields(rest)] ELSE h[i]]
  BY <1>8
<1>14. unlink(f, parent, name)
          = [i \in Inums |-> IF i = parent THEN DirNode(rest) ELSE IF i = ino THEN NoFile ELSE f[i]]
  BY <1>8, <1>11, <1>12, <1>13
<1> QED
  BY <1>4, <1>5, <1>14 DEF Unlinked, L, list, rest

\* What an unlink does to the live files, the directories and their lists.
LEMMA UnlinkLists ==
    ASSUME NEW f, NEW g, Table(f), NEW parent \in DirsIn(f), NEW ino \in Inums, NEW name \in Names,
           f[ino].type = "T_FILE", Unlinked(f, g, parent, ino, name)
    PROVE  /\ Table(g)
           /\ LiveIn(g) = LiveIn(f) \ {ino} /\ ino \in LiveIn(f)
           /\ g[ino].type = "0" /\ \A i \in Inums \ {ino} : g[i].type = f[i].type
           /\ DirsIn(g) = DirsIn(f) /\ ino \notin DirsIn(f)
           /\ \A d \in DirsIn(f) \ {parent} : ListOf(g, d) = ListOf(f, d)
           /\ ListOf(g, parent) = Without(ListOf(f, parent), name)
<1> DEFINE list == ListOf(f, parent)
           rest == Without(list, name)
<1>1. list \in Seq(EntryRecord) /\ f[parent] = DirNode(list) /\ parent \in Inums
  BY DirHasList DEF DirsIn
<1>2. rest \in Seq(EntryRecord)
  BY <1>1, WithoutFacts
<1>3. ino # parent
  BY <1>1 DEF DirNode
<1>4. g = [i \in Inums |-> IF i = parent THEN DirNode(rest) ELSE IF i = ino THEN NoFile ELSE f[i]]
  BY DEF Unlinked
<1> HIDE DEF rest, list
<1>5. /\ g = [i \in Inums |-> g[i]]
      /\ g[parent] = DirNode(rest) /\ g[ino] = NoFile
      /\ \A i \in Inums \ {parent, ino} : g[i] = f[i]
  BY <1>1, <1>3, <1>4
<1>6. g[parent].type = "T_DIR" /\ f[parent].type = "T_DIR" /\ g[ino].type = "0"
  BY <1>1, <1>5 DEF DirNode, NoFile
<1>7. Table(g)
  <2>1. FileOK(g, parent) /\ FileOK(g, ino)
    BY <1>2, <1>5 DEF FileOK
  <2>2. \A i \in Inums \ {parent, ino} : FileOK(g, i)
    BY <1>5 DEF Table, FileOK
  <2>3. 1 \in Inums /\ f[1].type = "T_DIR"
    BY ChfsAssumption DEF Table, Inums
  <2>4. g[1].type = "T_DIR"
    BY <1>5, <1>6, <2>3
  <2> QED
    BY <1>5, <2>1, <2>2, <2>4 DEF Table
<1>8. LiveIn(g) = LiveIn(f) \ {ino} /\ ino \in LiveIn(f)
  BY <1>1, <1>5, <1>6 DEF LiveIn, Absent
<1>9. DirsIn(g) = DirsIn(f) /\ ino \notin DirsIn(f)
  BY <1>1, <1>5, <1>6 DEF DirsIn
<1>10. \A d \in DirsIn(f) \ {parent} : ListOf(g, d) = ListOf(f, d)
  <2>1. ASSUME NEW d \in DirsIn(f) \ {parent} PROVE ListOf(g, d) = ListOf(f, d)
    <3>1. d \in Inums /\ g[d] = f[d]
      BY <1>5, <1>9 DEF DirsIn
    <3> QED
      BY <3>1, SameList
  <2> QED
    BY <2>1
<1>11. ListOf(g, parent) = rest
  BY <1>1, <1>2, <1>5, FieldsRead
<1> QED
  BY <1>5, <1>6, <1>7, <1>8, <1>9, <1>10, <1>11 DEF rest, list

\* An unlink that finds its file keeps the tree.
LEMMA UnlinkKeepsTree ==
    ASSUME NEW f, NEW g, Tree(f), NEW parent \in DirsIn(f), NEW ino \in Inums, NEW name \in Names,
           f[ino].type = "T_FILE", Unlinked(f, g, parent, ino, name),
           \E k \in DOMAIN ListOf(f, parent) :
              ListOf(f, parent)[k].name = name /\ ListOf(f, parent)[k].inum = ino
    PROVE  /\ Tree(g)
           /\ \A k \in DOMAIN ListOf(f, parent) :
                 ListOf(f, parent)[k].name = name => ListOf(f, parent)[k].inum = ino
           /\ \A d \in DirsIn(f) : \A k \in DOMAIN ListOf(f, d) :
                 (d = parent => ListOf(f, d)[k].name # name) =>
                    \E n \in DOMAIN ListOf(g, d) : ListOf(g, d)[n] = ListOf(f, d)[k]
<1> DEFINE L(d) == ListOf(f, d)
           M(d) == ListOf(g, d)
<1>1. Table(f) /\ LinkedIn(f) /\ UniqueIn(f) /\ ReachIn(f)
  BY DEF Tree
<1>2. /\ Table(g)
      /\ LiveIn(g) = LiveIn(f) \ {ino} /\ ino \in LiveIn(f)
      /\ g[ino].type = "0" /\ \A i \in Inums \ {ino} : g[i].type = f[i].type
      /\ DirsIn(g) = DirsIn(f) /\ ino \notin DirsIn(f)
      /\ \A d \in DirsIn(f) \ {parent} : M(d) = L(d)
      /\ M(parent) = Without(L(parent), name)
  BY <1>1, UnlinkLists
<1>3. L(parent) \in Seq(EntryRecord)
  BY <1>1, DirHasList
<1>4. 1 \in LiveIn(f) /\ 1 # ino
  <2>1. 1 \in DirsIn(f)
    BY <1>1, ChfsAssumption DEF Table, DirsIn, Inums
  <2> QED
    BY <1>1, <1>2, <2>1, DirHasList
<1>5. PICK hit \in DOMAIN L(parent) : L(parent)[hit].name = name /\ L(parent)[hit].inum = ino
  OBVIOUS
<1> HIDE DEF L, M
<1>6. PICK from \in [DOMAIN M(parent) -> DOMAIN L(parent)] :
         /\ \A m, n \in DOMAIN M(parent) : from[m] = from[n] => m = n
         /\ \A n \in DOMAIN M(parent) : M(parent)[n] = L(parent)[from[n]] /\ M(parent)[n].name # name
         /\ \A k \in DOMAIN L(parent) :
               L(parent)[k].name # name => \E n \in DOMAIN M(parent) : from[n] = k
  BY <1>2, <1>3, WithoutFacts
<1>7. /\ \A d \in DirsIn(f) : \A k \in DOMAIN L(d) : L(d)[k].inum # 0 => L(d)[k].inum \in LiveIn(f) \ {1}
      /\ \A i \in LiveIn(f) \ {1} : \E d \in DirsIn(f) : \E k \in DOMAIN L(d) : L(d)[k].inum = i
      /\ \A d, e \in DirsIn(f) : \A k \in DOMAIN L(d), m \in DOMAIN L(e) :
            L(d)[k].inum # 0 /\ L(d)[k].inum = L(e)[m].inum => d = e /\ k = m
  BY <1>1 DEF LinkedIn, L
<1>8. \A d \in DirsIn(f) : \A j, k \in DOMAIN L(d) : L(d)[j].name = L(d)[k].name => j = k
  BY <1>1 DEF UniqueIn, L
<1>9. ino # 0
  BY ChfsAssumption DEF Inums
\* The place in f of each entry of g.
<1> DEFINE at(d, k) == IF d = parent THEN from[k] ELSE k
<1>10. \A d \in DirsIn(f) : \A k \in DOMAIN M(d) :
          at(d, k) \in DOMAIN L(d) /\ M(d)[k] = L(d)[at(d, k)] /\ (d = parent => M(d)[k].name # name)
  BY <1>2, <1>6
<1>11. \A d \in DirsIn(f) : \A j, k \in DOMAIN M(d) : at(d, j) = at(d, k) => j = k
  BY <1>6
<1>12. \A d \in DirsIn(f) : \A k \in DOMAIN L(d) :
          (d = parent => L(d)[k].name # name) => \E n \in DOMAIN M(d) : M(d)[n] = L(d)[k]
  BY <1>2, <1>6
<1> HIDE DEF at
\* Only the entry that lookup finds leads to ino.
<1>13. \A d \in DirsIn(f) : \A k \in DOMAIN L(d) : L(d)[k].inum = ino => d = parent /\ k = hit
  BY <1>5, <1>7, <1>9
<1>14. \A k \in DOMAIN L(parent) : L(parent)[k].name = name => L(parent)[k].inum = ino
  BY <1>5, <1>8
<1>15. LinkedIn(g)
  <2>1. ASSUME NEW d \in DirsIn(f), NEW k \in DOMAIN M(d), M(d)[k].inum # 0
        PROVE  M(d)[k].inum \in LiveIn(g) \ {1}
    <3>1. M(d)[k].inum # ino
      BY <1>5, <1>10, <1>13
    <3> QED
      BY <1>2, <1>7, <1>10, <2>1, <3>1
  <2>2. ASSUME NEW i \in LiveIn(g) \ {1}
        PROVE  \E d \in DirsIn(f) : \E k \in DOMAIN M(d) : M(d)[k].inum = i
    <3>1. PICK d \in DirsIn(f) : \E k \in DOMAIN L(d) : L(d)[k].inum = i
      BY <1>2, <1>7
    <3>2. PICK k \in DOMAIN L(d) : L(d)[k].inum = i
      BY <3>1
    <3>3. d = parent => L(d)[k].name # name
      BY <1>2, <1>14, <3>2
    <3> QED
      BY <1>12, <3>2, <3>3
  <2>3. ASSUME NEW d \in DirsIn(f), NEW e \in DirsIn(f), NEW k \in DOMAIN M(d), NEW m \in DOMAIN M(e),
               M(d)[k].inum # 0, M(d)[k].inum = M(e)[m].inum
        PROVE  d = e /\ k = m
    <3>1. d = e /\ at(d, k) = at(e, m)
      BY <1>7, <1>10, <2>3
    <3> QED
      BY <1>11, <3>1
  <2> QED
    BY <1>2, <2>1, <2>2, <2>3 DEF LinkedIn, M
<1>16. UniqueIn(g)
  <2>1. ASSUME NEW d \in DirsIn(f), NEW j \in DOMAIN M(d), NEW k \in DOMAIN M(d),
               M(d)[j].name = M(d)[k].name
        PROVE  j = k
    BY <1>8, <1>10, <1>11, <2>1
  <2> QED
    BY <1>2, <2>1 DEF UniqueIn, M
<1>17. ReachIn(g)
  <2>1. SUFFICES ASSUME NEW S \in SUBSET LiveIn(g), 1 \in S, Closed(g, S)
                 PROVE  S = LiveIn(g)
    BY DEF ReachIn
  <2> DEFINE T == S \cup {ino}
  <2>2. \A d \in S \cap DirsIn(f) : \A k \in DOMAIN M(d) : M(d)[k].inum \in LiveIn(g) => M(d)[k].inum \in S
    BY <1>2, <2>1 DEF Closed, M
  <2>3. ASSUME NEW d \in T \cap DirsIn(f), NEW k \in DOMAIN L(d), L(d)[k].inum \in LiveIn(f)
        PROVE  L(d)[k].inum \in T
    <3>1. CASE d = parent /\ L(d)[k].name = name
      BY <1>14, <3>1
    <3>2. CASE ~ (d = parent /\ L(d)[k].name = name)
      <4>1. PICK n \in DOMAIN M(d) : M(d)[n] = L(d)[k]
        BY <1>12, <3>2
      <4>2. d \in S
        BY <1>2
      <4> QED
        BY <1>2, <2>2, <2>3, <4>1, <4>2
    <3> QED
      BY <3>1, <3>2
  <2>4. Closed(f, T)
    BY <2>3 DEF Closed, L
  <2>5. T = LiveIn(f)
    <3>1. T \in SUBSET LiveIn(f) /\ 1 \in T
      BY <1>2, <2>1
    <3> QED
      BY <1>1, <2>4, <3>1 DEF ReachIn
  <2> QED
    BY <1>2, <2>1, <2>5
<1> QED
  BY <1>2, <1>12, <1>14, <1>15, <1>16, <1>17 DEF Tree, L, M

-----------------------------------------------------------------------------
(* The content of files. *)

FileBytes == Bytes \cup {Zero}

\* What write puts.
Overwritten(old, off, data) ==
    LET buf == IF off > Len(old) THEN Resize(old, off) ELSE old
    IN  SubSeq(buf, 1, off) \o data \o SubSeq(buf, off + Len(data) + 1, Len(buf))

\* The contents are the sequences of bytes of bounded length.
LEMMA ContentsAre ==
    ASSUME NEW c
    PROVE  c \in Contents <=> c \in Seq(FileBytes) /\ Len(c) <= MaxLen
<1>1. MaxLen \in Nat
  BY FuseAssumption
<1>2. ASSUME c \in Contents PROVE c \in Seq(FileBytes) /\ Len(c) <= MaxLen
  <2>1. PICK m \in 0 .. MaxLen : c \in [1 .. m -> FileBytes]
    BY <1>2 DEF Contents, BoundedSeq, SeqOf, FileBytes
  <2> QED
    BY <1>1, <2>1
<1>3. ASSUME c \in Seq(FileBytes), Len(c) <= MaxLen PROVE c \in Contents
  <2>1. Len(c) \in 0 .. MaxLen /\ c \in [1 .. Len(c) -> FileBytes]
    BY <1>1, <1>3
  <2> QED
    BY <2>1 DEF Contents, BoundedSeq, SeqOf, FileBytes
<1> QED
  BY <1>2, <1>3

\* Resizing keeps the bytes there are and pads with zeros.
LEMMA ResizeFacts ==
    ASSUME NEW buf \in Seq(FileBytes), NEW size \in Nat
    PROVE  /\ Resize(buf, size) \in Seq(FileBytes) /\ Len(Resize(buf, size)) = size
           /\ \A k \in 1 .. size : Resize(buf, size)[k] = IF k <= Len(buf) THEN buf[k] ELSE Zero
<1>1. \A k \in 1 .. size : (IF k <= Len(buf) THEN buf[k] ELSE Zero) \in FileBytes
  BY DEF FileBytes
<1> QED
  BY <1>1 DEF Resize

\* The string surgery of write is an overlay.
LEMMA OverlayFacts ==
    ASSUME NEW old \in Seq(FileBytes), NEW data \in Seq(FileBytes), NEW off \in Nat
    PROVE  LET new == Overwritten(old, off, data)
           IN  /\ new \in Seq(FileBytes)
               /\ Len(new) = IF off + Len(data) > Len(old) THEN off + Len(data) ELSE Len(old)
               /\ \A k \in 1 .. Len(new) :
                     new[k] = IF k > off /\ k <= off + Len(data) THEN data[k - off]
                              ELSE IF k <= Len(old) THEN old[k] ELSE Zero
<1> DEFINE buf == IF off > Len(old) THEN Resize(old, off) ELSE old
           n == Len(data)
           head == SubSeq(buf, 1, off)
           tail == SubSeq(buf, off + n + 1, Len(buf))
           new == Overwritten(old, off, data)
<1>1. Len(old) \in Nat /\ n \in Nat
  OBVIOUS
<1>2. /\ buf \in Seq(FileBytes) /\ Len(buf) = (IF off > Len(old) THEN off ELSE Len(old))
      /\ \A k \in 1 .. Len(buf) : buf[k] = IF k <= Len(old) THEN old[k] ELSE Zero
  <2>1. CASE off > Len(old)
    BY <1>1, <2>1, ResizeFacts
  <2>2. CASE ~ (off > Len(old))
    BY <1>1, <2>2
  <2> QED
    BY <2>1, <2>2
<1>3. new = head \o data \o tail
  BY DEF Overwritten
<1> HIDE DEF buf
<1>4. Len(buf) \in Nat /\ off <= Len(buf) /\ \A k \in 1 .. Len(buf) : buf[k] \in FileBytes
  BY <1>1, <1>2
<1>5. head \in Seq(FileBytes) /\ Len(head) = off /\ \A k \in 1 .. off : head[k] = buf[k]
  <2>1. \A k \in 1 .. off : buf[k] \in FileBytes
    BY <1>4
  <2>2. /\ head \in Seq(FileBytes)
        /\ Len(head) = IF 1 <= off THEN off - 1 + 1 ELSE 0
        /\ \A k \in 1 .. off - 1 + 1 : head[k] = buf[1 + k - 1]
    BY <2>1, SubSeqProperties
  <2> HIDE DEF head
  <2> QED
    BY <2>2
<1> DEFINE end == off + n
           b == Len(buf)
<1>6. end \in Nat /\ b \in Nat /\ off <= end /\ tail = SubSeq(buf, end + 1, b)
  BY <1>1, <1>4
<1> HIDE DEF end, b, tail
<1>7. /\ tail \in Seq(FileBytes)
      /\ Len(tail) = IF end < b THEN b - end ELSE 0
      /\ \A k \in end + 1 .. b : tail[k - end] = buf[k]
  <2>1. \A k \in end + 1 .. b : buf[k] \in FileBytes
    BY <1>4, <1>6 DEF b
  <2>2. /\ tail \in Seq(FileBytes)
        /\ Len(tail) = IF end + 1 <= b THEN b - (end + 1) + 1 ELSE 0
        /\ \A k \in 1 .. b - (end + 1) + 1 : tail[k] = buf[end + 1 + k - 1]
    BY <1>6, <2>1, SubSeqProperties
  <2>3. ASSUME NEW k \in end + 1 .. b PROVE tail[k - end] = buf[k]
    <3>1. k - end \in 1 .. b - (end + 1) + 1 /\ end + 1 + (k - end) - 1 = k
      BY <1>6
    <3> QED
      BY <2>2, <3>1
  <2> QED
    BY <1>6, <2>2, <2>3
<1> HIDE DEF head, new
<1> DEFINE front == head \o data
<1>8. front \in Seq(FileBytes) /\ Len(front) = end
      /\ \A k \in 1 .. end : front[k] = IF k <= off THEN head[k] ELSE data[k - off]
  BY <1>5, ConcatProperties DEF end
<1>9. new = front \o tail
  BY <1>3
<1> HIDE DEF front
<1>10. new \in Seq(FileBytes) /\ Len(new) = end + Len(tail)
       /\ \A k \in 1 .. end + Len(tail) : new[k] = IF k <= end THEN front[k] ELSE tail[k - end]
  <2>1. front \o tail \in Seq(FileBytes) /\ Len(front \o tail) = Len(front) + Len(tail)
        /\ \A k \in 1 .. Len(front) + Len(tail) :
              (front \o tail)[k] = IF k <= Len(front) THEN front[k] ELSE tail[k - Len(front)]
    BY <1>7, <1>8, ConcatProperties
  <2> QED
    BY <1>8, <1>9, <2>1
<1>11. b = (IF off > Len(old) THEN off ELSE Len(old)) /\ off <= b
       /\ \A k \in 1 .. b : buf[k] = IF k <= Len(old) THEN old[k] ELSE Zero
  BY <1>2, <1>4 DEF b
<1>12. Len(new) = IF end > Len(old) THEN end ELSE Len(old)
  BY <1>1, <1>6, <1>7, <1>10, <1>11
<1>13. ASSUME NEW k \in 1 .. Len(new)
       PROVE  new[k] = IF k > off /\ k <= end THEN data[k - off]
                       ELSE IF k <= Len(old) THEN old[k] ELSE Zero
  <2>1. k \in 1 .. end + Len(tail) /\ Len(tail) \in Nat
    BY <1>6, <1>7, <1>10
  <2>2. new[k] = IF k <= end THEN front[k] ELSE tail[k - end]
    BY <1>10, <2>1
  <2>3. CASE k <= off
    <3>1. k \in 1 .. off /\ k \in 1 .. end /\ k \in 1 .. b /\ ~ (k > off)
      BY <1>6, <1>11, <2>1, <2>3
    <3>2. new[k] = buf[k]
      BY <1>5, <1>8, <2>2, <3>1
    <3> QED
      BY <1>11, <3>1, <3>2
  <2>4. CASE k > off /\ k <= end
    BY <1>6, <1>8, <2>1, <2>4, <2>2
  <2>5. CASE k > end
    <3>1. k \in end + 1 .. b
      BY <1>6, <1>7, <2>1, <2>5
    <3>2. k \in 1 .. b /\ ~ (k <= end) /\ ~ (k <= off)
      BY <1>6, <2>5, <3>1
    <3>3. new[k] = tail[k - end]
      BY <2>2, <3>2
    <3>4. tail[k - end] = buf[k]
      BY <1>7, <3>1
    <3>5. buf[k] = IF k <= Len(old) THEN old[k] ELSE Zero
      BY <1>11, <3>2
    <3> QED
      BY <3>2, <3>3, <3>4, <3>5
  <2> QED
    BY <1>6, <2>1, <2>3, <2>4, <2>5
<1> QED
  BY <1>10, <1>12, <1>13 DEF new, end

\* The tree depends only on the types of the files and the lists of the directories.
LEMMA SameTree ==
    ASSUME NEW f, NEW g, Tree(f), Table(g), \A i \in Inums : g[i].type = f[i].type,
           \A d \in DirsIn(f) : ListOf(g, d) = ListOf(f, d)
    PROVE  Tree(g) /\ Kept(f, g)
<1>1. DirsIn(g) = DirsIn(f) /\ LiveIn(g) = LiveIn(f)
  BY DEF DirsIn, LiveIn, Absent
<1>2. LinkedIn(g)
  BY <1>1 DEF Tree, LinkedIn
<1>3. UniqueIn(g)
  BY <1>1 DEF Tree, UniqueIn
<1>4. ReachIn(g)
  <2>1. ASSUME NEW S, Closed(g, S) PROVE Closed(f, S)
    BY <1>1, <2>1 DEF Closed
  <2> QED
    BY <1>1, <2>1 DEF Tree, ReachIn
<1>5. Kept(f, g)
  BY DEF Kept
<1> QED
  BY <1>2, <1>3, <1>4, <1>5 DEF Tree

\* A put to an inum that is a file, or nothing, changes a file's content and
\* nothing else.
LEMMA PutEffect ==
    ASSUME NEW f, Tree(f), NEW ino \in Inums, f[ino].type \in {"T_FILE", "0"}, NEW data \in Contents
    PROVE  LET g == ec_put(f, ino, data)
           IN  /\ Tree(g) /\ Kept(f, g)
               /\ \A i \in Inums : g[i].type = f[i].type
               /\ \A i \in Inums : g[i] # f[i] => f[i].type = "T_FILE"
               /\ f[ino].type = "T_FILE" => g[ino].data = data
               /\ f[ino].type = "0" => g = f
<1> DEFINE g == ec_put(f, ino, data)
<1>1. Table(f) /\ f = [i \in Inums |-> f[i]] /\ \A i \in Inums : FileOK(f, i)
  BY DEF Tree, Table
<1>2. CASE f[ino].type = "0"
  <2>1. g = f
    BY <1>2 DEF ec_put, TypeIn
  <2>2. Tree(g) /\ Kept(f, g)
    BY <1>1, <2>1, SameTree
  <2> QED
    BY <1>2, <2>1, <2>2
<1>3. CASE f[ino].type = "T_FILE"
  <2>1. g = [f EXCEPT ![ino].data = data]
    BY <1>3 DEF ec_put, TypeIn
  <2>2. f[ino] = [type |-> "T_FILE", data |-> f[ino].data]
    <3>1. f[ino] # NoFile
      BY <1>3 DEF NoFile
    <3>2. ASSUME NEW list, f[ino] = DirNode(list) PROVE FALSE
      BY <1>3, <3>2 DEF DirNode
    <3>3. PICK t \in {"T_FILE", "T_SYMBOLIC"}, c \in Contents : f[ino] = [type |-> t, data |-> c]
      BY <1>1, <3>1, <3>2, Zenon DEF FileOK
    <3> QED
      BY <1>3, <3>3
  <2>3. g[ino] = [type |-> "T_FILE", data |-> data] /\ g = [i \in Inums |-> g[i]]
        /\ \A i \in Inums \ {ino} : g[i] = f[i]
    BY <1>1, <2>1, <2>2
  <2> HIDE DEF g
  <2>4. \A i \in Inums : g[i].type = f[i].type
    BY <1>3, <2>3
  <2>5. Table(g)
    <3>1. FileOK(g, ino)
      BY <2>3 DEF FileOK
    <3>2. \A i \in Inums \ {ino} : FileOK(g, i)
      BY <1>1, <2>3 DEF FileOK
    <3>3. g[1].type = "T_DIR"
      BY <1>1, <2>4, ChfsAssumption DEF Table, Inums
    <3> QED
      BY <2>3, <3>1, <3>2, <3>3 DEF Table
  <2>6. ASSUME NEW d \in DirsIn(f) PROVE ListOf(g, d) = ListOf(f, d)
    <3>1. d \in Inums /\ g[d] = f[d]
      BY <1>3, <2>3 DEF DirsIn
    <3> QED
      BY <3>1, SameList
  <2>7. Tree(g) /\ Kept(f, g)
    BY <2>4, <2>5, <2>6, SameTree
  <2>8. \A i \in Inums : g[i] # f[i] => f[i].type = "T_FILE"
    BY <1>3, <2>3
  <2>9. g[ino].data = data
    BY <2>3
  <2> QED
    BY <1>3, <2>4, <2>7, <2>8, <2>9 DEF g
<1> QED
  BY <1>2, <1>3

\* What is read from an inum that is a file, a link or nothing.
LEMMA ContentOf ==
    ASSUME NEW f, Table(f), NEW i \in Inums, f[i].type # "T_DIR"
    PROVE  ec_get(f, i) = f[i].data /\ f[i].data \in Contents
<1>1. FileOK(f, i) /\ \A list : f[i] # DirNode(list)
  BY DEF Table, DirNode
<1>2. CASE f[i] = NoFile
  <2>1. << >> \in Contents
    BY FuseAssumption DEF Contents, BoundedSeq, SeqOf
  <2> QED
    BY <1>2, <2>1 DEF NoFile, ec_get
<1>3. CASE f[i] # NoFile
  <2>1. PICK t \in {"T_FILE", "T_SYMBOLIC"}, c \in Contents : f[i] = [type |-> t, data |-> c]
    BY <1>1, <1>3, Zenon DEF FileOK
  <2> QED
    BY <2>1 DEF ec_get
<1> QED
  BY <1>2, <1>3

\* A write within the bound puts the overlay, and setattr a content no longer than
\* the one it finds.
LEMMA WriteEffect ==
    ASSUME NEW f, Table(f), NEW i \in Inums, f[i].type # "T_DIR", NEW off \in Nat,
           NEW data \in Seq(FileBytes)
    PROVE  /\ write(f, i, off, data) = ec_put(f, i, Overwritten(f[i].data, off, data))
           /\ off + Len(data) <= MaxLen => Overwritten(f[i].data, off, data) \in Contents
<1>1. ec_get(f, i) = f[i].data /\ f[i].data \in Seq(FileBytes) /\ Len(f[i].data) <= MaxLen
  BY ContentOf, ContentsAre
<1>2. write(f, i, off, data) = ec_put(f, i, Overwritten(f[i].data, off, data))
  BY <1>1 DEF write, Overwritten
<1>3. ASSUME off + Len(data) <= MaxLen PROVE Overwritten(f[i].data, off, data) \in Contents
  <2> DEFINE new == Overwritten(f[i].data, off, data)
  <2>1. new \in Seq(FileBytes)
        /\ Len(new) = IF off + Len(data) > Len(f[i].data) THEN off + Len(data) ELSE Len(f[i].data)
    BY <1>1, OverlayFacts
  <2> HIDE DEF new
  <2>2. Len(new) <= MaxLen
    BY <1>1, <1>3, <2>1
  <2> QED
    BY <2>1, <2>2, ContentsAre DEF new
<1> QED
  BY <1>2, <1>3

\* setattr of anything but a directory puts some content or does nothing.
LEMMA SetattrEffect ==
    ASSUME NEW f, Table(f), NEW i \in Inums, f[i].type # "T_DIR", NEW size \in 0 .. MaxLen
    PROVE  \E data \in Contents : setattr(f, i, size) \in {f, ec_put(f, i, data)}
<1> DEFINE buf == f[i].data
<1>1. ec_get(f, i) = buf /\ buf \in Seq(FileBytes) /\ Len(buf) <= MaxLen /\ Len(buf) \in Nat /\ buf \in Contents
  BY ContentOf, ContentsAre
<1> HIDE DEF buf
<1>2. CASE Len(buf) = size
  BY <1>1, <1>2 DEF setattr
<1>3. CASE Len(buf) < size
  <2>1. setattr(f, i, size) = ec_put(f, i, Prefix(buf, size))
    BY <1>1, <1>3 DEF setattr
  <2>2. Prefix(buf, size) = SubSeq(buf, 1, Len(buf))
    BY <1>1, <1>3 DEF Prefix
  <2>3. SubSeq(buf, 1, Len(buf)) \in Seq(FileBytes) /\ Len(SubSeq(buf, 1, Len(buf))) <= MaxLen
    BY <1>1, SubSeqProperties
  <2>4. Prefix(buf, size) \in Contents
    BY <2>2, <2>3, ContentsAre
  <2> QED
    BY <2>1, <2>4
<1>4. CASE Len(buf) > size
  <2>1. setattr(f, i, size) = ec_put(f, i, Resize(buf, size))
    BY <1>1, <1>4 DEF setattr
  <2>2. size \in Nat /\ size <= MaxLen
    BY FuseAssumption
  <2>3. Resize(buf, size) \in Contents
    BY <1>1, <2>2, ResizeFacts, ContentsAre
  <2> QED
    BY <2>1, <2>3
<1> QED
  BY <1>1, <1>2, <1>3, <1>4

-----------------------------------------------------------------------------
(* The inductive invariant. *)

\* The kernel may hold an inum as a file whose file is gone, but nothing that it
\* holds as a file has become a directory or a link, and directories stay.
KnownOK ==
    /\ known \in [Inums -> Modes \cup {"none"}]
    /\ \A i \in Inums : /\ known[i] = "S_IFDIR" => files[i].type = "T_DIR"
                        /\ known[i] = "S_IFREG" => files[i].type \in {"T_FILE", "0"}

ReplyOK == reply.ino \in 0 .. INODE_NUM /\ reply.size \in 0 .. MaxLen

NInv == Tree(files) /\ KnownOK /\ ReplyOK

\* The live inums and the directories, as sets of the table.
LEMMA SetsAre == Live = LiveIn(files) /\ Dirs = DirsIn(files)
BY DEF Live, LiveIn, Dirs, DirsIn, isdir, TypeIn, Absent

\* The invariant gives the properties of the namespace.
LEMMA TreeLinked == ASSUME Tree(files) PROVE LinkedOnce
<1> DEFINE D == DirsIn(files)
           L(d) == ListOf(files, d)
<1>1. /\ \A d \in D : \A k \in DOMAIN L(d) : L(d)[k].inum # 0 => L(d)[k].inum \in Live \ {1}
      /\ \A i \in Live \ {1} : \E d \in D : \E k \in DOMAIN L(d) : L(d)[k].inum = i
      /\ \A d, e \in D : \A k \in DOMAIN L(d), m \in DOMAIN L(e) :
            L(d)[k].inum # 0 /\ L(d)[k].inum = L(e)[m].inum => d = e /\ k = m
  BY SetsAre DEF Tree, LinkedIn
<1>2. Links = UNION {{<<d, k>> : k \in {k \in DOMAIN L(d) : L(d)[k].inum # 0}} : d \in D}
  BY SetsAre DEF Links, ListOf
<1>3. \A l : Target(l) = L(l[1])[l[2]].inum
  BY DEF Target, ListOf
<1> HIDE DEF L, D
<1>4. ASSUME NEW l \in Links
      PROVE  \E d \in D : \E k \in DOMAIN L(d) : l = <<d, k>> /\ L(d)[k].inum # 0 /\ Target(l) = L(d)[k].inum
  <2>1. PICK d \in D : l \in {<<d, k>> : k \in {k \in DOMAIN L(d) : L(d)[k].inum # 0}}
    BY <1>2
  <2>2. PICK k \in DOMAIN L(d) : L(d)[k].inum # 0 /\ l = <<d, k>>
    BY <2>1
  <2>3. l[1] = d /\ l[2] = k
    BY <2>2
  <2> QED
    BY <1>3, <2>2, <2>3
<1>5. ASSUME NEW d \in D, NEW k \in DOMAIN L(d), L(d)[k].inum # 0
      PROVE  <<d, k>> \in Links /\ Target(<<d, k>>) = L(d)[k].inum
  <2>1. <<d, k>>[1] = d /\ <<d, k>>[2] = k
    OBVIOUS
  <2>2. <<d, k>> \in {<<d, m>> : m \in {m \in DOMAIN L(d) : L(d)[m].inum # 0}}
    BY <1>5
  <2>3. <<d, k>> \in Links
    BY <1>2, <2>2
  <2>4. Target(<<d, k>>) = L(<<d, k>>[1])[<<d, k>>[2]].inum
    BY <1>3
  <2> QED
    BY <2>1, <2>3, <2>4
<1>6. \A l \in Links : Target(l) \in Live \ {1}
  BY <1>1, <1>4
<1>7. ASSUME NEW i \in Live \ {1} PROVE \E l \in Links : Target(l) = i
  <2>1. PICK d \in D : \E k \in DOMAIN L(d) : L(d)[k].inum = i
    BY <1>1
  <2>2. i # 0
    BY ChfsAssumption DEF Live, Inums
  <2> QED
    BY <1>5, <2>1, <2>2
<1>8. ASSUME NEW l \in Links, NEW m \in Links, Target(l) = Target(m) PROVE l = m
  <2>1. PICK d \in D : \E k \in DOMAIN L(d) : l = <<d, k>> /\ L(d)[k].inum # 0 /\ Target(l) = L(d)[k].inum
    BY <1>4
  <2>2. PICK k \in DOMAIN L(d) : l = <<d, k>> /\ L(d)[k].inum # 0 /\ Target(l) = L(d)[k].inum
    BY <2>1
  <2>3. PICK e \in D : \E j \in DOMAIN L(e) : m = <<e, j>> /\ Target(m) = L(e)[j].inum
    BY <1>4
  <2>4. PICK j \in DOMAIN L(e) : m = <<e, j>> /\ Target(m) = L(e)[j].inum
    BY <2>3
  <2>5. d = e /\ k = j
    BY <1>1, <1>8, <2>2, <2>4
  <2> QED
    BY <2>2, <2>4, <2>5
<1> QED
  BY <1>6, <1>7, <1>8 DEF LinkedOnce

\* A tree has unique names.
LEMMA TreeNames == ASSUME Tree(files) PROVE NamesUnique
BY SetsAre DEF Tree, UniqueIn, NamesUnique, ListOf

\* The entries of a directory as a set.
LEMMA EntriesAre ==
    ASSUME NEW d PROVE EntriesOf(d) = {ListOf(files, d)[k] : k \in DOMAIN ListOf(files, d)}
BY DEF EntriesOf, ToSet, ListOf

\* A tree is connected.
LEMMA TreeConnected == ASSUME Tree(files) PROVE Connected
<1> SUFFICES ASSUME NEW S \in SUBSET Live, 1 \in S,
                    \A d \in S \cap Dirs : \A e \in EntriesOf(d) : e.inum \in Live => e.inum \in S
             PROVE  S = Live
  BY DEF Connected
<1>1. Closed(files, S)
  BY SetsAre, EntriesAre DEF Closed
<1> QED
  BY <1>1, SetsAre DEF Tree, ReachIn

\* The invariant includes the types.
LEMMA NInvType == ASSUME NInv PROVE TypeOK
<1>1. Table(files)
  BY DEF NInv, Tree
<1>2. ASSUME NEW i \in Inums
      PROVE  \/ files[i] = NoFile
             \/ files[i].type = "T_DIR" /\ readdir(files, i).r = "OK"
                /\ \A e \in EntriesOf(i) : e.inum \in 0 .. INODE_NUM /\ e.name \in Names
             \/ files[i].type \in {"T_FILE", "T_SYMBOLIC"} /\ files[i].data \in Contents
  <2>1. FileOK(files, i)
    BY <1>1 DEF Table
  <2>2. CASE \E list \in Seq(EntryRecord) : files[i] = DirNode(list)
    <3>1. i \in DirsIn(files) /\ files[i].type = "T_DIR"
      BY <2>2 DEF DirsIn, DirNode
    <3>2. readdir(files, i).r = "OK" /\ ListOf(files, i) \in Seq(EntryRecord)
      BY <1>1, <3>1, DirHasList
    <3>3. \A e \in EntriesOf(i) : e \in EntryRecord
      BY <3>2, EntriesAre
    <3> QED
      BY <3>1, <3>2, <3>3 DEF EntryRecord
  <2>3. ASSUME NEW t \in {"T_FILE", "T_SYMBOLIC"}, NEW c \in Contents, files[i] = [type |-> t, data |-> c]
        PROVE  files[i].type \in {"T_FILE", "T_SYMBOLIC"} /\ files[i].data \in Contents
    BY <2>3
  <2> QED
    BY <2>1, <2>2, <2>3, Zenon DEF FileOK
<1> QED
  BY <1>2 DEF NInv, KnownOK, ReplyOK, TypeOK, Contents

\* The root is a directory without entries, and nothing else exists.
LEMMA InitNInv == ASSUME Init PROVE NInv
<1>1. 1 \in Inums /\ 0 \in 0 .. INODE_NUM /\ 0 \in 0 .. MaxLen
  BY ChfsAssumption, FuseAssumption DEF Inums
<1>2. files = [i \in Inums |-> files[i]] /\ files[1] = DirNode(<< >>)
      /\ \A i \in Inums \ {1} : files[i] = NoFile
  <2>1. files[1] = [type |-> "T_DIR", data |-> << >>]
    BY <1>1 DEF Init
  <2> QED
    BY <2>1, EmptyDir DEF Init, DirNode
<1>3. Table(files)
  <2>1. \A i \in Inums : FileOK(files, i)
    BY <1>2, EmptyDir DEF FileOK
  <2>2. files[1].type = "T_DIR"
    BY <1>2 DEF DirNode
  <2> QED
    BY <1>2, <2>1, <2>2 DEF Table
<1>4. DirsIn(files) = {1} /\ LiveIn(files) = {1}
  BY <1>1, <1>2 DEF DirsIn, LiveIn, Absent, DirNode, NoFile
<1>5. ListOf(files, 1) = << >>
  BY <1>1, <1>2, EmptyDir, FieldsRead
<1>6. Tree(files)
  BY <1>3, <1>4, <1>5 DEF Tree, LinkedIn, UniqueIn, ReachIn
<1>7. KnownOK
  <2>1. files[1].type = "T_DIR"
    BY <1>2 DEF DirNode
  <2> QED
    BY <1>1, <2>1 DEF Init, KnownOK, Modes
<1>8. ReplyOK
  BY <1>1 DEF Init, Reply, ReplyOK
<1> QED
  BY <1>6, <1>7, <1>8 DEF NInv

-----------------------------------------------------------------------------
(* The steps. *)

\* What each step is shown to do: keep the invariant, drop an entry only by an
\* unlink that removes the entry's file, and change files alone by write and
\* setattr.
EntriesStep ==
    \A d \in DirsIn(files) : \A k \in DOMAIN ListOf(files, d) :
        LET e == ListOf(files, d)[k]
        IN  \/ \E m \in DOMAIN ListOf(files', d) : ListOf(files', d)[m] = e
            \/ reply'.op = "unlink" /\ reply'.ino = e.inum /\ e.inum \notin LiveIn(files')

FilesStep ==
    reply'.op \in {"write", "setattr"} =>
        \A i \in Inums : files'[i] # files[i] => files[i].type = "T_FILE" /\ files'[i].type = "T_FILE"

Step == NInv' /\ EntriesStep /\ FilesStep

\* A step that leaves the files alone keeps the tree and its entries.
LEMMA SameFiles ==
    ASSUME NInv, UNCHANGED files, KnownOK', ReplyOK' PROVE Step
BY DEF NInv, Step, EntriesStep, FilesStep

\* The kernel knows directories by their inums.
LEMMA KnownDir ==
    ASSUME NInv, NEW parent \in KnownAs("S_IFDIR")
    PROVE  parent \in DirsIn(files) /\ parent \in Inums
BY DEF NInv, KnownOK, KnownAs, DirsIn

\* The fields of a reply.
LEMMA ReplyFacts ==
    ASSUME NEW op, NEW err
    PROVE  Reply(op, err).op = op /\ Reply(op, err).ino = 0 /\ Reply(op, err).size = 0
BY DEF Reply

\* A reply without attributes is right.
LEMMA PlainReply ==
    ASSUME NEW op, NEW err, reply' = Reply(op, err) PROVE ReplyOK' /\ reply'.op = op
<1>1. 0 \in 0 .. INODE_NUM /\ 0 \in 0 .. MaxLen
  BY ChfsAssumption, FuseAssumption
<1> QED
  BY <1>1, ReplyFacts DEF ReplyOK

\* The modes that getattr reports.
LEMMA StatFacts ==
    ASSUME NEW f, NEW i \in Inums
    PROVE  /\ Stat(f, i).mode \in Modes
           /\ Stat(f, i).mode = "S_IFDIR" => f[i].type = "T_DIR"
           /\ Stat(f, i).mode = "S_IFREG" => f[i].type = "T_FILE"
BY DEF Stat, Modes, isfile, isdir, TypeIn

\* What the kernel learns agrees with the files.
LEMMA LearnEntryOK ==
    ASSUME KnownOK, NEW ino, ino = 0 \/ ino \in Inums,
           \A i \in Inums \ {ino} : files'[i].type = files[i].type,
           known' = LearnEntry(ino, Stat(files', ino).mode)
    PROVE  KnownOK'
<1>1. CASE ino = 0
  <2>1. 0 \notin Inums
    BY DEF Inums
  <2> QED
    BY <1>1, <2>1 DEF LearnEntry, KnownOK
<1>2. CASE ino \in Inums
  <2>1. ino # 0
    BY <1>2 DEF Inums
  <2> DEFINE mode == Stat(files', ino).mode
  <2>2. mode \in Modes /\ (mode = "S_IFDIR" => files'[ino].type = "T_DIR")
        /\ (mode = "S_IFREG" => files'[ino].type = "T_FILE")
    BY <1>2, StatFacts
  <2>3. known' = [known EXCEPT ![ino] = mode]
    BY <2>1 DEF LearnEntry
  <2> HIDE DEF mode
  <2>4. known' \in [Inums -> Modes \cup {"none"}] /\ known'[ino] = mode
        /\ \A i \in Inums \ {ino} : known'[i] = known[i]
    BY <1>2, <2>2, <2>3 DEF KnownOK
  <2> QED
    BY <2>2, <2>4 DEF KnownOK
<1> QED
  BY <1>1, <1>2

\* Attributes of a step that changes no type teach the kernel nothing wrong.
LEMMA LearnAttrOK ==
    ASSUME KnownOK, NEW ino \in Inums, NEW mode,
           \A i \in Inums : files'[i].type = files[i].type,
           known' = LearnAttr(ino, mode)
    PROVE  KnownOK'
<1>1. /\ known' \in [Inums -> Modes \cup {"none"}]
      /\ \A i \in Inums : known'[i] \in {known[i], "none"}
  BY DEF LearnAttr, KnownOK
<1> QED
  BY <1>1 DEF KnownOK

\* create, mkdir and symlink: a refusal changes nothing, success adds an entry.
LEMMA EntryForm ==
    ASSUME NEW parent, NEW name,
           \/ fuseserver_create(parent, name)
           \/ fuseserver_mkdir(parent, name)
           \/ \E link \in Bytes : fuseserver_symlink(parent, name, link)
    PROVE  \E op, err :
              /\ op \in {"create", "mkdir", "symlink"}
              /\ reply' = Reply(op, err)
              /\ \/ UNCHANGED <<files, known>>
                 \/ /\ CreateCheck(files, parent, name) = "OK"
                    /\ \E ino \in Creatable(files) :
                          /\ \/ files' = create(files, parent, name, ino)
                             \/ files' = mkdir(files, parent, name, ino)
                             \/ \E link \in Bytes :
                                   files' = create_symbolic_link(files, parent, <<link>>, name, ino)
                          /\ known' = LearnEntry(ino, Stat(files', ino).mode)
<1> DEFINE Effect ==
             \/ UNCHANGED <<files, known>>
             \/ /\ CreateCheck(files, parent, name) = "OK"
                /\ \E ino \in Creatable(files) :
                      /\ \/ files' = create(files, parent, name, ino)
                         \/ files' = mkdir(files, parent, name, ino)
                         \/ \E link \in Bytes :
                               files' = create_symbolic_link(files, parent, <<link>>, name, ino)
                      /\ known' = LearnEntry(ino, Stat(files', ino).mode)
<1>1. ASSUME fuseserver_create(parent, name)
      PROVE  (\E err : reply' = Reply("create", err)) /\ Effect
  BY <1>1 DEF fuseserver_create, Entry
<1>2. ASSUME fuseserver_mkdir(parent, name)
      PROVE  (\E err : reply' = Reply("mkdir", err)) /\ Effect
  BY <1>2 DEF fuseserver_mkdir, Entry
<1>3. ASSUME NEW link \in Bytes, fuseserver_symlink(parent, name, link)
      PROVE  (\E err : reply' = Reply("symlink", err)) /\ Effect
  BY <1>3 DEF fuseserver_symlink, Entry
<1>4. SUFFICES (\E op \in {"create", "mkdir", "symlink"} : \E err : reply' = Reply(op, err)) /\ Effect
  <2> HIDE DEF Effect
  <2> SUFFICES ASSUME \E op \in {"create", "mkdir", "symlink"} : \E err : reply' = Reply(op, err), Effect
               PROVE  \E op, err : op \in {"create", "mkdir", "symlink"} /\ reply' = Reply(op, err) /\ Effect
    BY DEF Effect
  <2> QED
    OBVIOUS
<1> HIDE DEF Effect
<1> QED
  BY <1>1, <1>2, <1>3

\* The handlers that add an entry.
LEMMA EntryStep ==
    ASSUME NInv, NEW parent \in KnownAs("S_IFDIR"), NEW name \in Names,
           \/ fuseserver_create(parent, name)
           \/ fuseserver_mkdir(parent, name)
           \/ \E link \in Bytes : fuseserver_symlink(parent, name, link)
    PROVE  Step
<1>1. PICK op, err :
        /\ op \in {"create", "mkdir", "symlink"}
        /\ reply' = Reply(op, err)
        /\ \/ UNCHANGED <<files, known>>
           \/ /\ CreateCheck(files, parent, name) = "OK"
              /\ \E ino \in Creatable(files) :
                    /\ \/ files' = create(files, parent, name, ino)
                       \/ files' = mkdir(files, parent, name, ino)
                       \/ \E link \in Bytes :
                             files' = create_symbolic_link(files, parent, <<link>>, name, ino)
                    /\ known' = LearnEntry(ino, Stat(files', ino).mode)
  BY EntryForm
<1>2. ReplyOK' /\ reply'.op \notin {"write", "setattr"}
  BY <1>1, PlainReply
<1>3. CASE UNCHANGED <<files, known>>
  BY <1>2, <1>3, SameFiles DEF NInv, KnownOK
<1>4. ASSUME CreateCheck(files, parent, name) = "OK", NEW ino \in Creatable(files),
             \/ files' = create(files, parent, name, ino)
             \/ files' = mkdir(files, parent, name, ino)
             \/ \E link \in Bytes : files' = create_symbolic_link(files, parent, <<link>>, name, ino),
             known' = LearnEntry(ino, Stat(files', ino).mode)
      PROVE  Step
  <2>1. Tree(files) /\ Table(files) /\ parent \in DirsIn(files) /\ parent \in Inums /\ KnownOK
    BY KnownDir DEF NInv, Tree
  <2>2. PICK node \in NewNodes : Added(files, files', parent, ino, name, node)
    BY <1>4, <2>1, CreateEffect DEF NewNodes
  <2>3. \A k \in DOMAIN ListOf(files, parent) : ListOf(files, parent)[k].name # name
    <3>1. ~ lookup(files, parent, name).found
      BY <1>4 DEF CreateCheck
    <3>2. ListOf(files, parent) \in Seq(EntryRecord) /\ files[parent] = DirNode(ListOf(files, parent))
      BY <2>1, DirHasList
    <3> QED
      BY <2>1, <3>1, <3>2, LookupFacts
  <2>4. Tree(files') /\ Kept(files, files')
    BY <2>1, <2>2, <2>3, AddKeepsTree
  <2>5. \A i \in Inums \ {ino} : files'[i].type = files[i].type
    BY <2>1, <2>2, AddTypes
  <2>6. ino = 0 \/ ino \in Inums
    BY DEF Creatable, Absent
  <2>7. KnownOK'
    BY <1>4, <2>1, <2>5, <2>6, LearnEntryOK
  <2>8. NInv'
    BY <1>2, <2>4, <2>7 DEF NInv
  <2>9. EntriesStep
    BY <2>4 DEF EntriesStep, Kept
  <2> QED
    BY <1>2, <2>8, <2>9 DEF Step, FilesStep
<1> QED
  BY <1>1, <1>3, <1>4

\* The handler that drops one.
LEMMA UnlinkStep ==
    ASSUME NInv, NEW parent \in KnownAs("S_IFDIR"), NEW name \in Names,
           fuseserver_unlink(parent, name)
    PROVE  Step
<1> DEFINE ino == lookup(files, parent, name).ino
<1>1. Tree(files) /\ Table(files) /\ parent \in DirsIn(files) /\ parent \in Inums /\ KnownOK
  BY KnownDir DEF NInv, Tree
<1>2. ino \in 0 .. INODE_NUM
  <2>1. ListOf(files, parent) \in Seq(EntryRecord) /\ files[parent] = DirNode(ListOf(files, parent))
    BY <1>1, DirHasList
  <2> QED
    BY <1>1, <2>1, LookupFacts
<1>3. reply'.op = "unlink" /\ reply'.ino = ino /\ reply'.size = 0 /\ UNCHANGED known
  BY DEF fuseserver_unlink, Reply
<1>4. files' = IF UnlinkCheck(files, parent, name) = "OK" THEN unlink(files, parent, name) ELSE files
  BY DEF fuseserver_unlink
<1> HIDE DEF ino
<1>5. ReplyOK' /\ FilesStep
  BY <1>2, <1>3, FuseAssumption DEF ReplyOK, FilesStep
<1>6. CASE UnlinkCheck(files, parent, name) # "OK"
  <2>1. UNCHANGED files
    BY <1>4, <1>6
  <2>2. KnownOK'
    BY <1>1, <1>3, <2>1 DEF KnownOK
  <2> QED
    BY <1>5, <2>1, <2>2, SameFiles
<1>7. CASE UnlinkCheck(files, parent, name) = "OK"
  <2>1. /\ Unlinked(files, files', parent, ino, name)
        /\ ino \in Inums /\ files[ino].type = "T_FILE"
        /\ \E k \in DOMAIN ListOf(files, parent) :
              ListOf(files, parent)[k].name = name /\ ListOf(files, parent)[k].inum = ino
    BY <1>1, <1>4, <1>7, UnlinkEffect DEF ino
  <2>2. /\ Tree(files')
        /\ \A k \in DOMAIN ListOf(files, parent) :
              ListOf(files, parent)[k].name = name => ListOf(files, parent)[k].inum = ino
        /\ \A d \in DirsIn(files) : \A k \in DOMAIN ListOf(files, d) :
              (d = parent => ListOf(files, d)[k].name # name) =>
                 \E n \in DOMAIN ListOf(files', d) : ListOf(files', d)[n] = ListOf(files, d)[k]
    BY <1>1, <2>1, UnlinkKeepsTree
  <2>3. /\ LiveIn(files') = LiveIn(files) \ {ino}
        /\ files'[ino].type = "0" /\ \A i \in Inums \ {ino} : files'[i].type = files[i].type
    BY <1>1, <2>1, UnlinkLists, ZenonT(60)
  <2>4. KnownOK'
    BY <1>1, <1>3, <2>1, <2>3 DEF KnownOK
  <2>5. EntriesStep
    <3>1. ASSUME NEW d \in DirsIn(files), NEW k \in DOMAIN ListOf(files, d),
                 ~ \E m \in DOMAIN ListOf(files', d) : ListOf(files', d)[m] = ListOf(files, d)[k]
          PROVE  ListOf(files, d)[k].inum = ino
      BY <2>2, <3>1
    <3> QED
      BY <1>3, <2>3, <3>1 DEF EntriesStep
  <2> QED
    BY <1>5, <2>2, <2>4, <2>5 DEF Step, NInv
<1> QED
  BY <1>6, <1>7

\* The handler that looks one up.
LEMMA LookupStep ==
    ASSUME NInv, NEW parent \in KnownAs("S_IFDIR"), NEW name \in Names,
           fuseserver_lookup(parent, name)
    PROVE  Step
<1> DEFINE hit == lookup(files, parent, name)
<1>1. Table(files) /\ parent \in DirsIn(files) /\ parent \in Inums /\ KnownOK
  BY KnownDir DEF NInv, Tree
<1>2. hit.ino = 0 \/ hit.ino \in Inums
  <2>1. ListOf(files, parent) \in Seq(EntryRecord) /\ files[parent] = DirNode(ListOf(files, parent))
    BY <1>1, DirHasList
  <2>2. hit.ino \in 0 .. INODE_NUM
    BY <1>1, <2>1, LookupFacts
  <2> QED
    BY <2>2, ChfsAssumption DEF Inums
<1> HIDE DEF hit
<1>3. UNCHANGED files /\ ReplyOK'
  BY PlainReply DEF fuseserver_lookup
<1>4. UNCHANGED known \/ known' = LearnEntry(hit.ino, Stat(files', hit.ino).mode)
  BY <1>3 DEF fuseserver_lookup, hit
<1>5. KnownOK'
  BY <1>1, <1>2, <1>3, <1>4, LearnEntryOK DEF KnownOK
<1> QED
  BY <1>3, <1>5, SameFiles

\* The size in a reply is that of a content.
LEMMA StatSize ==
    ASSUME NEW f, Table(f), NEW i \in Inums PROVE Stat(f, i).size \in 0 .. MaxLen
<1>1. CASE f[i].type = "T_DIR"
  BY <1>1, FuseAssumption DEF Stat, isfile, isdir, TypeIn
<1>2. CASE f[i].type # "T_DIR"
  <2>1. ec_get(f, i) \in Seq(FileBytes) /\ Len(ec_get(f, i)) <= MaxLen
    BY <1>2, ContentOf, ContentsAre
  <2>2. Len(ec_get(f, i)) \in 0 .. MaxLen
    BY <2>1, FuseAssumption
  <2> QED
    BY <1>2, <2>2 DEF Stat, isfile, isdir, TypeIn
<1> QED
  BY <1>1, <1>2

\* The inums that the kernel holds as files are files or nothing.
LEMMA KnownFile ==
    ASSUME NInv, NEW ino \in KnownAs("S_IFREG")
    PROVE  ino \in Inums /\ files[ino].type \in {"T_FILE", "0"} /\ files[ino].type # "T_DIR"
BY DEF NInv, KnownOK, KnownAs

\* What a put to a regular file does to the tree: nothing.
LEMMA PutStep ==
    ASSUME NInv, NEW ino \in KnownAs("S_IFREG"), NEW data \in Contents,
           files' \in {files, ec_put(files, ino, data)}
    PROVE  /\ Tree(files') /\ EntriesStep /\ FilesStep
           /\ \A i \in Inums : files'[i].type = files[i].type
<1>1. Tree(files) /\ ino \in Inums /\ files[ino].type \in {"T_FILE", "0"}
  BY KnownFile DEF NInv
<1>2. CASE files' = files
  BY <1>1, <1>2 DEF EntriesStep, FilesStep
<1>3. CASE files' = ec_put(files, ino, data)
  <2>1. /\ Tree(files') /\ Kept(files, files')
        /\ \A i \in Inums : files'[i].type = files[i].type
        /\ \A i \in Inums : files'[i] # files[i] => files[i].type = "T_FILE"
    BY <1>1, <1>3, PutEffect
  <2> QED
    BY <2>1 DEF EntriesStep, FilesStep, Kept
<1> QED
  BY <1>2, <1>3

\* The handler of setattr.
LEMMA SetattrStep ==
    ASSUME NInv, NEW ino \in KnownAs("S_IFREG"), NEW size \in 0 .. MaxLen,
           fuseserver_setattr(ino, size)
    PROVE  Step
<1>1. Table(files) /\ KnownOK /\ ino \in Inums /\ files[ino].type # "T_DIR"
  BY KnownFile DEF NInv, Tree
<1>2. PICK data \in Contents : files' \in {files, ec_put(files, ino, data)}
  BY <1>1, SetattrEffect DEF fuseserver_setattr
<1>3. /\ Tree(files') /\ EntriesStep /\ FilesStep
      /\ \A i \in Inums : files'[i].type = files[i].type
  BY <1>2, PutStep
<1>4. KnownOK'
  BY <1>1, <1>3, LearnAttrOK DEF fuseserver_setattr
<1>5. reply'.ino = ino /\ reply'.size = Stat(files', ino).size
  BY DEF fuseserver_setattr, Reply
<1>6. Stat(files', ino).size \in 0 .. MaxLen
  BY <1>1, <1>3, StatSize DEF Tree
<1>7. ReplyOK'
  BY <1>1, <1>5, <1>6, ChfsAssumption DEF ReplyOK, Inums
<1> QED
  BY <1>3, <1>4, <1>7 DEF Step, NInv

\* The data of a write is one or two bytes.
LEMMA StringsAre ==
    ASSUME NEW data \in Strings PROVE data \in Seq(FileBytes) /\ Len(data) \in 1 .. 2
<1>1. CASE data \in {<<b>> : b \in Bytes}
  <2>1. PICK b \in Bytes : data = <<b>>
    BY <1>1
  <2>2. b \in FileBytes
    BY DEF FileBytes
  <2> QED
    BY <2>1, <2>2
<1>2. CASE data \in {<<b, c>> : b \in Bytes, c \in Bytes}
  <2>1. PICK b \in Bytes, c \in Bytes : data = <<b, c>>
    BY <1>2
  <2>2. b \in FileBytes /\ c \in FileBytes
    BY DEF FileBytes
  <2> QED
    BY <2>1, <2>2
<1> QED
  BY <1>1, <1>2 DEF Strings

\* The handler of write.
LEMMA WriteStep ==
    ASSUME NInv, NEW ino \in KnownAs("S_IFREG"), NEW off \in 0 .. MaxLen, NEW data \in Strings,
           off + Len(data) <= MaxLen, fuseserver_write(ino, off, data)
    PROVE  Step
<1>1. Table(files) /\ KnownOK /\ ino \in Inums /\ files[ino].type # "T_DIR"
  BY KnownFile DEF NInv, Tree
<1>2. data \in Seq(FileBytes) /\ off \in Nat
  BY FuseAssumption, StringsAre
<1>3. PICK new \in Contents : files' = ec_put(files, ino, new)
  BY <1>1, <1>2, WriteEffect DEF fuseserver_write
<1>4. /\ Tree(files') /\ EntriesStep /\ FilesStep
      /\ \A i \in Inums : files'[i].type = files[i].type
  BY <1>3, PutStep
<1>5. KnownOK' /\ ReplyOK'
  BY <1>1, <1>4, PlainReply DEF fuseserver_write, KnownOK
<1> QED
  BY <1>4, <1>5 DEF Step, NInv

\* getattr, read, readdir and readlink leave the files alone.
LEMMA LookStep ==
    ASSUME NInv, NEW ino \in Inums,
           \/ fuseserver_readdir(ino)
           \/ fuseserver_getattr(ino)
           \/ fuseserver_read(ino)
           \/ fuseserver_readlink(ino)
    PROVE  Step
<1>1. KnownOK
  BY DEF NInv
<1>2. UNCHANGED files
  BY DEF fuseserver_readdir, fuseserver_getattr, fuseserver_read, fuseserver_readlink
<1>3. KnownOK'
  <2>1. CASE fuseserver_getattr(ino)
    BY <1>1, <1>2, <2>1, LearnAttrOK DEF fuseserver_getattr
  <2>2. CASE UNCHANGED known
    BY <1>1, <1>2, <2>2 DEF KnownOK
  <2> QED
    BY <2>1, <2>2 DEF fuseserver_readdir, fuseserver_read, fuseserver_readlink
<1>4. ReplyOK'
  <2>1. CASE fuseserver_read(ino)
    <3>1. reply'.ino = ino /\ reply'.size = 0
      BY <2>1 DEF fuseserver_read, Reply
    <3> QED
      BY <3>1, ChfsAssumption, FuseAssumption DEF ReplyOK, Inums
  <2>2. CASE \E op, err : reply' = Reply(op, err)
    BY <2>2, PlainReply
  <2> QED
    BY <2>1, <2>2 DEF fuseserver_readdir, fuseserver_getattr, fuseserver_readlink
<1> QED
  BY <1>2, <1>3, <1>4, SameFiles

\* Every handler keeps the invariant.
LEMMA NextStep == ASSUME NInv, Next PROVE Step
<1>1. ASSUME NEW parent \in KnownAs("S_IFDIR"), NEW name \in Names,
             \/ fuseserver_create(parent, name)
             \/ fuseserver_mkdir(parent, name)
             \/ \E link \in Bytes : fuseserver_symlink(parent, name, link)
             \/ fuseserver_lookup(parent, name)
             \/ fuseserver_unlink(parent, name)
      PROVE  Step
  BY <1>1, EntryStep, LookupStep, UnlinkStep
<1>2. ASSUME NEW ino \in KnownAs("S_IFREG"),
             \/ \E size \in 0 .. MaxLen : fuseserver_setattr(ino, size)
             \/ fuseserver_read(ino)
             \/ \E off \in 0 .. MaxLen, data \in Strings :
                   off + Len(data) <= MaxLen /\ fuseserver_write(ino, off, data)
      PROVE  Step
  <2>1. ino \in Inums
    BY DEF KnownAs
  <2> QED
    BY <1>2, <2>1, SetattrStep, LookStep, WriteStep
<1>3. ASSUME NEW ino \in KnownAs("S_IFDIR") \cup KnownAs("S_IFLNK"),
             fuseserver_readdir(ino) \/ fuseserver_readlink(ino)
      PROVE  Step
  <2>1. ino \in Inums
    BY DEF KnownAs
  <2> QED
    BY <1>3, <2>1, LookStep
<1>4. ASSUME NEW ino \in Inums, fuseserver_getattr(ino) PROVE Step
  BY <1>4, LookStep
<1> QED
  BY <1>1, <1>2, <1>3, <1>4 DEF Next

\* The inductive invariant holds.
LEMMA NInvHolds == Spec => []NInv
<1>1. Init => NInv
  BY InitNInv
<1>2. NInv /\ [Next]_vars => NInv'
  <2>1. CASE Next
    BY <2>1, NextStep DEF Step
  <2>2. CASE UNCHANGED vars
    BY <2>2 DEF vars, NInv, KnownOK, ReplyOK
  <2> QED
    BY <2>1, <2>2
<1> QED
  BY <1>1, <1>2, PTL DEF Spec

\* read of the range that a write has covered returns the data.
LEMMA ReadBack ==
    ASSUME NEW g, NEW i \in Inums, NEW buf \in Seq(FileBytes), g[i].data = buf, NEW off \in Nat,
           NEW data \in Seq(FileBytes), Len(data) \in 1 .. 2, off + Len(data) <= Len(buf)
    PROVE  (\A k \in 1 .. Len(buf) : k > off /\ k <= off + Len(data) => buf[k] = data[k - off])
              => read(g, i, Len(data), off) = data
<1> DEFINE n == Len(data)
<1>1. n \in Nat /\ n > 0 /\ Len(buf) \in Nat /\ off + n <= Len(buf)
  <2>1. Len(buf) \in Nat
    BY LenProperties
  <2>2. n \in Nat /\ n > 0
    <3>1. \A m \in 1 .. 2 : m \in Nat /\ m > 0
      OBVIOUS
    <3> QED
      BY <3>1
  <2>3. off + n <= Len(buf)
    OBVIOUS
  <2> QED
    BY <2>1, <2>2, <2>3
<1>2. ec_get(g, i) = buf
  BY DEF ec_get
<1>3. \A k \in 1 .. Len(buf) : buf[k] \in FileBytes
  OBVIOUS
<1>4. data = [k \in 1 .. n |-> data[k]]
  OBVIOUS
<1> HIDE DEF n
<1>11. SUFFICES ASSUME \A k \in 1 .. Len(buf) : k > off /\ k <= off + n => buf[k] = data[k - off]
                PROVE  read(g, i, n, off) = data
  BY DEF n
<1>5. read(g, i, n, off) = SubSeq(buf, off + 1, off + n)
  <2>1. ~ (Len(buf) <= off)
    BY <1>1
  <2>2. off + n >= Len(buf) => off + n = Len(buf)
    BY <1>1
  <2> QED
    BY <1>2, <2>1, <2>2 DEF read
<1> DEFINE part == SubSeq(buf, off + 1, off + n)
<1>6. \A k \in off + 1 .. off + n : buf[k] \in FileBytes
  BY <1>1, <1>3
<1>7. /\ part \in Seq(FileBytes)
      /\ Len(part) = IF off + 1 <= off + n THEN off + n - (off + 1) + 1 ELSE 0
      /\ \A k \in 1 .. off + n - (off + 1) + 1 : part[k] = buf[off + 1 + k - 1]
  BY <1>1, <1>6, SubSeqProperties
<1> HIDE DEF part
<1>8. Len(part) = n
  BY <1>1, <1>7
<1>9. ASSUME NEW k \in 1 .. n PROVE part[k] = data[k]
  <2>1. off + 1 + k - 1 = off + k /\ k \in 1 .. off + n - (off + 1) + 1
    BY <1>1
  <2>2. off + k \in 1 .. Len(buf) /\ off + k > off /\ off + k <= off + n /\ off + k - off = k
    BY <1>1
  <2>3. part[k] = buf[off + k]
    BY <1>7, <2>1
  <2> QED
    BY <1>11, <2>2, <2>3
<1>10. part = [k \in 1 .. n |-> part[k]]
  BY <1>7, <1>8
<1> QED
  BY <1>4, <1>5, <1>9, <1>10 DEF part

\* write overlays its bytes in every tree.
LEMMA TreeOverlay == ASSUME Tree(files) PROVE WriteIsOverlay
<1> SUFFICES ASSUME NEW i \in Live \ Dirs, NEW off \in 0 .. MaxLen, NEW data \in Strings
             PROVE  LET old == files[i].data
                        new == write(files, i, off, data)[i].data
                    IN  /\ Len(new) = IF off + Len(data) > Len(old) THEN off + Len(data) ELSE Len(old)
                        /\ \A k \in 1 .. Len(new) :
                              new[k] = IF k > off /\ k <= off + Len(data) THEN data[k - off]
                                       ELSE IF k <= Len(old) THEN old[k] ELSE Zero
                        /\ read(write(files, i, off, data), i, Len(data), off) = data
  BY DEF WriteIsOverlay
<1> DEFINE old == files[i].data
           g == write(files, i, off, data)
           new == Overwritten(old, off, data)
<1>1. Table(files) /\ i \in Inums /\ files[i].type # "T_DIR" /\ files[i].type # "0"
  BY SetsAre DEF Tree, LiveIn, DirsIn, Absent
<1>2. data \in Seq(FileBytes) /\ Len(data) \in 1 .. 2 /\ off \in Nat
  BY StringsAre, FuseAssumption
<1>3. old \in Seq(FileBytes)
  BY <1>1, ContentOf, ContentsAre
<1>4. g = ec_put(files, i, new)
  BY <1>1, <1>2, WriteEffect
<1>5. g[i].data = new
  <2>1. g = [files EXCEPT ![i].data = new]
    BY <1>1, <1>4 DEF ec_put, TypeIn
  <2>2. files = [j \in Inums |-> files[j]] /\ FileOK(files, i)
    BY <1>1 DEF Table
  <2>3. files[i] # NoFile /\ \A list : files[i] # DirNode(list)
    BY <1>1 DEF NoFile, DirNode
  <2>4. PICK t \in {"T_FILE", "T_SYMBOLIC"}, c \in Contents : files[i] = [type |-> t, data |-> c]
    BY <2>2, <2>3, Zenon DEF FileOK
  <2>5. g[i] = [files[i] EXCEPT !.data = new]
    BY <1>1, <2>1, <2>2
  <2> QED
    BY <2>4, <2>5
<1>6. /\ new \in Seq(FileBytes)
      /\ Len(new) = IF off + Len(data) > Len(old) THEN off + Len(data) ELSE Len(old)
      /\ \A k \in 1 .. Len(new) :
            new[k] = IF k > off /\ k <= off + Len(data) THEN data[k - off]
                     ELSE IF k <= Len(old) THEN old[k] ELSE Zero
  BY <1>2, <1>3, OverlayFacts
<1> HIDE DEF g, new, old
<1>7. read(g, i, Len(data), off) = data
  <2>1. off + Len(data) <= Len(new)
    BY <1>2, <1>3, <1>6
  <2>2. \A k \in 1 .. Len(new) : k > off /\ k <= off + Len(data) => new[k] = data[k - off]
    BY <1>6
  <2> QED
    BY <1>1, <1>2, <1>5, <1>6, <2>1, <2>2, ReadBack, SMTT(30)
<1> QED
  BY <1>5, <1>6, <1>7 DEF g, old

-----------------------------------------------------------------------------
(* The theorems. *)

\* The file table, what the kernel knows and the replies keep their types
\* (fuse.cc, chfs_client.cc): a directory can always be parsed.
THEOREM FuseTypeCorrect == Spec => []TypeOK
<1>1. NInv => TypeOK
  BY NInvType
<1> QED
  BY <1>1, NInvHolds, PTL

\* create, mkdir, symlink and unlink keep the namespace and the inode table in
\* agreement: every entry with an inum leads to a live file, and every live file
\* but the root has exactly one entry.
THEOREM NamespaceAgrees == Spec => []LinkedOnce
<1>1. NInv => LinkedOnce
  BY TreeLinked DEF NInv
<1> QED
  BY <1>1, NInvHolds, PTL

\* No directory has two entries of a name: the lookup in create, mkdir and
\* create_symbolic_link is enough.
THEOREM NamesStayUnique == Spec => []NamesUnique
<1>1. NInv => NamesUnique
  BY TreeNames DEF NInv
<1> QED
  BY <1>1, NInvHolds, PTL

\* Whatever unlink removes, every live file can still be reached from the root.
THEOREM TreeStaysConnected == Spec => []Connected
<1>1. NInv => Connected
  BY TreeConnected DEF NInv
<1> QED
  BY <1>1, NInvHolds, PTL

\* The resize and replace of chfs_client::write put the data over the old bytes,
\* and read gives it back, for every offset and every content.
THEOREM WritesAreOverlays == Spec => []WriteIsOverlay
<1>1. NInv => WriteIsOverlay
  BY TreeOverlay DEF NInv
<1> QED
  BY <1>1, NInvHolds, PTL

\* An entry goes only by an unlink of its name, and its file goes with it.
THEOREM OnlyUnlinkDropsEntries == Spec => EntriesPersist
<1> DEFINE A == \A d \in Dirs : \A e \in EntriesOf(d) :
                   e \notin EntriesOf(d)' =>
                      reply'.op = "unlink" /\ reply'.ino = e.inum /\ e.inum \notin Live'
<1>1. NInv /\ [Next]_vars => [A]_vars
  <2> SUFFICES ASSUME NInv, Next PROVE A
    OBVIOUS
  <2>1. EntriesStep
    BY NextStep DEF Step
  <2>2. Live' = LiveIn(files') /\ Dirs = DirsIn(files)
    BY SetsAre DEF Live, LiveIn
  <2>3. \A d : /\ EntriesOf(d) = {ListOf(files, d)[k] : k \in DOMAIN ListOf(files, d)}
               /\ EntriesOf(d)' = {ListOf(files', d)[k] : k \in DOMAIN ListOf(files', d)}
    BY DEF EntriesOf, ToSet, ListOf
  <2>4. ASSUME NEW d \in Dirs, NEW e \in EntriesOf(d), e \notin EntriesOf(d)'
        PROVE  reply'.op = "unlink" /\ reply'.ino = e.inum /\ e.inum \notin Live'
    <3>1. PICK k \in DOMAIN ListOf(files, d) : e = ListOf(files, d)[k]
      BY <2>3
    <3>2. ~ \E m \in DOMAIN ListOf(files', d) : ListOf(files', d)[m] = e
      BY <2>3, <2>4
    <3> QED
      BY <2>1, <2>2, <3>1, <3>2 DEF EntriesStep
  <2> QED
    BY <2>4
<1> QED
  BY <1>1, NInvHolds, PTL DEF Spec, EntriesPersist

\* write and setattr look at no type, and the kernel may hold an inum whose file
\* is gone: they still never change a directory or a link.
THEOREM WritesHitFilesOnly == Spec => WritesReachFiles
<1> DEFINE A == reply'.op \in {"write", "setattr"} =>
                   \A i \in Inums : files'[i] # files[i] => isfile(files, i) /\ isfile(files', i)
<1>1. NInv /\ [Next]_vars => [A]_vars
  <2> SUFFICES ASSUME NInv, Next PROVE A
    OBVIOUS
  <2>1. FilesStep
    BY NextStep DEF Step
  <2> QED
    BY <2>1 DEF FilesStep, isfile, TypeIn
<1> QED
  BY <1>1, NInvHolds, PTL DEF Spec, WritesReachFiles

=============================================================================
