----------------------------- MODULE ChfsClient -----------------------------
(***************************************************************************)
(* chfs_client.cc: directories, files and symbolic links kept as extents.  *)
(*                                                                         *)
(* Every method is an operator on f, the files of the extent service as    *)
(* the abstract specification ExtentStore has them; the methods that       *)
(* change files return the new ones.  No extent call ever returns an       *)
(* error, so the error branches after them are not modelled.               *)
(*                                                                         *)
(* A directory's content is the string inum/name/inum/name/...; the model  *)
(* keeps it as the sequence of its slash-terminated fields.  A file's      *)
(* content is a sequence of bytes.                                         *)
(***************************************************************************)
EXTENDS Integers, Sequences, FiniteSets, SequencesExt

CONSTANTS
    INODE_NUM,      \* the greatest inum
    Names,          \* names of directory entries
    Bytes,          \* bytes and link targets that callers write
    Zero            \* the byte '\0'

Inums == 1 .. INODE_NUM

ASSUME ChfsAssumption == /\ INODE_NUM \in Nat \ {0}
                         /\ Zero \notin Bytes

-----------------------------------------------------------------------------
(* The extent calls. *)

TypeIn(f, i) == IF i \in Inums THEN f[i].type ELSE "0"
ec_get(f, i) == IF i \in Inums THEN f[i].data ELSE << >>

\* put on an inum without a file does nothing.
ec_put(f, i, data) == IF TypeIn(f, i) = "0" THEN f ELSE [f EXCEPT ![i].data = data]

Absent(f) == {i \in Inums : f[i].type = "0"}
NoFile == [type |-> "0", data |-> << >>]

\* What create may hand back: a free inum, or 0 when at most one is left.
Creatable(f) == Absent(f) \cup (IF Cardinality(Absent(f)) <= 1 THEN {0} ELSE {})

ec_create(f, i, type) == IF i = 0 THEN f ELSE [f EXCEPT ![i] = [type |-> type, data |-> << >>]]
ec_remove(f, i) == IF i \in Inums THEN [f EXCEPT ![i] = NoFile] ELSE f

-----------------------------------------------------------------------------
(* Directories. *)

\* An inum as decimal text.
filename(inum) == [text |-> inum]

\* n2i of text that is not a number is 0.
n2i(field) == IF \E i \in 0 .. INODE_NUM : field = filename(i) THEN field.text ELSE 0

check_dir_inode(f, parent) == TypeIn(f, parent) = "T_DIR"

\* The entries parsed from a directory's content, and the error when a field
\* is left over.
readdir(f, dir) ==
    LET buf == ec_get(f, dir)
    IN  [r |-> IF check_dir_inode(f, dir) /\ Len(buf) % 2 = 0 THEN "OK" ELSE "IOERR",
         list |-> IF check_dir_inode(f, dir)
                  THEN [k \in 1 .. Len(buf) \div 2 |->
                          [inum |-> n2i(buf[2 * k - 1]), name |-> buf[2 * k]]]
                  ELSE << >>]

\* The first entry with the name; ino is 0 when there is none.
lookup(f, parent, name) ==
    LET dir == readdir(f, parent)
        hits == {k \in DOMAIN dir.list : dir.list[k].name = name}
        first == CHOOSE k \in hits : \A j \in hits : k <= j
        found == dir.r = "OK" /\ hits # {}
    IN  [r |-> dir.r, found |-> found, ino |-> IF found THEN dir.list[first].inum ELSE 0]

\* Mutant: a name that exists is not refused.
CreateCheckNoExist(f, parent, name) ==
    IF ~ check_dir_inode(f, parent) \/ lookup(f, parent, name).r # "OK" THEN "IOERR" ELSE "OK"

\* The guards that create, mkdir and create_symbolic_link share.
CreateCheck(f, parent, name) ==
    IF ~ check_dir_inode(f, parent) \/ lookup(f, parent, name).r # "OK" THEN "IOERR"
    ELSE IF lookup(f, parent, name).found THEN "EXIST" ELSE "OK"

\* Mutant: the inum of the entry is left out.
AddEntryUnpaired(f, parent, ino, name) == ec_put(f, parent, ec_get(f, parent) \o <<name>>)

\* Append the entry of ino to the directory.
AddEntry(f, parent, ino, name) ==
    ec_put(f, parent, ec_get(f, parent) \o <<filename(ino), name>>)

\* Mutant: the entry of a new directory goes into the new directory.
MkdirInItself(f, parent, name, ino) == AddEntry(ec_create(f, ino, "T_DIR"), ino, ino, name)

\* The files after create and mkdir when the extent service hands out ino.  An
\* ino of 0 is not checked.  (mkdir also refuses "." and "..", which the kernel
\* never sends.)
create(f, parent, name, ino) == AddEntry(ec_create(f, ino, "T_FILE"), parent, ino, name)
mkdir(f, parent, name, ino) == AddEntry(ec_create(f, ino, "T_DIR"), parent, ino, name)

\* The content of the parent is read before the link's own content is put.
create_symbolic_link(f, parent, target, name, ino) ==
    AddEntry(ec_put(ec_create(f, ino, "T_SYMBOLIC"), ino, target), parent, ino, name)

isfile(f, ino) == TypeIn(f, ino) = "T_FILE"
isdir(f, ino) == TypeIn(f, ino) = "T_DIR"
issymlink(f, ino) == TypeIn(f, ino) = "T_SYMBOLIC"

\* The content of a directory that lists these entries: for each the text of its
\* inum and its name.
Fields(list) ==
    [j \in 1 .. 2 * Len(list) |->
        IF j % 2 = 1 THEN filename(list[(j + 1) \div 2].inum) ELSE list[j \div 2].name]

\* The entries of another name, in their order.
Without(list, name) ==
    LET kept == {k \in DOMAIN list : list[k].name # name}
        nth(n) == CHOOSE k \in kept : Cardinality({j \in kept : j <= k}) = n
    IN  [n \in 1 .. Cardinality(kept) |-> list[nth(n)]]

UnlinkCheck(f, parent, name) ==
    IF ~ check_dir_inode(f, parent) \/ lookup(f, parent, name).r # "OK" THEN "IOERR"
    ELSE IF ~ lookup(f, parent, name).found THEN "NOENT"
    ELSE IF ~ isfile(f, lookup(f, parent, name).ino) THEN "IOERR" ELSE "OK"

\* Mutants: the extent is not removed; entries without an inum are dropped too.
UnlinkKeepsExtent(f, parent, name) ==
    ec_put(f, parent, Fields(Without(readdir(f, parent).list, name)))
UnlinkDropsZero(f, parent, name) ==
    LET g == ec_remove(f, lookup(f, parent, name).ino)
        other(entry) == entry.name # name /\ entry.inum # 0
    IN  ec_put(g, parent, Fields(SelectSeq(readdir(g, parent).list, other)))

\* The extent is removed first, then the directory is written back without the
\* entries of that name.
unlink(f, parent, name) ==
    LET g == ec_remove(f, lookup(f, parent, name).ino)
    IN  ec_put(g, parent, Fields(Without(readdir(g, parent).list, name)))

-----------------------------------------------------------------------------
(* Files. *)

\* std::string::resize and substr(0, size).
Resize(buf, size) ==
    [k \in 1 .. size |-> IF k <= Len(buf) THEN buf[k] ELSE Zero]
Prefix(buf, size) == SubSeq(buf, 1, IF size < Len(buf) THEN size ELSE Len(buf))

\* The branches are the wrong way round: a file that is too short is cut, which
\* leaves it as it is, and one that is too long is resized.
setattr(f, ino, size) ==
    LET buf == ec_get(f, ino)
    IN  IF Len(buf) = size THEN f
        ELSE ec_put(f, ino, IF Len(buf) < size THEN Prefix(buf, size) ELSE Resize(buf, size))

read(f, ino, size, off) ==
    LET buf == ec_get(f, ino)
    IN  IF Len(buf) <= off THEN << >>
        ELSE IF off + size >= Len(buf) THEN SubSeq(buf, off + 1, Len(buf))
        ELSE SubSeq(buf, off + 1, off + size)

\* Mutant: the string is resized to the offset even when it is longer.
WriteAlwaysResizes(f, ino, off, data) == ec_put(f, ino, Resize(ec_get(f, ino), off) \o data)

\* resize up to the offset, then std::string::replace(off, size, data).
write(f, ino, off, data) ==
    LET old == ec_get(f, ino)
        buf == IF off > Len(old) THEN Resize(old, off) ELSE old
    IN  ec_put(f, ino, SubSeq(buf, 1, off) \o data \o SubSeq(buf, off + Len(data) + 1, Len(buf)))

=============================================================================
