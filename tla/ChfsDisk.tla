------------------------------ MODULE ChfsDisk ------------------------------
(***************************************************************************)
(* chfs_client on top of the blocks of extent_server: what becomes of the  *)
(* names when a directory's content does not fit on the disk any more.     *)
(*                                                                         *)
(* ChfsClient and FuseServer take the extent service to store whatever it  *)
(* is given.  Here the methods that change directories make their extent   *)
(* calls on the block store: one step allocates or removes the inode, the  *)
(* next one gets and puts the directory.  The server runs one request at a *)
(* time, so nothing comes between the two.                                 *)
(*                                                                         *)
(* BLOCK_SIZE is 4, the length of an entry such as "3/a/" with an inum of  *)
(* one digit and a name of one letter: an entry is one piece, and a        *)
(* directory's content a sequence of pieces.                               *)
(***************************************************************************)
EXTENDS ExtentServer, Sequences

CONSTANTS
    Names,          \* names of one letter
    Bytes, Zero,    \* of ChfsClient, for the contents of files
    FileData,       \* what a file holds, a value to put
    FileSizes,      \* the sizes that write and setattr give to files
    StaleInums,     \* bound: the inums in entries that memory may still hold
    Parents,        \* bound: the inums that requests name as a directory
    MaxEntries      \* bound: the entries of a directory that create adds to

\* Four bytes without a slash.
Garbage == [inum |-> -1, name |-> "none"]

\* An entry, and what a directory's content consists of.
Entry == [inum : InodeNums, name : Names]
DirContents == UNION {[1 .. n -> Entry \cup {Garbage}] : n \in 0 .. MaxEntries}

ASSUME EntryAssumption ==
    /\ BLOCK_SIZE = 4 /\ INODE_NUM <= 9 /\ Parents \subseteq Inums
    /\ StaleInums \subseteq InodeNums /\ Garbage.name \notin Names /\ MaxEntries \in Nat

\* What the methods ask for is among what ExtentServer is asked for.
ASSUME CallerAssumption ==
    /\ DirContents \cup {FileData} \subseteq Values
    /\ {BLOCK_SIZE * n : n \in 0 .. MaxEntries} \cup FileSizes \subseteq Sizes
    /\ {"T_FILE", "T_DIR"} \subseteq NewTypes

C == INSTANCE ChfsClient

VARIABLES
    req,            \* the request in progress, after its first extent call
    table,          \* the files as the methods of ChfsClient leave them, while
                    \* no directory has lost anything
    lost            \* the put of a directory has lost a piece of its content

diskVars == <<imVars, req, table, lost>>

Idle == [op |-> "none"]

EmptyTable == [i \in Inums |-> IF i = 1 THEN [type |-> "T_DIR", data |-> << >>] ELSE C!NoFile]

DiskInit ==
    /\ Init
    /\ req = Idle
    /\ table = EmptyTable
    /\ lost = FALSE

-----------------------------------------------------------------------------
(* Directories as pieces of four bytes. *)

\* What the memory of a piece that read_file has not filled may hold: an entry
\* of a directory read earlier, or bytes without a slash.  (An old entry that
\* straddles two pieces is left out: entries and pieces have the same length.)
JunkReads == [inum : StaleInums, name : Names] \cup {Garbage}

\* The contents that get may return: the pieces found in the blocks, and one of
\* JunkReads where there is none.
Gets(d) ==
    LET content == Content(d)
        piece(k) == IF content[k - 1] = Junk THEN JunkReads
                    ELSE {content[k - 1].val[content[k - 1].idx + 1]}
        n == Cardinality(DOMAIN content)
        pieces == UNION {piece(k) : k \in 1 .. n}
    IN  {c \in [1 .. n -> pieces] : \A k \in 1 .. n : c[k] \in piece(k)}

\* The slash-terminated fields of a content.  Bytes without a slash run on into
\* the inum of the next entry, which is then not a number; at the end they are
\* a field that is left over.
FieldsOf(c) ==
    LET inum(k) == IF k > 1 /\ c[k - 1] = Garbage THEN 0 ELSE c[k].inum
        read == [k \in DOMAIN c |-> [inum |-> inum(k), name |-> c[k].name]]
    IN  C!Fields(C!Without(read, Garbage.name))
        \o IF c # << >> /\ c[Len(c)] = Garbage THEN <<Garbage>> ELSE << >>

\* The files as a request sees them that has read c in directory d.
View(d, c) ==
    [i \in Inums |-> [type |-> Attr(i).type, data |-> IF i = d THEN FieldsOf(c) ELSE << >>]]

Dirs == {i \in Parents : Attr(i).type = "T_DIR"}

\* Mutant: a content that does not fit leaves the directory empty.
PutDirOrClear(d, c) ==
    LET fits == Cardinality(Missing(d, BLOCK_SIZE * Len(c))) <= Cardinality(FreeBlocks)
    IN  /\ IF fits THEN write_file(d, BLOCK_SIZE * Len(c), c) ELSE write_file(d, 0, << >>)
        /\ lost' = (lost \/ ~ fits)

\* put of a directory's content.
PutDir(d, c) ==
    /\ write_file(d, BLOCK_SIZE * Len(c), c)
    /\ lost' = (lost \/ Damaged(d)')

Keep(new) == table' = IF lost' THEN EmptyTable ELSE new

-----------------------------------------------------------------------------
(* create and mkdir, then unlink.  A request that is refused changes nothing. *)

NewType == [create |-> "T_FILE", mkdir |-> "T_DIR"]

begin_create(op, parent, name) ==
    /\ status = "up" /\ req = Idle
    /\ Attr(parent).size < MaxEntries * BLOCK_SIZE
    /\ \E c \in Gets(parent) : C!CreateCheck(View(parent, c), parent, name) = "OK"
    /\ alloc_inode(NewType[op])
    /\ req' = [op |-> op, parent |-> parent, name |-> name, ino |-> AllocInum]
    /\ UNCHANGED <<table, lost>>

\* Mutant: the new entry replaces the last one.
FinishCreateReplaces ==
    /\ status = "up" /\ req.op \in {"create", "mkdir"}
    /\ \E d \in {req.parent} : \E c \in Gets(d) :
          PutDir(d, Append(SubSeq(c, 1, Len(c) - 1), [inum |-> req.ino, name |-> req.name]))
    /\ Keep(IF req.op = "create" THEN C!create(table, req.parent, req.name, req.ino)
            ELSE C!mkdir(table, req.parent, req.name, req.ino))
    /\ req' = Idle

finish_create ==
    /\ status = "up" /\ req.op \in {"create", "mkdir"}
    /\ \E d \in {req.parent} : \E c \in Gets(d) :
          PutDir(d, Append(c, [inum |-> req.ino, name |-> req.name]))
    /\ Keep(IF req.op = "create" THEN C!create(table, req.parent, req.name, req.ino)
            ELSE C!mkdir(table, req.parent, req.name, req.ino))
    /\ req' = Idle

begin_unlink(parent, name) ==
    /\ status = "up" /\ req = Idle
    /\ \E c \in Gets(parent) :
          LET ino == C!lookup(View(parent, c), parent, name).ino
          IN  /\ C!UnlinkCheck(View(parent, c), parent, name) = "OK"
              /\ remove_file(ino)
              /\ req' = [op |-> "unlink", parent |-> parent, name |-> name, ino |-> ino]
    /\ UNCHANGED <<table, lost>>

\* Mutant: the loop over the entries passes over the first one.
FinishUnlinkSkipsFirst ==
    /\ status = "up" /\ req.op = "unlink"
    /\ \E d \in {req.parent} : \E c \in Gets(d) :
          LET dir == C!readdir(View(d, c), d)
          IN  IF dir.r # "OK" \/ dir.list = << >> THEN UNCHANGED <<imVars, lost>>
              ELSE PutDir(d, <<Head(dir.list)>> \o C!Without(Tail(dir.list), req.name))
    /\ Keep(C!unlink(table, req.parent, req.name))
    /\ req' = Idle

\* The directory is read again.  When it cannot be parsed this time, the extent
\* is gone and the name stays.
finish_unlink ==
    /\ status = "up" /\ req.op = "unlink"
    /\ \E d \in {req.parent} : \E c \in Gets(d) :
          LET dir == C!readdir(View(d, c), d)
          IN  IF dir.r = "OK" THEN PutDir(d, C!Without(dir.list, req.name))
              ELSE UNCHANGED <<imVars, lost>>
    /\ Keep(C!unlink(table, req.parent, req.name))
    /\ req' = Idle

\* write and setattr give a file another size; its bytes do not matter here.
resize_file(i, size) ==
    /\ status = "up" /\ req = Idle
    /\ Attr(i).type = "T_FILE"
    /\ write_file(i, size, FileData)
    /\ UNCHANGED <<req, table, lost>>

DiskNext ==
    \/ \E op \in {"create", "mkdir"}, parent \in Dirs, name \in Names :
          begin_create(op, parent, name)
    \/ finish_create
    \/ \E parent \in Dirs, name \in Names : begin_unlink(parent, name)
    \/ finish_unlink
    \/ \E i \in Inums, size \in FileSizes : resize_file(i, size)

DiskSpec == DiskInit /\ [][DiskNext]_diskVars

-----------------------------------------------------------------------------
(* Properties. *)

\* The blocks hold no other kinds of content than in ExtentServer, and a request
\* in progress is about a directory.
DiskTypeOK ==
    /\ TypeOK
    /\ req # Idle => req.parent \in Inums /\ req.ino \in 0 .. INODE_NUM
    /\ lost \in BOOLEAN

\* The entries in the pieces before the first one that is lost or is no entry.
Readable(d) ==
    LET content == Content(d)
        entry(k) == content[k].val[content[k].idx + 1]
    IN  {entry(k) : k \in {k \in DOMAIN content :
            \A j \in 0 .. k : content[j] # Junk /\ entry(j) # Garbage}}

\* Until a directory loses a piece, the blocks hold the very files that the
\* methods of ChfsClient compute: the properties of FuseServer, which rest on
\* those, are properties of the server on its disk.
BlocksHoldTheTable ==
    status = "up" /\ req = Idle /\ ~ lost =>
        \A i \in Inums :
            /\ Attr(i).type = table[i].type
            /\ i \in Dirs => \A c \in Gets(i) : FieldsOf(c) = table[i].data

\* A create or mkdir that says OK leaves a name that can be looked up, unless
\* every data block is in use, or the directory is larger than an inode can
\* describe, or the directory had been damaged before.
NameLostOnlyWhenFull ==
    [][\A d \in Dirs :
          status' = "up" /\ req.op \in {"create", "mkdir"} /\ req.parent = d /\ req' = Idle =>
             \/ [inum |-> req.ino, name |-> req.name] \in Readable(d)'
             \/ using_blocks' = DataBlocks
             \/ Attr(d).size' > MAXFILE * BLOCK_SIZE
             \/ lost]_diskVars

\* Damage does not spread: the entries in front of it outlive every request on a
\* full disk, those that rewrite the damaged directory included, until they are
\* unlinked by name.
ReadableEntriesSurvive ==
    [][status' = "up" =>
          \A d \in Dirs : \A e \in Readable(d) :
              \/ d \in Dirs' /\ e \in Readable(d)'
              \/ req.op = "unlink" /\ req.parent = d /\ req.name = e.name]_diskVars

\* Nothing of the directory is lost, and nothing in it fails to be an entry.
Intact(d) ==
    LET content == Content(d)
    IN  \A k \in DOMAIN content :
            content[k] # Junk /\ content[k].val[content[k].idx + 1] # Garbage

FreeInums == {i \in Inums : ~ Exists(i)}

\* create and mkdir, which say OK even when the extent service has handed them
\* inum 0, add no name without a file to an intact directory while two inodes
\* are free: whatever inums have been used, freed and passed over before.
NewEntryHasFile ==
    [][status' = "up" =>
          \A d \in Dirs : Intact(d) =>
              \A e \in Readable(d)' \ Readable(d) :
                  Exists(e.inum)' \/ (e.inum = 0 /\ Cardinality(FreeInums) <= 1)]_diskVars

\* unlink, which has removed the extent when it reads the directory again, takes
\* the name out of every intact directory, and leaves it intact on a full disk
\* too: a name that stays without its file was in a damaged directory.
UnlinkTakesTheName ==
    [][\A d \in Dirs :
          status' = "up" /\ req.op = "unlink" /\ req.parent = d /\ req' = Idle /\ Intact(d) =>
             Intact(d)' /\ \A e \in Readable(d)' : e.name # req.name]_diskVars

-----------------------------------------------------------------------------
(* What the comments of the code say, and the code does not do. *)

\* The comment of createhelper asks create to pick an ino that indicates a file.
PickedInoIsAFile == req # Idle /\ req.op = "create" => Attr(req.ino).type = "T_FILE"

=============================================================================
