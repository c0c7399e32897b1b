----------------------------- MODULE FuseServer -----------------------------
(***************************************************************************)
(* fuse.cc: the handlers that the kernel's requests reach, one at a time   *)
(* (fuse_session_loop), on top of chfs_client.                             *)
(*                                                                         *)
(* The kernel is outside the code.  It sends what it can refer to: inums   *)
(* that a reply has given it, with the kind it was told, which it keeps    *)
(* while a file is open even if the name is gone, and drops when a reply   *)
(* gives the inum another kind.  An entry with inum 0 is an error to it.   *)
(***************************************************************************)
EXTENDS ChfsClient

CONSTANTS
    MaxLen          \* bound on the length of files

ASSUME FuseAssumption == MaxLen \in Nat \ {0}

VARIABLES
    files,          \* the files of the extent service
    known,          \* the kind of each inum, as the kernel knows it
    reply           \* the last reply sent to the kernel

vars == <<files, known, reply>>

Modes == {"S_IFREG", "S_IFDIR", "S_IFLNK"}

\* Mutant: getattr without its branch for links.
StatNoLinks(f, ino) ==
    LET mode == IF isdir(f, ino) THEN "S_IFDIR" ELSE "S_IFREG"
    IN  [mode |-> mode, size |-> IF mode = "S_IFDIR" THEN 0 ELSE Len(ec_get(f, ino))]

\* getattr: what is neither a file nor a directory is a link, even nothing.
Stat(f, ino) ==
    LET mode == IF isfile(f, ino) THEN "S_IFREG"
                ELSE IF isdir(f, ino) THEN "S_IFDIR" ELSE "S_IFLNK"
    IN  [mode |-> mode, size |-> IF mode = "S_IFDIR" THEN 0 ELSE Len(ec_get(f, ino))]

\* A reply keeps the error code and, where a property looks at them, the inum
\* of the request and the sizes asked for and reported.  What else it carries
\* shows in what the kernel learns from it.
Reply(op, err) == [op |-> op, err |-> err, ino |-> 0, asked |-> 0, size |-> 0]

LearnEntry(ino, mode) == IF ino = 0 THEN known ELSE [known EXCEPT ![ino] = mode]
LearnAttr(ino, mode) ==
    IF known[ino] = mode THEN known ELSE [known EXCEPT ![ino] = "none"]

KnownAs(mode) == {i \in Inums : known[i] = mode}

Init ==
    /\ files = [i \in Inums |-> IF i = 1 THEN [type |-> "T_DIR", data |-> << >>] ELSE NoFile]
    /\ known = [i \in Inums |-> IF i = 1 THEN "S_IFDIR" ELSE "none"]
    /\ reply = Reply("init", "0")

-----------------------------------------------------------------------------
(* Names. *)

Errno(r) == IF r = "EXIST" THEN "EEXIST" ELSE "ENOENT"

\* The common course of create, mknod, mkdir and symlink: new(ino) is the file
\* table when the extent service hands out ino.
Entry(op, parent, name, new(_)) ==
    LET r == CreateCheck(files, parent, name)
    IN  \/ /\ r = "OK"
           /\ \E ino \in Creatable(files) :
                 /\ files' = new(ino)
                 /\ known' = LearnEntry(ino, Stat(files', ino).mode)
                 /\ reply' = Reply(op, "0")
        \/ /\ r # "OK"
           /\ reply' = Reply(op, Errno(r))
           /\ UNCHANGED <<files, known>>

\* mknod runs the same code.
fuseserver_create(parent, name) ==
    LET new(ino) == create(files, parent, name, ino)
    IN  Entry("create", parent, name, new)

fuseserver_mkdir(parent, name) ==
    LET new(ino) == mkdir(files, parent, name, ino)
    IN  Entry("mkdir", parent, name, new)

fuseserver_symlink(parent, name, link) ==
    LET new(ino) == create_symbolic_link(files, parent, <<link>>, name, ino)
    IN  Entry("symlink", parent, name, new)

fuseserver_lookup(parent, name) ==
    LET hit == lookup(files, parent, name)
    IN  /\ IF hit.found
           THEN /\ known' = LearnEntry(hit.ino, Stat(files, hit.ino).mode)
                /\ reply' = Reply("lookup", "0")
           ELSE /\ reply' = Reply("lookup", "ENOENT")
                /\ UNCHANGED known
        /\ UNCHANGED files

\* The entries are sent to the kernel, which does not take inums from them.
fuseserver_readdir(ino) ==
    /\ reply' = Reply("readdir", IF isdir(files, ino) THEN "0" ELSE "ENOTDIR")
    /\ UNCHANGED <<files, known>>

\* Every refusal that is not a missing name is ENOTEMPTY.
fuseserver_unlink(parent, name) ==
    LET r == UnlinkCheck(files, parent, name)
        err == IF r = "OK" THEN "0" ELSE IF r = "NOENT" THEN "ENOENT" ELSE "ENOTEMPTY"
    IN  /\ files' = IF r = "OK" THEN unlink(files, parent, name) ELSE files
        /\ reply' = [Reply("unlink", err) EXCEPT !.ino = lookup(files, parent, name).ino]
        /\ UNCHANGED known

-----------------------------------------------------------------------------
(* Files. *)

fuseserver_getattr(ino) ==
    /\ known' = LearnAttr(ino, Stat(files, ino).mode)
    /\ reply' = Reply("getattr", "0")
    /\ UNCHANGED files

\* A size change; every other change is refused with ENOSYS and changes nothing.
fuseserver_setattr(ino, size) ==
    /\ files' = setattr(files, ino, size)
    /\ known' = LearnAttr(ino, Stat(files', ino).mode)
    /\ reply' = [Reply("setattr", "0") EXCEPT
                    !.ino = ino, !.asked = size, !.size = Stat(files', ino).size]

\* The reply carries read(files, ino, size, off).
fuseserver_read(ino) ==
    /\ reply' = [Reply("read", "0") EXCEPT !.ino = ino]
    /\ UNCHANGED <<files, known>>

fuseserver_write(ino, off, data) ==
    /\ files' = write(files, ino, off, data)
    /\ reply' = Reply("write", "0")
    /\ UNCHANGED known

fuseserver_readlink(ino) ==
    /\ reply' = Reply("readlink", IF issymlink(files, ino) THEN "0" ELSE "ENOENT")
    /\ UNCHANGED <<files, known>>

Strings == {<<b>> : b \in Bytes} \cup {<<b, c>> : b \in Bytes, c \in Bytes}

Next ==
    \/ \E parent \in KnownAs("S_IFDIR"), name \in Names :
          \/ fuseserver_create(parent, name)
          \/ fuseserver_mkdir(parent, name)
          \/ \E link \in Bytes : fuseserver_symlink(parent, name, link)
          \/ fuseserver_lookup(parent, name)
          \/ fuseserver_unlink(parent, name)
    \/ \E ino \in KnownAs("S_IFDIR") : fuseserver_readdir(ino)
    \/ \E ino \in Inums : known[ino] # "none" /\ fuseserver_getattr(ino)
    \/ \E ino \in KnownAs("S_IFREG") :
          \/ \E size \in 0 .. MaxLen : fuseserver_setattr(ino, size)
          \/ fuseserver_read(ino)
          \/ \E off \in 0 .. MaxLen, data \in Strings :
                off + Len(data) <= MaxLen /\ fuseserver_write(ino, off, data)
    \/ \E ino \in KnownAs("S_IFLNK") : fuseserver_readlink(ino)

Spec == Init /\ [][Next]_vars

-----------------------------------------------------------------------------
(* Properties. *)

Live == Inums \ Absent(files)
EntriesOf(d) == ToSet(readdir(files, d).list)
Dirs == {i \in Live : isdir(files, i)}

\* Directories hold pairs of an inum and a name, files and links hold bytes.
TypeOK ==
    /\ \A i \in Inums :
          \/ files[i] = NoFile
          \/ files[i].type = "T_DIR" /\ readdir(files, i).r = "OK"
             /\ \A e \in EntriesOf(i) : e.inum \in 0 .. INODE_NUM /\ e.name \in Names
          \/ files[i].type \in {"T_FILE", "T_SYMBOLIC"}
             /\ files[i].data \in BoundedSeq(Bytes \cup {Zero}, MaxLen)
    /\ known \in [Inums -> Modes \cup {"none"}]
    /\ reply.ino \in 0 .. INODE_NUM /\ reply.size \in 0 .. MaxLen

\* The places of the entries with an inum other than 0, and these inums.
Links == UNION {LET list == readdir(files, d).list
                IN  {<<d, k>> : k \in {k \in DOMAIN list : list[k].inum # 0}} : d \in Dirs}
Target(l) == readdir(files, l[1]).list[l[2]].inum

\* The namespace and the inode table agree: an entry leads to a live file, and
\* every live file but the root has exactly one entry.  create, mkdir, symlink
\* and unlink each change an inode and a directory in separate extent calls.
LinkedOnce ==
    /\ \A l \in Links : Target(l) \in Live \ {1}
    /\ \A i \in Live \ {1} : \E l \in Links : Target(l) = i
    /\ \A l, m \in Links : Target(l) = Target(m) => l = m

\* A directory has one entry of a name, so that lookup and readdir agree and an
\* unlink removes one entry.
NamesUnique ==
    \A d \in Dirs : \A j, k \in DOMAIN readdir(files, d).list :
        readdir(files, d).list[j].name = readdir(files, d).list[k].name => j = k

\* Every live file can be reached from the root: no directory is cut off with
\* what it holds.
Connected ==
    \A S \in SUBSET Live :
        1 \in S /\ (\A d \in S \cap Dirs : \A e \in EntriesOf(d) : e.inum \in Live => e.inum \in S)
           => S = Live

\* An entry goes only by an unlink of its name, and its file goes with it.
EntriesPersist ==
    [][\A d \in Dirs : \A e \in EntriesOf(d) :
          e \notin EntriesOf(d)' =>
             reply'.op = "unlink" /\ reply'.ino = e.inum /\ e.inum \notin Live']_vars

\* Inums are used again with generation 0, and the kernel may hold an inum whose
\* file is gone: write and setattr, which look at no type, still never change a
\* directory or a link, neither the one they were meant for nor a later one.
WritesReachFiles ==
    [][reply'.op \in {"write", "setattr"} =>
          \A i \in Inums : files'[i] # files[i] => isfile(files, i) /\ isfile(files', i)]_vars

\* The string surgery of write, against what a write is: the bytes of the data
\* at their offsets, the old bytes elsewhere, zeros in the gap.
WriteIsOverlay ==
    \A i \in Live \ Dirs : \A off \in 0 .. MaxLen, data \in Strings :
        LET old == files[i].data
            new == write(files, i, off, data)[i].data
        IN  /\ Len(new) = IF off + Len(data) > Len(old) THEN off + Len(data) ELSE Len(old)
            /\ \A k \in 1 .. Len(new) :
                  new[k] = IF k > off /\ k <= off + Len(data) THEN data[k - off]
                           ELSE IF k <= Len(old) THEN old[k] ELSE Zero
            /\ read(write(files, i, off, data), i, Len(data), off) = data

-----------------------------------------------------------------------------
(* What the comments and the README say, and the code does not do. *)

\* A change of size gives the file that size, padding it with zeros.
SetattrSetsSize == reply.op = "setattr" /\ reply.ino \in Live => reply.size = reply.asked

\* unlink removes whatever is not a directory.
UnlinkRemovesLinks ==
    reply.op = "unlink" /\ reply.ino \in Live => isdir(files, reply.ino)

=============================================================================
