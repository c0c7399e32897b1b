----------------------------- MODULE ExtentStore -----------------------------
(***************************************************************************)
(* What the extent service promises its callers: a table of files, each    *)
(* with a type, a size and a content cut into blocks.  There are no blocks *)
(* to allocate, no pointers and no bitmap here.  The promise is qualified  *)
(* in the ways the implementation needs: a put may lose a suffix of what   *)
(* it was given, a create may give up with one inum left, and an operation *)
(* on a file that has lost bytes may be the last one of the process.       *)
(***************************************************************************)
EXTENDS Integers, FiniteSets

CONSTANTS
    Inums,          \* the inums of files
    Types,          \* the types of files
    Sizes, Values,  \* what put is given
    Lost,           \* the mark of a block whose bytes were lost
    Cut(_)          \* the number of blocks of a string of a given size

VARIABLES
    files,          \* the file of each inum
    alive           \* the process is running

storeVars == <<files, alive>>

Absent == [type |-> "0", size |-> 0, data |-> << >>]
Empty(type) == [type |-> type, size |-> 0, data |-> << >>]

Present == {i \in Inums : files[i].type # "0"}

\* The content of size bytes of v of which the blocks from c on are lost.
Stored(size, v, c) ==
    [k \in 1 .. Cut(size) |-> IF k <= c THEN [val |-> v, idx |-> k - 1] ELSE Lost]

Damaged(file) == \E k \in DOMAIN file.data : file.data[k] = Lost

\* The process starts with the root directory alone, or not at all.
Init ==
    \/ alive = TRUE /\ files = [i \in Inums |-> IF i = 1 THEN Empty("T_DIR") ELSE Absent]
    \/ alive = FALSE /\ \E r \in Inums \cup {0} :
          files = [i \in Inums |-> IF i = r THEN Empty("T_DIR") ELSE Absent]

\* What can become of one file.
Created(old, new) == old = Absent /\ \E type \in Types : new = Empty(type)

\* All of the content is replaced.
Replaced(old, new) ==
    /\ old.type # "0" /\ new.type = old.type
    /\ \E size \in Sizes, v \in Values : \E c \in 0 .. Cut(size) :
          new.size = size /\ new.data = Stored(size, v, c)

Removed(old, new) == old.type # "0" /\ new = Absent

\* Every operation changes one file and leaves the others as they are.
Change ==
    /\ alive
    /\ \E i \in Inums :
          /\ \/ Created(files[i], files'[i])
             \/ Replaced(files[i], files'[i])
             \/ Removed(files[i], files'[i])
          /\ \A j \in Inums \ {i} : files'[j] = files[j]
    /\ UNCHANGED alive

\* Only a file that has lost bytes can bring the process down.
Die ==
    /\ alive
    /\ \E i \in Present : Damaged(files[i])
    /\ alive' = FALSE
    /\ UNCHANGED files

Next == Change \/ Die

Spec == Init /\ [][Next]_storeVars

=============================================================================
