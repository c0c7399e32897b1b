# ChFS: a TLA+ development

ChFS is a small FUSE file system. The kernel's requests reach the handlers of
`fuse.cc`; they call `chfs_client`, which keeps directories, files and symbolic
links as *extents*; an extent is a file of `extent_server`, which stands on
`inode_manager` (inodes), `block_manager` (a map of used blocks) and `disk` (an
array of blocks in memory). In this commit all layers are linked into one
process: `extent_client` holds an `extent_server` object and calls it directly,
and `fuse_session_loop` serves one request at a time. Nothing is persisted: the
disk is memory, so a restart starts from nothing and there is no crash recovery
to model.

Beside the file system the repository carries an RPC library, for which
`extent_smain.cc` is a main program: a bounded queue, a thread pool and the
templates that marshal calls are source, in headers; connections, sending and
waiting are the binary `librpc.a`. The default build links it without making a
call. Here there is concurrency, and there are messages that get lost.

## Inventory

| component | state | operations | what makes it correct |
|---|---|---|---|
| `disk`, `block_manager` | `blocks`, `using_blocks` | `alloc_block`, `free_block`, `is_valid_block`, `read_block`, `write_block` | only data blocks are handed out, none twice; a block that is freed is in use |
| `inode_manager` | inodes on the disk, `_last_alloced` | constructor, `alloc_inode`, `write_file`, `read_file`, `get_attr`, `remove_file` | files do not share blocks; a read gives what was written; nothing is lost, leaked or read out of bounds |
| `extent_server`, `extent_client` | the `inode_manager` | `create`, `put`, `get`, `getattr`, `remove` | a table of files |
| `chfs_client` | none of its own: directory contents `inum/name/inum/name/` in extents | `lookup`, `readdir`, `create`, `mkdir`, `create_symbolic_link`, `unlink`, `read`, `write`, `setattr`, `parse_symbolic_link` | names and inodes stay in step, names are unique, the tree is connected |
| `fuse.cc` | none | one handler per request | requests for stale inums do no harm; replies tell the kernel the truth |
| `rpc/fifo.h`, `slock.h` | a list, a mutex, two condition variables | `enq` (blocking or not), `deq` | no element and no place is left over while threads sleep; an atomic queue |
| `rpc/thr_pool.h` | the queue, worker threads, a wrapper for each job | `addObjJob`, the worker's loop, the destructor | accepted jobs run once, the destructor returns, nothing is used after its deletion |
| `rpc/marshall.h`, `rpc.h`, `extent_smain.cc` | buffers, calls in progress, registered handlers | `call`, `call_m`, `reg` and its handlers | methods get their call's arguments, callers their method's result |
| `librpc.a`, `connection.h`, `pollmgr.h` | connections | sending, waiting | external |

In the file system what is hard is not concurrency but long sequences of legal
calls against limits: the disk runs full inside a put, the inodes run out, sizes
cross block boundaries in both directions, calls that have failed say OK, and
inums are used again while the kernel still holds them. In the RPC library it is
the interleaving of threads around one mutex, wake-ups that reach the wrong
thread, destruction while threads are at work, and replies that come too late or
not at all. `PROJECT.json` lists these hazards at their lines.

## Modules

| module | models | notes |
|---|---|---|
| `BlockManager` | disk and block layer | operators; the variables `disk` and `using_blocks` |
| `InodeManager` | inode layer | extends it with `last_alloced` and `status` |
| `ExtentServer` | `extent_server.cc`, `extent_client.cc` | the specification: one action per call; properties |
| `ExtentStore` | nothing: the abstract specification | a table of files, implemented by `ExtentServer` |
| `ExtentServerProofs` | | theorems: types, pointers, blocks not shared; the shape of a file's pointers: reads in bounds, leaks, the scan for inodes |
| `ExtentStoreProofs` | | theorems: what a get returns; the refinement of `ExtentStore` |
| `Counting` | | lemmas about ranks in finite sets of numbers |
| `MCExtentServer` | | instance for TLC |
| `ChfsClient` | `chfs_client.cc` | operators on a table of files |
| `FuseServer` | `fuse.cc` and the kernel's view | the specification: one action per handler; properties |
| `FuseServerProofs` | | theorems about the namespace and about writes |
| `MCFuseServer` | | instance for TLC |
| `ChfsDisk` | `chfs_client.cc` on `extent_server.cc` | composes `ExtentServer` and `ChfsClient`: directories in blocks |
| `ChfsDiskProofs` | | theorems about directories in blocks |
| `MCChfsDisk` | | instance for TLC |
| `BoundedQueue` | nothing: the abstract specification | an atomic queue, implemented by `Fifo` |
| `Fifo` | `rpc/fifo.h`, `rpc/slock.h` | the specification of threads that share a queue; properties |
| `FifoProofs` | | theorems about `Fifo` |
| `ThrPool` | `rpc/thr_pool.h` | extends `Fifo` by clients, workers and an owner |
| `ThrPoolProofs` | | theorems about `ThrPool` |
| `MCFifo`, `MCThrPool` | | instances for TLC |
| `Marshall` | `rpc/marshall.h`, operators of `extent_protocol.h` | operators on buffers |
| `Rpc` | templates of `rpc/rpc.h`, `extent_smain.cc` | client, server and the network between them |
| `RpcProofs` | | theorems about calls, and lemmas on what is put into a buffer and got back |
| `MCRpc` | | instance for TLC: the call sites |

### Blocks and inodes

`using_blocks` is the set of ids that the map holds as 1. A block is a record
with a `kind`: zero bytes, an inode, an array of block ids, or a piece of a
string (which string, which block of it, and how many bytes of the block belong
to it). `write_file` and `remove_file` are loops over pointers; the model numbers
the pointers of an inode as *slots* in the order the loops meet them (direct
pointers, the indirect block, the ids in it) and says which slots a loop
reaches:

* `Written`, `Missing`, `Filled`: the two filling loops, with the block each
  failing or succeeding `alloc_block` returns, in order;
* `FreedDirect`, `FreesIndirect`, `FreedIndirect`: the freeing loops, which stop
  at a pointer that is not valid;
* `WriteDisk`, `Kept`: the disk and the pointers when the call returns. A block
  whose allocation failed goes to block 0, as in the code;
* `RemovedDirect`, `RemovedIndirect`: the loops of `remove_file`, the count of
  ids by `strlen` included (`NonzeroBytes`).

`status` says what has become of the process. An `assert` that fails makes it
`"aborted"`, the constructor's `exit(0)` makes it `"exited"`, and an access out
of the bounds of a heap buffer makes it `"corrupt"`; the model stops there
because the behaviour of the program is no longer defined. `_last_alloced` is
read uninitialised by the constructor, so `imInit` chooses any 32-bit value.
A last block that is partial is also written straight from the caller's string,
past its end (`inode_manager.cc:339`); these bytes lie after the end of the file
and the model does not keep them.

### Names and requests

`ChfsClient` works on the table of files that `ExtentStore` describes, taken to
store everything it is given (no full disk) and to hand back inum 0 only when at
most one inum is free, which is the property `CreateUsesInodes` of the layer
below. Directory contents are sequences of fields, so the pairing of inums and
names that `readdir` recovers is modelled and not assumed.

`FuseServer` has one action per handler. The kernel is external: `known` is what
it has been told about inums. It sends requests for inums it knows and of the
kind that it was told, also for files that have been unlinked meanwhile. The
`.` and `..` check of `mkdir` is left out, because the kernel never sends them.

### Names on a full disk

`ChfsDisk` drops the assumption that the extent service stores everything.
`create`, `mkdir` and `unlink` make their extent calls on the blocks of
`ExtentServer`, in two steps: the first ends with the call that allocates or
removes the inode, the second reads and rewrites the directory. Files take part
as what fills the disk (`resize_file`), and links are left to `FuseServer`. A
block has the size of one entry, so that a put that gets too few blocks loses
whole entries; `read_file` leaves the part of its buffer for which there is no
block as `malloc` gave it, and `Gets` lets each piece of it hold an old entry or
bytes without a slash (`JunkReads`; an old entry across two pieces is left out). `table` is what the methods of `ChfsClient` say the files
are, and `BlocksHoldTheTable` compares the blocks with it until the first loss:
that is what carries the results of `FuseServer` over to the disk.
`CallerAssumption` says that what the methods put (contents of directories, the one
content `FileData` of files, sizes in blocks or among `FileSizes`) is among the values
and sizes of `ExtentServer`, and `EntryAssumption` that blocks and inums fit the
entries.

### The queue and the pool

The mutex of `fifo` is held from the first statement of a call to the last but
inside `pthread_cond_wait`, so the steps of `Fifo` are the stretches between
getting and giving back the mutex: `enq_push`, `enq_wait`, `enq_refuse`,
`deq_pop` and `deq_wait`. `non_empty_c_` and `has_space_c_` are the threads that
wait there. A signal takes any one of them out, a spurious wake-up too, and a
thread that is out competes for the mutex with new callers, which may take what
it was woken for. `size` only reads and is left out.

`ThrPool` adds the clients, whose `addObjJob` allocates a wrapper and calls
`enq`; the workers, which `deq`, test for a job without a function and run
`objfunc_wrapper::func`; and the owner, whose destructor adds one job without a
function for each worker, joins them and destroys the queue. `addJob`, `takeJob`,
the worker's loop and the destructor are in `librpc.a`. That nobody adds a job to
a pool that is being destroyed is up to the owner and is a guard.

### Calls

A buffer of `Marshall` is a sequence of bytes: room for the header, then the
values, with nothing that says of which type they are. `Rpc` puts the arguments
of a call into one, overlays the header, and takes both apart again on the other
side. `pack`, `unpack` and `okdone` are in `librpc.a`; so is everything between
the two sides, modelled as a set of messages that are lost (`lose`), overtake
each other, or come after the `timeout` of their call. `procs_` are the four
handlers that `extent_smain.cc` registers, with small numbers for
`0x6001`..., and two more with vectors and maps of ints, which `marshall.h` offers
and those do not use. `bool`, `char` and `short` are not modelled, nor are containers
of other elements: their operators are declarations (the code is in `librpc.a`) or the
templates that are modelled, and no registered method has them. The types of a call are those at the call site. The
client is one made with `retrans = false` (`rpc.h:85`): its requests carry nonce 0
and are sent once. Those with another nonce are sent again, and meet the duplicate
check `rpcs::checkduplicate_and_update`, of which there is no source. Its code in
`librpc.a` (`objdump -dC` of `rpc.o`) takes the lock of the window, loads the constant
3, which is `FORGOTTEN` (`rpc.h:268-273`), and returns: each of these requests is
refused, the first copy included, and no method runs.
`RPC_CHECKSUMMING` is not defined in the build.

`CallAssumption` is what the C++ types guarantee: calls are numbered with ints, and
what a call site or a method hands over is a value of its type, of a length that an
`int` can hold. `MethodGetsArguments` asks for the very arguments where the types
agree, and for the same bytes where they do not. A map is the exception to the bytes:
pairs with a key that came before are dropped by `operator>>`, so that a map may put
fewer bytes than it was read from.

## Runs

| run | checks | instance |
|---|---|---|
| `blocks` | `TypeOK`, `PointersInUse`, `NoSharing`, `ReadInBounds`, `LeakOnlyByRemove`, `LossOnlyWhenFull`, `StoreSpec` | 2 direct and 2 indirect pointers, 3 inodes, 5 data blocks, two contents, sizes 0, 20 (a partial block behind the indirect pointer) and 33 (one byte more than a file can hold) |
| `namespace` | `TypeOK`, `LinkedOnce`, `NamesUnique`, `Connected`, `WriteIsOverlay`, `EntriesPersist`, `WritesReachFiles` | 3 inums, 2 names, contents of up to 3 bytes over one byte and zero |
| `full_disk` | `DiskTypeOK`, `BlocksHoldTheTable`, `CreateUsesInodes`, `ReadableEntriesSurvive`, `NameLostOnlyWhenFull`, `NewEntryHasFile`, `UnlinkTakesTheName` | 1 direct and 1 indirect pointer, 4 data blocks, 4 inodes, one directory of up to 3 entries, 3 names, files of two blocks |
| `fifo` | `TypeOK`, `NoLostElement`, `NoLostSpace`, `NonBlockingReturns`, `QueueSpec` | a queue of 2, 3 threads in `enq`, 2 in `deq`, 2 items |
| `pool` | `PoolTypeOK`, `FifoUnusedWhenDeleted`, `AcceptedJobsRan`, `WrapperLifetime`, `AcceptedJobsRun`, `DestructorReturns` | a queue of 1, 2 clients, 2 workers, 3 jobs, blocking or not |
| `rpc` | `TypeOK`, `MethodGetsArguments`, `ResultIsOfThisCall`, `FailureTouchesNothing`, `AbortMeansWrongReturnType` | 2 calls at once of 9 call sites, 4 of them with wrong types; bytes of 2 values |

The bounds are chosen so that every branch happens: two full files do not fit on
the disk, so allocations fail at every slot; sizes lie on both sides of the
direct/indirect boundary and of the maximal size, off a block boundary in `blocks`
and on every one in `full_disk`; three inums are enough
for a directory in a directory, for reuse of an inum that the kernel still holds
and for exhaustion; with the four of `full_disk` the scan of `alloc_inode` also
gives up while one inode is free (`CreateUsesInodes`). The 32-bit and 31-bit widths
are the constants `UINT_LIMIT` and `ID_LIMIT`. `MaxLen` bounds file contents; `MaxEntries`, `Parents` and `StaleInums`
bound the directories of `full_disk`, whose three entries exceed both what is
left of the disk and what an inode can describe. More threads than places on one
side of the queue, and a free place with a second thread asleep on the other,
need three callers of `enq` and a queue of two; the pool's queue of one makes its
destructor wait. Four bytes of two values hold the numbers up to 15, which is
enough for the header fields and the values that the call sites use. `MCBlocks`
and `MCFullDisk` switch off the deadlock check, because a process that has
aborted or exited has really stopped, and so does `MCRpc`, whose calls come to
an end; in the others deadlock is checked.

### Fairness

The file system is sequential, each request runs to its end, and whether there is
a next one is up to the kernel: no fairness that the code guarantees, no progress
that it promises, and only safety properties. In `Fifo` and `ThrPool` a thread
that can take its turn with the mutex does so in the end (weak fairness of each
thread's turn): the mutex is held for a few statements at a time and never while
waiting, and the scheduler of the system is fair to threads that can run. In the
pool the methods that jobs call are taken to return. Nothing is assumed that would
make a thread call, wake up spuriously, or be the one that a signal chooses, and no
client has to add a job or the owner to destroy the pool. That is enough for
`QueueSpec`, which includes the fairness of `BoundedQueue`: somebody is served
whenever somebody can be. It is not enough for every single thread, and the code
does not promise it: a sleeper can be overtaken for ever by new callers.

What the passing runs show, in words: files never share a block and no pointer
dangles; a put never loses track of a block; bytes are lost only on a full disk
or above the maximal size; every call is one operation on one file of a table;
the inode table and the namespace agree after every request, even when inodes
run out; an entry disappears only with its own unlink; a write through a stale
inum reaches no directory and no link. A full disk costs the name that is being
added, and never one that can still be read. A name without a file comes into being
only when at most one inode is free, and stays behind an `unlink` only in a directory
that is itself damaged. No thread sleeps in `enq` or `deq`
while something is there that no other awake thread would take, and the queue is
an atomic one to its callers. The pool runs every accepted job exactly once and
its destructor ends with nobody in the queue; only the wrapper of a refused job
is leaked (`WrapperLifetime`). A method gets the bytes of its own call, a caller
the result of its own method, and a failed call leaves the caller's variable as
it was; a vector that was not empty keeps its old elements in front of the result.

### Where the code and its documents disagree

Each of these runs ends in a violation; the findings in `PROJECT.json` quote the
lines.

| run | the code |
|---|---|
| `leak` | removing a file with an indirect block leaks the blocks behind it |
| `assertion` | after a full disk, a removal frees block 0 and aborts |
| `exhausted` | out of inodes, `create` goes on with inum 0 and says OK |
| `start` | starting depends on uninitialised memory |
| `setattr_grow` | a file is never made longer by `setattr` |
| `unlink_link` | a symbolic link cannot be unlinked |

More that the passing runs describe rather than refute:

* `LeakOnlyByRemove` allows removals to leak, and there is a second way besides
  that of `leak`: a file that was emptied by a put keeps `blocks[0]`, and
  `remove_file` of a file of size 0 frees nothing.
* `LossOnlyWhenFull` allows a put above `MAXFILE` blocks to lose its tail: it says
  OK, records the full size, and a later shrinking put walks past the end of a
  buffer (`WriteOverruns`).
* A block whose allocation has failed has id 0, and the bytes meant for it go to
  block 0, which the layout comment (`inode_manager.cc:83-84`) gives to the
  superblock.
* The entries for inum 0 of the run `exhausted` are left out of `LinkedOnce`, which
  holds all the same; `NewEntryHasFile` bounds when they come into being.
* `read` of an inum whose file is gone is an empty success, for `getattr` of
  `extent_server` never fails (`chfs_client.cc:376-380`).
* The name that `unlink` could not take out of a directory that does not parse any
  more (`chfs_client.cc:465`) is left without its file; `UnlinkTakesTheName` says that
  it happens in no other directory.

## Proofs

`ExtentServerProofs` proves, for every geometry that `LayoutAssumption` allows
(in particular the code's 32768 blocks of 512 bytes, 1024 inodes and 100 direct
pointers), every width (`UintAssumption`, `IdAssumption`) and every set of sizes:

* `TypeCorrect`: `Spec => []TypeOK`;
* `BlocksNotShared`: `Spec => []NoSharing`;
* `PointersStayInUse`: `Spec => []PointersInUse`.

The inductive invariant is `IInv == TypeOK /\ PointersInUse /\ NoSharing`.
`NoSharing` alone is not inductive: `alloc_block` avoids only blocks that are
marked as used, so every pointer must be marked (`PointersInUse`), and freeing a
file's blocks keeps the other files' pointers marked only because no block is
shared. `TypeOK` keeps the inode table out of the data blocks.

The argument: the n-th and m-th block that one put allocates differ
(`AllocInjective`, `OrdinalInjective`), so what the filling loops leave is
distinct, marked and nobody else's (`FilledFacts`); an inode keeps its pointers
when neither its own block nor its indirect block is written (`Frame`); hence a
put changes the pointers of its own file only (`WritePointers`, `WriteStep`).
`RemoveStep` and `AllocStep` treat the others, `InitStep` the constructor.

The second half goes on to which pointers of an inode are set. Its invariant is
`SInv`: `IInv`, every inode is `Shaped`, and inode 0 does not exist while the server
is up. An inode is shaped when the slots that are set come first and none lies past
the size, and when an inode that does not exist is all zero. It is needed because
`write_file` and `read_file` trust the size: they follow every pointer that a file of
this size has, and free from the first slot that the new size does not need. Proved,
for the same geometries:

* `ReadsStayInBounds`: `Spec => []ReadInBounds`;
* `PutsLeakNothing`: `Spec => LeakOnlyByRemove`. What a put frees (`Kept`) is what it
  drops from the file, because the loops start where the shape ends;
* `ScanSkipsAtMostOne`: `Spec => []CreateUsesInodes` (`ScanGivesUpLate`). The scan of `alloc_inode` from
  `_last_alloced`, taken modulo, misses at most one inode (`ScanCovers`).

The shape survives a put on a full disk because `alloc_block` fails for good once it
fails: the n-th call of one put gets the free block of rank n, so that the slots that
get a block are the first ones (`AllocCount`, `FillShape`; `Counting` has the lemmas
on ranks).

`ExtentStoreProofs` proves what callers see:

* `BytesLostOnlyWhenFull`: `Spec => LossOnlyWhenFull`;
* `ServerImplementsStore`: `Spec => StoreSpec`, the refinement itself.

`WriteContent` computes what a get reads after a put: the pieces of the string up to
the first slot that got no block, and `Junk` from there on (`LostSuffix`), while
files that the step leaves alone read as before (`UntouchedFile`). Each step of
`ExtentServer` is then a change of one file, a stutter, or the end of the process;
the abstract specification allows the process to end only at a file that has lost
bytes, and `WriteDiesDamaged` and `RemoveDiesDamaged` show that an invalid pointer is
met in no other file. `JunkAssumption` (no piece of a string that was put equals what
is read where there is no block) tells the two apart.

`FuseServerProofs` proves, for every number of inodes, every set of names and bytes
and every bound on file lengths (`ChfsAssumption`, `FuseAssumption`), all properties
that the run `namespace` checks:

* `FuseTypeCorrect`, `NamespaceAgrees`, `NamesStayUnique`, `TreeStaysConnected` and
  `WritesAreOverlays`: the invariants `TypeOK`, `LinkedOnce`, `NamesUnique`,
  `Connected` and `WriteIsOverlay`;
* `OnlyUnlinkDropsEntries` and `WritesHitFilesOnly`: the action properties
  `EntriesPersist` and `WritesReachFiles`.

The inductive invariant `NInv` says that the table is a `Tree`, that what the kernel
knows is right or at least harmless (`KnownOK`: an inum that it holds as a directory
is one, and one that it holds as a file is a file or gone) and that replies are typed.
A tree is a table in which every directory's content is the text of a list of entries,
the root is a directory, and the three properties of the namespace hold. None of
these is inductive alone. `LinkedOnce` needs `NamesUnique`: `unlink` removes the file
of the first entry of a name and drops all entries of that name. `Connected` needs
both: after `unlink` a closed set together with the removed inum is closed in the old
tree, because the dropped entry led there and nowhere else. `WritesReachFiles` needs
`KnownOK`: `write` and `setattr` look at no type.

The argument: text that was written is read back as the same list (`FieldsRead`), the
text of an entry at the end appends the entry (`FieldsAppend`), the list without a
name has each other entry once (`WithoutFacts`); so `create`, `mkdir` and `symlink`
are one kind of step (`Added`) and `unlink` another (`Unlinked`), and `AddKeepsTree`
and `UnlinkKeepsTree` are about trees and know nothing of text. `OverlayFacts` follows
the `resize` and `replace` of `write` byte by byte.

`FifoProofs` proves, for every limit (none included), every finite set of
threads and every set of items (`FifoAssumption`):

* `FifoTypeCorrect`: `Spec => []TypeOK`;
* `NoElementForgotten`: `Spec => []NoLostElement`, and `NoSpaceForgotten`:
  `Spec => []NoLostSpace`;
* `ImplementsQueue`: the steps of `Fifo` are steps of `BoundedQueue`.

The inductive invariant is `FInv == TypeOK /\ NoLostElement /\ NoLostSpace`; the
run `fifo` checks it. The argument counts the threads that are awake in a call: a
pop takes away an element and a thread that is awake in `deq`, a push adds an
element and wakes a thread if one sleeps, and symmetrically for the places.
`TypeOK` is needed twice: a woken thread is in the call of its condition variable,
so that it counts, and the queue was within its limit, so that `deq` signals after
every pop of a limited queue.

`ThrPoolProofs` proves, for every number of clients and workers and every set of
jobs (`PoolAssumption`):

* `PoolTypeCorrect`, `QueueUnusedWhenDeleted`, `DestructorLosesNoJob` and
  `WrappersLive`: the invariants `PoolTypeOK`, `FifoUnusedWhenDeleted`,
  `AcceptedJobsRan` and `WrapperLifetime`;
* `PoolImplementsFifo`: the pool uses its queue as `Fifo` allows, so that
  `NoLostElement` and `NoLostSpace` hold of the queue in the pool.

The inductive invariant `PInv` places each job: with the client that adds it, in the
queue, with the worker that took it, or behind them (`JobPlaced`), and nowhere twice
(`JobOnce`). The jobs without a function are the last elements of the queue, as many
as the destructor has added and workers have not taken (`NullsLast`), which is why
the join of all workers means that no job is left.

`RpcProofs` proves, for every set of call numbers, every set of call sites, of results
and of status codes, and every number of values of a byte from 2 up (`ByteAssumption`,
`CallAssumption`; 256 is the code's), all properties that the run `rpc` checks:

* `RpcTypeCorrect`, `MethodsGetArguments`, `ResultsOfThisCall`, `FailuresTouchNothing`
  and `AbortsMeanWrongType`: the invariants `TypeOK`, `MethodGetsArguments`,
  `ResultIsOfThisCall`, `FailureTouchesNothing` and `AbortMeansWrongReturnType`.

The inductive invariant `RpcInv` follows the life of a call. At most one message of
each number is under way (`NetInv`); it is the request of its call, with no method run
yet, or the answer that the one execution has produced, or a refusal with none. A
method runs at most once (`ExecInv`), and a call that is done has timed out, with its
variable as it was, or has consumed the answer, so that no message of its number is
left (`EndInv`). None of the properties is inductive without it: that a late answer
does no harm, for instance, is true because `got_pdu` looks at the state of the call,
and that an answer belongs to its call because no second message with its number can
be under way.

The bytes are a separate argument, with no state in it. What is put for a value of a
type is got back by the same type, with the rest of the buffer untouched (`PutGet`);
the bytes that a type other than a map gets are those that it would put (`GetPut`).
`ArgsBack` and `ArgsBytes` say the same of argument lists, `Header` of the words
that `pack_header` writes into the room in front, and `ResultBack` of a result in the
variable of a caller, in which a vector keeps its old elements. Strings, vectors and
maps are given by the position of each byte or element in the buffer, so no induction
over data is needed; argument lists are treated for the one and two arguments that
the registered methods have.

`ChfsDiskProofs` proves all properties that the run `full_disk` checks, for every
number of inodes up to 9 (an inum of one digit), every number of blocks and direct
pointers, with the blocks of one entry that the model has (hence one indirect pointer),
every set of names, sizes of files and directories named by requests, every bound on
entries, and whichever old entries or bytes without a slash the memory holds that
`read_file` does not fill (`JunkReads`; `EntryAssumption`, `CallerAssumption`):

* `DiskTypeCorrect` and `BlocksAreTheTable`: the invariants `DiskTypeOK` and
  `BlocksHoldTheTable`;
* `NamesLostOnlyWhenFull`, `EntriesSurviveDamage`, `NewEntriesHaveFiles` and
  `UnlinksTakeTheName`: the action properties `NameLostOnlyWhenFull`,
  `ReadableEntriesSurvive`, `NewEntryHasFile` and `UnlinkTakesTheName`.

The inductive invariant `DInv` stands on `SInv` of the blocks. Every directory has a
content that was last put, of which the blocks hold a prefix (`DirOK`, `Stores`). A
request between its two extent calls has a directory that is still there, an inode
that is new and empty, or one that is gone, and inum 0 only if at most one inode is
free (`RequestOK`): without it nothing would keep
the second half from writing to a file, or `create` from putting the entry of a
directory into itself. Until the first loss the prefix is the whole content, it
consists of entries, and it is the text of the table (`TableInv`), except for the
inode of the request in progress; and the inum that `unlink` has removed is the one
that the table's `lookup` finds, though the directory is read twice.

The argument: a put reaches at least as far as the blocks that the directory had, so
a piece that could be read in front of the damage can be written again
(`PutDirStep`, from `WriteContent` of `ExtentStoreProofs`). What `get` returns begins
with that prefix (`GetsOf`). What `readdir` parses of it begins with the entries up to
the first piece without a slash, whatever follows (`FieldsOfFacts`, `ParsedFacts`), and
an entry that `unlink` keeps moves to the front and never back (`Shortened`). An
intact directory is read exactly as it was put (`StoresIntact`), so the only new entry
is that of the request, and an `unlink` finds its name again and needs no more blocks
than there are.
`CreateTable` and `UnlinkTable` compute the table after the methods of `ChfsClient`.

Only model-checked: what needs fairness (`NonBlockingReturns`, the fairness in
`QueueSpec`, `AcceptedJobsRun`, `DestructorReturns`), which is out of the prover's
reach.

## Not modelled

* Access, modification and change times. They are set in `inode_manager` and
  passed through; no control depends on them.
* `statfs` and `open`, which answer with constants; the buffer in which `readdir`
  sends its entries; the command line and mounting.
* Connections, polling and logging (`connection.h`, `pollmgr.h`, `jsl_log.h`): the
  headers only declare what the binary holds. Its at-most-once window answers
  `FORGOTTEN` to every request with a nonce (see *Calls*), so there is nothing to
  model of retries.
* `method_thread.h`: it hands a wrapper to one new thread and is called by no
  source file of the repository. (Its comment promises zero on an error, where the
  code exits.)
* `gettime.cc`, a clock for macOS, and the testers.
* Lengths above 2^31, at which the `int` sizes of `put` would wrap.

## Plan

1. *Done*: the block, inode and extent layers, their abstract specification, and
   the proof that blocks are not shared; the namespace and the FUSE handlers;
   directories on a full disk; the queue, with its abstract specification,
   progress, and the proofs of its safety; the thread pool; calls and marshalling.
2. *Done*: the proofs about the disk (the shape of the pointers, the refinement of
   `ExtentStore`), about the pool, and about the namespace.
3. *Done*: the proofs about `Rpc` and `Marshall`.
4. *Done*: the proofs about `ChfsDisk`, that is, about directories in blocks.
5. Open: links and the contents of files over the blocks, as `ChfsDisk` has the
   directories; entries longer than a block.
