# Formal models of CAnSI C

A TLA+ development kept beside the source of CAnSI C, a distributed file system in
three processes: a FUSE client (`fsc/`), an ext2 server (`rfs/`) and a cache, an engine
loaded into memcached (`rc/`). The models are translated from the code; each definition
that stands for code names its lines in `PROJECT.json` ("map").

## The system

| part | state | operations | works with |
|---|---|---|---|
| **RFS event loop** `rfs.c`, `socketHandler.c` | sockets, configuration | accept and handshake, read a request, make a job | deposits jobs in the pool's queue |
| **RFS thread pool** `multiThreading.c`, `commons/collections` | list of jobs, its count, mutex, semaphore, one shared `worker_t` | `pool_deposite_job_in_queue`, `pool_extract_job_in_queue`, `workerJ` | runs the handlers |
| **RFS handlers** `procesadorDePedidos.c` | one `args_t`, one `resultado_t` per request | one `procesarPedido*` and one `enviarRespuesta*` per request | call the operations, send answers to the client's socket |
| **RFS open-file table** `synchronizer.c` | list of `open_file_t` (path, count, rwlock), list mutex | `foundOrAddOpenFileInList`, `open_file_finishHim` | every operation and every answer |
| **RFS operations** `ext2_operations.c` | the mapped volume: inodes, directory blocks, data blocks | create, mkdir, remove, truncate, read, write, getAttr, ReadDir | table, allocator, block cache |
| **RFS allocator** `bitmap.c` | bitmaps and free counters per group, superblock counters | search, assign, release of blocks and inodes | called by the operations |
| **RFS block cache** `memcachear.c` | entries of the remote cache, keyed by path and block | `memc_get`, `memc_set`, `memc_delete` | ReadFile, writeFile, desasignarBloque; RC |
| **RC engine** `cansic_engine.c` | items, one rwlock | allocate, store, release, get, delete, flush | called back by memcached's threads |
| **RC memory** `diccionario_dinamicas.c`, `diccionario_buddy.c`, `diccionario.c` | linked partitions, pool of nodes, sizes | obtenerDireccion, eliminar, compactarMemoria | under the engine's lock |
| **FSC operations** `fuse.c`, `memcachear.c` | attribute and listing entries in the remote cache | one callback per FUSE operation | RFS over a socket, RC |
| **FSC pools** `connectionPool.c` | two lists of connections with mutex and semaphore | extract, deposit | FUSE callbacks |

The file-system client serialises a call into one request, takes a connection from its
pool, sends the request and waits for the answer on the same connection. The server's only
epoll thread reads the request, makes a job and deposits it; a worker extracts it and runs
its handler, which opens the path in the open-file table, works on the mapped volume
under the element's lock, and opens the path once more to send the answer.

What is hard, and what makes each part correct:

* **Thread pool**: two locks of different kinds (mutex, semaphore) guard one list; all the
  workers share `worker_t`. Correct: each job goes to one worker, in order; semaphore, count
  and links agree; the answer reaches the client that asked.
* **Open-file table**: a mutex is held while a read-write lock is awaited; operations nest
  (entry in the father, listing of a directory, the answer); error returns skip the release;
  glibc's EDEADLK is ignored. Correct: counts are exact, nothing is freed in use, writers are
  alone, nobody waits for ever.
* **Allocator**: search and assignment are separate critical sections. Correct: no block or
  inode has two owners; bitmaps, group counters and superblock agree when nobody is inside.
* **Block trees and directory blocks**: arithmetic at the boundaries of the levels, with a
  product that wraps in 32 bits, and of `rec_len`; a path is found by the names at its ends.
  Correct: the blocks of a file are distinct and as many as its size asks for; the records tile
  the block, one for each inode; a path names what its components name.
* **Block cache, client cache**: entries are read, written and dropped around operations of
  other clients. Correct: no read returns what an earlier completed write replaced.
* **RC memory**: first or best fit, eviction, coalescing, compaction over one list. Correct:
  partitions tile the memory, nodes are conserved, keys are unique, a partition in use is never
  reused or moved under its holder.
* **Pools of the client**: two pools taken in an order. Correct: a connection has one user,
  every callback returns it.

The hazards, each at its line, are in `PROJECT.json`.

## The modules

| module | models | built on |
|---|---|---|
| `OpenFileTable` | `synchronizer.c`; locks, lookups and error returns of the operations and handlers, for interleaved threads | |
| `OpenFileTable_proofs` | theorems about its counts and its list | `OpenFileTable` |
| `OpenFileLocks_proofs` | theorems about its locks | `OpenFileTable_proofs` |
| `WorkerPool` | `multiThreading.c`, the event loop's deposits, the handlers' use of `args_t` | `JobChannel` |
| `WorkerPool_proofs` | theorems about its queue and, with one worker, about its answers | `WorkerPool` |
| `JobChannel` | abstract: a FIFO channel of jobs; `WorkerPool` refines it | |
| `Bitmap` | `bitmap.c`, `bitarray.c`: bitmaps and free counts | |
| `BlockTree` | `addBlocks`, `removeBlocks`, `get_AllBlocks` of `ext2_operations.c`, `inode.c` | `Bitmap` |
| `Volume` | what the operations do to the image, directory records, `memcachear.c` of the server | `BlockTree` |
| `EventLoop` | `rfs.c`, the sockets of both programs, `socketHandler.c` | |
| `EventLoop_proofs` | theorems about the loop's own state | `EventLoop` |
| `EventLoopStreams_proofs` | theorems about the streams, the conversations and the answers | `EventLoop_proofs` |
| `FuseClient` | `fuse.c`, `connectionPool.c`, `memcachear.c` of the client | |
| `FuseClient_proofs` | theorems about it | `FuseClient` |
| `CacheEngine` | `cansic_engine.c`, `diccionario.c`: the engine's callbacks and its list of partitions | |
| `DynamicPartitions` | `diccionario_dinamicas.c` | `CacheEngine` |
| `BuddySystem` | `diccionario_buddy.c` | `CacheEngine` |
| `RemoteCache` | the engine with the scheme that its configuration names | both schemes |
| `RemoteCache_proofs` | theorems about its list, its sizes and its items | `RemoteCache` |
| `FreeMemory_proofs` | theorems about its free memory and about halves | `RemoteCache_proofs` |
| `MCOpenFileTable`, `MCWorkerPool`, `MCVolume`, `MCEventLoop`, `MCFuseClient`, `MCRemoteCache` | instances for TLC | |

How they fit: a callback of `FuseClient` sends one request per socket (`OneOutstanding`);
`EventLoop` relies on it, reads the request and deposits a job; `WorkerPool` carries jobs to
threads; `OpenFileTable` is what a thread does with the locks, `Volume` what it does to
the image; `CacheEngine` and its schemes are the server behind both kinds of memcached
connections. Each module treats its neighbours as one atomic step: `FuseClient`'s `Serve` is a
whole request, `EventLoop`'s `Answer` a whole handler.

### OpenFileTable

One action is what a thread does between two points where another can observe it. The state
is the table (`table`, `count`, `mutex`), the locks (`writer`, `readers`), the part of the
volume that the control flow depends on (`entries`: how many directory records name a path;
`inode`: its kind, `zero` before it is written and after it is cleared; `spare`: blocks
left for directories) and, for each worker, where it is (`pc`), in which activation
(`frame`) and the pointers it holds (`ref`).

A request goes through up to four *frames*, one for each variable of the C code that holds an
`open_file_t*`: `file` (the operation's own), `father` (`ext2_addEntryToDirectory`,
`ext2_deleteDirEntry`), `list` (`ext2_ReadDir` called by `ext2_removeDir`) and `reply` (the
handler's `enviarRespuesta*`). In each frame: `FoundOrAdd`, `FoundCount` are
`foundOrAddOpenFileInList` (mutex; wait for the element's write lock; count); `Lock` and
`Unlock` are the operation's own; `FinishHim`, `FinishCount` are `open_file_finishHim`. Between
them come the bodies: `ListBody`, `DataBody`, `WriteInode`, `AddEntry`, `DeleteEntry`, ...
The error returns are kept as they are, with what they leak: `leaked` is a history variable
that counts the references they drop.

Locks behave as glibc's do: a lock asked for by its own writer fails with EDEADLK and is
not looked at; an unlock gives up the writer's lock, else one reader, and for a thread that
owns nothing the result is a choice. `crashed` stands for the death of the process (NULL
dereferenced) at the places where the code does it: the walk of a path through a directory whose
inode is cleared or not written yet (`WalkFault`), `removeFile` of a missing path, `removeDir` of
one, an entry in a father that is gone, mkdir's NULL result or unset path, and a search for a
block that finds none (`OutOfBlocks`): in a directory or file that grows, or in mkdir when its
entry is visible already. How full the volume is is not followed, but for the growth of
directories, so a file or a new directory may meet this at any time.

Bounds: `MaxRequests` requests in all, `Spare` blocks for directories. The volume has a root,
a directory, a file in it and a free name: with two or three workers that is one
element shared by a holder, a waiter with the mutex and a waiter for the mutex, which is the
longest chain the protocol builds.

| run | what it shows |
|---|---|
| `OpenFileTable_steady` | 2 workers, 4 requests without removals (a read and a write of the file, a listing, a create and a mkdir of one name), fair threads. `WritersExclude`, `LockOwnersNeedNoMutex`, `HalfMadeHasCreator`, `EveryRequestIsAnswered`; no deadlock. |
| `OpenFileTable_removal` | 3 workers, 3 requests, same names created and removed. `CountIsExact`, `TableIsTheCounted`, `LocksAreGivenBack` (no lock outlives its holder or its element), `NoDanglingReference` (elements are destroyed and added again), and `StuckOnlyThroughRemovals`: whatever blocks for ever, blocks because a removal asks for the mutex while it owns its path, or because a lock lost a reader nobody had taken. Deadlock is not checked here because it happens. |
| `OpenFileTable_rmdir` | *violated*: `RemovalsAreAnswered`. removeDir and ReadDir of one directory wait for each other. |

Fairness (`FairSpec`): weak fairness of each thread's steps: a thread the kernel can run does
run. Nothing is assumed about who gets a lock, nor that requests arrive. The number of
requests is finite, so no thread can be overtaken for ever, and weak fairness is enough.

### WorkerPool

The client sends one request per connection and waits (`Send`). `Receive` is the event loop's
read of one request; `DepositLock`, `DepositLink`, `DepositCount`, `DepositPost` are
`pool_deposite_job_in_queue` with `list_add` cut between the link and the count;
`ExtractWait` ... `ExtractCount` are `pool_extract_job_in_queue` with `list_remove` cut the same
way. `Alloc`, `SetPed`, `SetClient`, `Call` are the statements of `workerJ`, each of
which reads the shared `wr->args` again (the makefiles compile with `-O0`); `Run`, `Reply`,
`Free` are what a handler does with its `args_t`. Freed memory is not handed out again in
the model: reuse would only add behaviours to those that already go wrong.

| run | what it shows |
|---|---|
| `WorkerPool_queue` | 3 clients, 3 workers, 3 requests. `SemCountsList`, `NeverPopsEmpty`, `SizeIsLength`; the queue refines `JobChannel` (`IsFifoChannel`). Holds although the arguments are shared. |
| `WorkerPool_single` | 3 clients, 1 worker, 5 requests, fair threads. `AnswersMatch`, `EveryClientIsAnswered`: each client reads its own answers, all of them. |
| `WorkerPool_args` | *violated*: `AnswersMatch` with two workers: a request is run on another's arguments. |

The refinement maps `taken` to the jobs that left the list and `sent` to the jobs that were
ever linked into it: jobs are numbered by arrival, so the channel is FIFO exactly when the
list hands out 1, 2, 3, ... in order. Fairness is again one weak fairness per thread.

### Bitmap, BlockTree and Volume

An image is a record of bitmaps and counts (`Bitmap`), a disk of blocks of `indS` cells
(a cell is as large as a block number) and a table of inodes. The operators of `Bitmap` and
`BlockTree` carry the names of the functions they stand for and return the image that a call
leaves; loops are folds, and a function of several stages is a chain of operators that hand on
the record of what was changed so far. `Volume` is the state machine: one action per operation
(`ext2_create_file`, `ext2_mkdir`, `ext2_removeFile`, `ext2_removeDir`, `ext2_truncateFile`,
`ext2_writeFile`, `ext2_ReadFile`), each the whole of it, with the records of the
father directory and the copies in the block cache. `content` is the reference: what a file
would hold if every operation did what it says.

One request runs at a time: `Volume` asks what the algorithms do, `OpenFileTable` which
interleavings the locks allow. What stays out of both is two threads inside the
allocator at once, between a search and its assignment.

Two of the code's decisions look unlike what they are for, and are translated as they are:

* *The level of a file* (`level_indirection`, lines 864-872). `indT * SbI.blockSize` is a product
  of `uint32_t`; with blocks of 1 KB it is 2^34, that is 0, so the third comparison is true of
  every file that is not empty, and the level is one more than the thresholds say. A file grows
  into the level that its next block belongs to only from 0, from 12 to 256, from 268 to 65536 and
  from 65804 blocks; from 1 to 11, 257 to 267 and 65537 to 65803 it skips pointers, which stay 0
  and are read and written as block 0. `uint32` is the constant that products are taken modulo,
  and the sizes are those of `Between`.
* *The walk of a path* (`ext2_get_Inode`, lines 1208 and 1214) ends at the first component that
  the whole path ends with. `/ab/yab` and all names in `/ab` that end with `ab` are `/ab`
  itself: the kernel's look-up already finds such a name, create and mkdir would answer YA_EXISTE,
  rmdir works on the inode of `/ab`. A path *below* such a directory goes on from `/ab`,
  so an entry may be made in another directory than the one that was named. `Suffix` is the
  relation between names that decides it, `Walk` the components that are looked at.

Requests are those of a client whose kernel has looked up every component of the path, one after the
other, in the server (`FathersExist`, `Exists`, `Absent`): that is what Linux's VFS does before it calls
FUSE, and without it the code would dereference the NULL of a missing father.

History variables name what the code is known to do to an image, and the properties are
stated up to them:

* `lost`: blocks that stay marked. Removals free the blocks of the size and not those of the
  tree (indirect blocks, and the surplus of a write, which may add one block more than it
  needs); removeBlocks drops the triple indirect block with a double one still below it.
* `shrunk`: files that were cut. removeBlocks goes by what is left to remove, so a later
  growth may leave a hole, which reads and writes take for block 0.
* `displaced`: files that grew from one of the sizes above.
* `reused`: paths whose cached blocks may be stale. memc_set names a block by its place in the
  file and memc_delete by its place on the disk; a read of nothing at a block's end caches
  block 0.
* `damage`: a removal took the record of a name that is a prefix of its own ("prefix removed");
  the last inode came into use, at which every walk of a directory ends ("last inode used"); an
  entry was made in a directory above ("entry elsewhere"); a directory was cleared under the name
  of one that does not exist, because the scan of `deleteDirEntry` ran past the block into one
  where a zero stands for a name's length ("removed by another name"); block 0, or what a file
  wrote there, was followed as a block of pointers ("data as pointers").
* `died`: the server is gone: no block or inode left for a mkdir, no block left to grow, a
  directory without room (create then adds blocks that it never looks at, to the last), a hole
  given back (block 0 belongs to no group).

`BlocksAccountedFor` excepts only an image in which data were followed as pointers.
`GrownFilesHoldTheirContent` excepts files that were cut or displaced, `CacheIsTransparent` files
that were displaced or whose blocks were given up; the other files are not excepted, whatever is
written to block 0, until pointers are damaged or a directory is named through another's path.
`DirectoriesSound` asks of an image with any damage only that records fill their blocks. The
32-bit product has no run of its own that is violated: `displaced` and `Between` say exactly
where it takes effect, and no line of the repository promises otherwise.

Other things the model keeps as they are: a file larger than the double indirect level
(`Reach`) grows into the triple level at a place where no read looks, and the two properties about
content end there; a read whose second piece is shorter than the room of the first block is
answered with zeros there, which `ReadsSeeWrites` says; create answers OK when no inode is left.

| run | bounds | what it shows |
|---|---|---|
| `Volume_files` | 4 requests after a file of none, 2, 8, 17 or 30 cells; 27 blocks in groups of 14, 6 inodes in groups of 3, 2 direct pointers, 3 pointers in a block, products modulo 81 cells | `TypeOK`; `BlocksAccountedFor`: a block is free, in use in one place or lost in a known way, and all counts agree; `GrownFilesHoldTheirContent`; `CacheIsTransparent`: cached blocks are those of the disk and reads see writes; `DirectoriesSound`: records fill their block, one for each inode |

With two direct pointers and three pointers in a block the levels end after 2, 5, 14 and 41 blocks,
and the third threshold wraps to 0 as it does with blocks of 1 KB. Two direct pointers are the
least that can be left over: the initial file of 1 block grows at the wrong level, the one of 3
at the right one, that of 6 reaches the double level and that of 10 is past its threshold with
the level not full. Truncations and writes are chosen on both sides of each end; a second file
grows beside it. Names are two of which one is a prefix of the other, one inside a directory, one
there that ends with the directory's own name and one below that, and one that no directory has room
for. Each kind of damage, of loss and of death, and reads of displaced files are reached within the
four requests. Deadlock is not checked because the requests end.

### EventLoop

A stream is a sequence of units; a message is a header of two units, of which the first
declares the length modulo `Width` (16 bits in the code), and its payload. Client `c` goes
through `Connect`, `SendShake`, and for each request `Ask`, `ReadHeaderOf`, `UseHeader`,
`ReadBodyOf`, `UseBody`; `Die` cuts what it had not sent. `up` and `down` are what is on its
way; `Amounts` lets a call of recv return less than it could.

The loop is the code's: `EpollWait` takes the readable descriptors of the ready list, `Accept`
is one accept per event of the listener, `ServerReads` one recv inside recibir, `Shaken`,
`HeaderRead` and `RequestRead` what follows it. Edge triggering is `Notify`: a descriptor enters
`ready` when data or the end of a stream arrives, and leaves it when it is reported. `Watch` is
the look that `EPOLL_CTL_ADD` takes. The error paths are the code's too: `AcceptFails` (no
descriptor left), `ShakeRefused` (closes the listener), `CloseReset`, `HeaderUnread`, `Spin`
(recv returns 0 for ever), and a header made of garbage. `Deliver` to a dead client ends, after
its reset, in SIGPIPE, for which the server has no handler.

| run | bounds | what it shows |
|---|---|---|
| `EventLoop_clients` | 3 clients, 2 descriptors, 2 requests, 1 fault (a death, or a call that moves less than it could), answers of no payload and of one longer than the length field counts (`Width` 4); fair | `TypeOK`; `NothingForgotten`: the loop sleeps only when nothing is left to read; `LoopIsHeldOnlyByClients`: it waits, hangs or dies only through dead clients, torn streams and too many connections; `AnswersAreOwn`; `ClientsAreServed` |

Three clients and two descriptors are what it takes for a descriptor to be reused while an
answer for its first owner is pending, and for two connections to arrive together with a
third to wake the loop. What the clients do once the loop is stuck or dead is not
followed. The exceptions in the properties are history: `damage` (a stream lost its framing
through a partial send, a recv that took too much or an answer too long), `crowded` (two
connections made one event), `inherited` (a descriptor with another's answer pending).
The last is an exception of `NothingForgotten` too: a client that gets the descriptor of a
dead one takes the answer that was pending there for that of its handshake, sends a request
before the loop has read the handshake, and the two messages make one event. It takes a
third request to see it, one more than the run sends: the proof below found it.

Fairness (`FairSpec`): the loop runs, workers answer, a client that is in the middle of a
conversation goes on. Nobody has to connect, ask or die.

### FuseClient

`Call` is the kernel's call of a callback; `TakeMemcached` ... `Put` are its steps:
which keys it drops (`Drops`) or looks up (`KeysOf`), which answers it takes for errors
(`Handles`), and on every return what it gives back (`GiveBack`). `sockPool` and `memcPool` are
the lists of `connectionPool.c`; `ExtractMemcached` and `ExtractSocket` wait for one that is not
empty. A cached value is what it stands for (a listing, or a kind and a size), so that
stale means different from `Right`. `Serve` is the server, one step per request; `Die` its death in a
request that dereferences NULL. The cache may drop a value at any time (`Evict`).

Kept as they are: create, mkdir, unlink and rmdir drop the listing *before* the server applies the
change; write drops nothing; rmdir leaves the listing of the directory itself; create_dir does
not know YA_EXISTE; truncate of a missing file is answered OK; the key of the attributes may
run on into the next chunk of the heap (`Unterminated`), and is then one that nobody drops.
The locks that the kernel holds around a change of a directory (`Guards`) are assumed of
it.

| run | bounds | what it shows |
|---|---|---|
| `FuseClient_mounts` | 2 mounts, 3 threads, 1 connection of each kind per mount, 3 calls; a directory, a file in it, a new name and one that is too long; fair | `TypeOK`; `ConnectionsConserved`; `OneOutstanding`; `StaleOnlyAsKnown`: a cached listing is wrong only through a race, attributes also because of a write or of their key; `RefusalsAreReported`; `EveryCallReturns` |

One connection per mount makes the two threads of a mount wait for each other's at every
step; the second mount is what makes a cache stale. Fairness: FUSE's threads run and the server
answers (`OpenFileTable` and `WorkerPool` say when it does). A pool hands out in order and
calls are finite, so weak fairness is enough.

### CacheEngine, DynamicPartitions, BuddySystem and RemoteCache

`CacheEngine` has the constants of the configuration, the list and the callbacks;
`DynamicPartitions` and `BuddySystem` extend it with the steps that the engine takes through its
function pointers: removal, search for room and compaction, or halving and uniting.
`RemoteCache` puts them together; `scheme` is the one that `cansic_engine_inicializar` chose.

| in the model | in the code |
|---|---|
| `part[n]` | `t_dict_element`: `data` (as an offset), `chunk_size`, `data_size`, `key`, `ocupado`, `hour` |
| `next`, `prev`, `nodes` | the links, and the first spare node; node 0 is the first element, `1..Cant` the array `nodes` |
| `elements` | the first partition; only the buddy system moves it |
| `current`, `tries` | `table_current_size`, `compactarMemoria` |
| `owner`, `pc`, `call`, `it`, `want` | the callback that owns the rwlock for writing: its place, its item, what it allocates |
| `stage`, `item` | what memcached is doing for each connection, and the item it holds |

Node `Cant` is the one that the last element of the array links, one past its end: it is
there so that `NodesConserved` can say that the list never needs it. `Init` chooses what
`malloc` left in the first element's key. One iteration of a loop of the code is one
action (`MergeBack`, `MergeForward`, `Consolidate`, `Shift`, `Unite`, `Halve`, `FlushNext`, ...); a walk
that only reads is one step. `Allocate`, `Release`, `Delete` and `Flush` take the lock; `Get`
is one step under the lock for reading; `Store` and `ReleaseTest` do not look at it, as in the
code, so they fall between any two steps of its owner. Which neighbour is a partition's sibling
is counted along the list (`BlocksBefore`), as `esElPrimerHermano` counts it.

Abstracted: an hour is `dated` or zero. `diccionario_elegirVictima` takes the oldest among
the nodes that have an hour. Under LRU the reads before decide, so any dated item may be it;
under FIFO the choice out of all of them (`Victims`) allows more than the code does. The bytes of
an item and its flags are not kept (no client of this repository reads flags).

The list of this code can be damaged. `damage` is a history of how: the first key was not
empty, a stale `prev` was followed, a reserved node was merged, a spare node was removed, or
release, which calls the dynamic delete under either scheme, merged a node of the buddy
system with a neighbour. In the model nothing happens to a damaged list any more
(`Ready`, `Running`), and the safety properties are stated while it is `Intact`: what they show
is that these are the only ways. The first is a choice of `Init`; `DynamicPartitions_stale` shows that the second
happens to one connection; the third needs two connections (the partition behind the removed
one is reserved) or three (the removed one is merged into a reserved one before it, which is no
damage yet, and the loop goes on and merges that one, item and all, into the one before).

| run | bounds | what it shows |
|---|---|---|
| `DynamicPartitions_single` | 1 connection, 2 keys, sizes 1, 3, 6, 9 in 8 bytes, slab 2, under both schemes; first fit, FIFO, compaction after 2 failed searches; fair | `UniqueKeys`, `HeldIsReserved`, `FreeMemoryIsUnited` (no free neighbours, no free siblings), `BuddiesAligned`, `CompactionKeepsItems`, `LockIsGivenBack` (and nobody dies for want of a victim), over any sequence of calls; sizes below a slab and above the memory |
| `DynamicPartitions_shared` | 3 connections, 2 keys, sizes 1, 2 in 3 slabs of 1; best fit, LRU, a compaction after each failed search; dynamic partitions | `MemoryAccountedFor`, with callbacks interleaved: types, partitions that tile the memory, no node lost or in two lists, the table's size that of its items |
| `DynamicPartitions_stale` | 1 connection, 3 keys | *violated*: `MergesNeighbours`, a removal follows the `prev` that an earlier forward merge left behind |

`UniqueKeys`, `HeldIsReserved`, `CompactionKeepsItems` and `LockIsGivenBack`
are properties of one connection: with two, `ReleaseTest` and `Store` race with removals, a key may be allocated
twice, and with all the memory reserved and nothing stored there is no victim: `NoFit` then
dereferences NULL, as `diccionario_elegirVictima` does for its log line. Four slabs hold two
levels of halves, and two items with free memory before, between and behind them. The tables
are the engine's own sizes divided by the slab. Nothing bounds the number of calls: the states
are finite.

`LockIsGivenBack` depends on the configuration: with frecuenciaCompactacion 1 an allocation
that finds no room compacts, finds nothing and compacts again for ever (room is counted in
bytes of data, partitions are at least a slab). The run has 2, where a victim falls between two
compactions. The buddy system's memory is a power of two times the slab in the runs; for other
sizes `diccionario_crear_buddy` allocates less than it hands out.

Fairness (`FairSpec`): the thread that owns the lock runs (`WF` of `CallStep`). No client
has to call, and no connection that holds an item has to go on.

## What is proved

Every theorem holds for all values of the constants that the named assumption of its module
allows: any number of workers, clients, mounts, connections, paths and requests, and any of the
bounds. TLC checked each inductive invariant on small instances first. The
assumptions are on the shape of the constants (`ConfigAssumption`, `PathsAssumption`, `PoolAssumption`,
`LoopAssumption`, `ClientAssumption`, `EngineAssumption`): the fathers of a path lead to the root, threads are
finitely many, a request is shorter than the length field counts, a slab is not larger than the memory.
Some theorems are about a part of the behaviours only, and say so in their ASSUME: `WrittenStay`, `NoRemovals`,
`SingleWorker`, `OneConnection`, `OnlyDynamic`, `PowerOfTwo`.

### The open-file table: `OpenFileTable_proofs`

* `TypeCorrect`: `Spec => []TypeOK`.
* `CountsAreExact`: `count[p]` = pointers to `p`'s element + references leaked by error returns.
* `TableHoldsTheCounted`: the list holds exactly the paths with a positive count.
* `NoUseAfterDestroy`: no thread holds a pointer to an element that was destroyed.

The inductive invariant is `IInv == TypeOK /\ FollowsControl /\ CountIsExact /\
TableIsTheCounted`. Exact counts alone are not inductive: `FinishCount` decrements for the
pointer in the current frame, so one has to know that there is one. `FollowsControl` says,
for each worker, which frames hold a pointer and to which path as a function of `pc`, `frame`
and `op` (`PointersOf`), which operations reach which frame (`FlowOf`), and that whoever waits
for an element under the list mutex owns it, its element still being in the list (`MutexOf`).
Counting is by `PointersTo`, a finite set of <<thread, frame>> pairs; lemmas say what setting
and clearing one pointer does to its cardinality. `NoUseAfterDestroy` follows: a pointer makes
the cardinality positive, hence the count, hence the element is in the list.

### The locks of the table: `OpenFileLocks_proofs`

* `NoLockIsLeftBehind`: `LocksAreGivenBack`, with every request, removals included.
* `CyclesNeedRemovals`: `StuckOnlyThroughRemovals`, with every request, removals included.
* `WritersAreAlone`: `WritersExclude`, under `WrittenStay`.
* `OwnersLeaveAlone`, `HalfMadeIsInWork`: `LockOwnersNeedNoMutex`, `HalfMadeHasCreator`, under
  `NoRemovals`.
* `SomebodyGoesOn`: under both, the busy threads are never all blocked.

That no lock outlives its request is less plain than it looks, because the removals never
unlock their path on some of their ways. `MayOwn` says what a thread may own as a function of
its place. `KeepsPath` is the part of it that explains the code: a removal that was refused
goes into its answer (or its listing) with the write lock, looks the same path up again, the
look-up's `wrlock` fails with EDEADLK, which nobody looks at, and the look-up's unlock gives the
removal's lock back. `LockInv` is this, with: an element that is not in the list has no lock, and
nobody writes to the root.

`CyclesNeedRemovals` is about unlocks whose result is a choice. `ReadersBound` bounds what they
can do: a lock counts at most the readers that are inside, and none beside a writer. So when
every busy thread is blocked nobody is inside, no reader is counted, and who is waited for owns a
lock for writing without being inside: by `LockInv` an unlink that has its file and waits for its
father's lock, unless it asks for the mutex, which is what the property names. The father then has
an owner of the same kind, and its father too; the fathers lead to the root
(`PathsAssumption`), which no removal owns.

`WrittenStay` (the files that requests write were there from the start, and no request removes
them or makes directories of them; what else is created and removed does not matter) is the case
in which the locks do what they are for. The violations that TLC finds without it are of one
kind: `writeFile` finds that the path is no regular file any more, or not yet, and goes to the
unlock of a lock that it did not take. `WrittenInv` counts: the readers of a lock are as many as
the threads inside that read, and a thread owns what `MustOwn` names, the element whose body it is
in and the file whose entry it takes out of the father. So no thread unlocks what it does not own, and
EDEADLK is met only by the look-ups that `KeepsPath` speaks of.

Under `NoRemovals` `LockInv` alone says that who owns a lock for writing is inside. An entry
without an inode has one thread between the two (`HalfMadeIsMade`), since whoever finds the entry
there does not go on to make the inode. With `CyclesNeedRemovals` and exact counts
of readers, that nobody removes leaves no way to close a cycle (`SomebodyGoesOn`), for any number of
threads; that each request ends is what `OpenFileTable_steady` checks.

### The pool: `WorkerPool_proofs`

* `TypeCorrect`: `Spec => []TypeOK`.
* `SemaphoreCounts`: semaphore, claims of workers and pending `sem_post` add up to the list.
* `PopsAreSafe`: a worker that holds the mutex to pop finds an element.
* `CountMatchesLinks`: with the mutex free, `elements_count` is the number of elements.
* `Refinement`: `Spec => Channel!Spec`, the queue implements the FIFO channel of `JobChannel`.
* `AnswersAreTheirOwn`: `AnswersMatch`, under `SingleWorker`.

The inductive invariant is `IInv == TypeOK /\ QueueInv /\ InboxBounded /\ WorkersFollow`.
`SizeIsLength` is not inductive: inside the mutex the count lags behind the links.
`SizeTracksList` says by how much (the owner's pending update) and needs `MutexOf`, that the
owner of the mutex is the thread inside the list. With it `DepositLink`, which links after
element `size`, links after the last one. `SemCountsList` makes the list at least as long as
the number of workers between `sem_wait` and pop, so a pop finds an element; `ListIsNext` says
which: the list holds the jobs that follow the taken ones, in order of arrival, which is
the refinement. `WorkersFollow` (a worker past its pop has a job, one past its allocation has
arguments) is what the types of the later statements rest on, and needs no more than that the
shared `args` is not NULL: what it points to may be another worker's.

With one worker it is not. `SingleInv` adds to `IInv` that the job at work is the last one
taken, that `args` is what this worker allocated for it, with the fields it has filled in so
far (`ArgumentsAreOwn`), and that the i-th answer of a client is to its i-th request
(`AnswersFollow`; `Served` is the number of jobs taken less the one still at work). The
hypothesis is what `WorkerPool_args` shows to be needed.

### The event loop: `EventLoop_proofs` and `EventLoopStreams_proofs`

* `TypeCorrect`: `Spec => []TypeOK`.
* `NothingIsForgotten`: `NothingForgotten`.
* `LoopIsFree`: `LoopIsHeldOnlyByClients`.
* `AnswersGoHome`: `AnswersAreOwn`.

The loop reads one message per event of an edge-triggered epoll and blocks inside it. That
works because of what the clients do, so the invariant is about both ends, in layers:

1. `LoopInv`, the loop's own state: a client has one descriptor or one place in the backlog;
   what `cur`, `buf` and `batch` hold follows from `pc`; only watched descriptors have events;
   and unless two connections made one event, each connection in the backlog has one
   (`BacklogHasEvents`). It holds whatever the streams contain.
2. `FramingInv`, for clients that live and never sent part of a message: what the loop has
   in its buffer followed by what is on its way (`Stream`) is a sequence of whole messages,
   the handshake first; a descriptor that is in the ready list or in the batch has a message,
   one that is in both has two. So a read that has begun can be finished, and the loop never
   blocks on a living client.
3. `ConversationInv`, for clients whose streams are whole and whose descriptor was nobody's
   before: one party has the word. Either there is a message on its way to the server or a
   job for it, or an answer on its way back, never two of these; what a client reads is
   marked with its last request. A connection whose handshake the loop has not read holds
   only the handshake, so two messages never make one event.
4. `NothingWaits` and `LoopStopsOnlyByClients`: what lies unread has an event, in the ready list
   or in the loop's hands. Without 3 this fails: two messages on one descriptor, one event.

Layer 2 is what `Framed` is for: it is stated unit by unit, because a partial read or write
moves any number of units, and lemmas say that a prefix that ends where a message ends, and
the rest behind it, are framed again. The first proof of layer 4 failed for a client that
inherits a descriptor with another's answer pending; `NothingForgotten` and its exception
were wrong for three requests, and were corrected (see EventLoop above).

### The client: `FuseClient_proofs`

* `TypeCorrect`: `Spec => []TypeOK`.
* `NoConnectionIsLost`: `ConnectionsConserved`.
* `SocketsCarryOneMessage`: `OneOutstanding`, which layer 3 above takes from the client.
* `CacheIsStaleOnlyAsKnown`: `StaleOnlyAsKnown`.
* `NoRefusalIsLost`: `RefusalsAreReported`, an action property.

The inductive invariant is `IInv == HandsInv /\ SizesBounded /\ DropsHold /\ AnswersFresh /\
CacheInv`. `HandsInv` says what each thread has in its hands and still to do as a function of
its place, and that what is on a socket is the one request or answer of its holder: pools,
hands and wire together are inductive, none of them alone is. `RefusalsAreReported` needs
from it that the answer a callback reads is of a kind that its request can get. The cache needs
three more: until the server has a change, the copies the callback dropped are gone or somebody
is known to have put them back (`DropsHold`); an answer on its way that no change has overtaken
is right (`AnswersFresh`); and a cached listing is that of the children even of a directory
that is gone (`CacheInv`), because the directory may come back with the listing still there.
`SizesBounded` keeps `size` within the type, which a run's bound on calls makes finite.

### The remote cache: `RemoteCache_proofs` and `FreeMemory_proofs`

* `TypeCorrect`, `NodesAreConserved`, `TableSizeIsRight`: `TypeOK`, `NodesConserved`,
  `CurrentIsSum`, under either scheme and for any number of connections.
* `MemoryIsAccountedFor`: `MemoryAccountedFor`, under `OnlyDynamic`.
* `KeysAreUnique`, `HeldAreReserved`, `CompactionKeeps`: `UniqueKeys`, `HeldIsReserved`,
  `CompactionKeepsItems`, under `OneConnection`, with either scheme.
* `FreePartitionsAreApart`: `FreeAreApart`, the half of `FreeMemoryIsUnited` that is about dynamic
  partitions, for any memory and any number of connections.
* `BuddiesAreHalvesOfHalves`, `FreeMemoryIsPutTogether`: `BuddiesAligned`, `FreeMemoryIsUnited`,
  under `PowerOfTwo`, for any number of connections.

The properties speak of walks along the links (`Listed`, `Spares`, `Ends`), which one step
changes in many places. The inductive invariant `IInv` says the same without a walk: a node is
a partition if it has memory (`InUse`), else spare, and there is a numbering (`rank`) under which
each of the two sets is one line along `next`, from `elements` and from `nodes`, to a NULL
(`TwoLines`). A step that links a node in or out changes the numbering behind it by one;
`NodeInserted` and `NodeRemoved` give the new one, once for both schemes and both lists, and
`MemorySplit`, `MemoryMerged` and `MemorySwapped` add what happens to the memory. That a walk of
`Cant` links sees exactly a line (`ListedAreInUse`) is an induction, done with the least number
that fails. Two things in it are less plain:

* Nodes are enough (`NodesAreEnough`): a partition has at least a slab and there are as many nodes
  as slabs, so while two spare nodes are left only one slab may be missing. This is why node
  `Cant`, which is not in the array, is never taken although the last element links it.
* `RoomIsShared` is an equation for dynamic partitions (each begins where the one before
  ends) and an inequality for the buddy system, whose halves of an odd number of bytes
  lose one. `Tiles` is therefore false of it for such sizes, which is what `OnlyDynamic`
  excludes.

`FreeIsBlank` (what is free was cleared, but for the partition that an allocation has just
found) makes the sum of the sizes follow: an item gets its size in a partition of size 0.
`CallFollows` and `ItemFollows` say which callback is where with what in its hands, and that it is
still a partition, whatever `Store` and `ReleaseTest` of the other connections do between
two steps of the lock's owner. The proof found that a backward merge may go on from a
reserved partition (three connections, one more than the run then had), which lost its node to the
spare ones with the item in it; the model names this as damage now and the run has three
connections.

With one connection `SingleInv` is inductive beside it: keys are apart; the key that is being
allocated is nobody's but that of the item which is removed for it; what is reserved is what
the connection holds or gives back, and what it holds is reserved. So while it allocates nothing
is reserved, a compaction moves stored items only, and the flag that it sets on what it moves
(`Moved`) was set before.

`FreeAreApart` holds although `MergeForward` leaves a stale `prev` behind it. `ApartInv` says
why: while the list is intact, two free partitions touch only at the place where the
callback is working (`AtHand`), and no partition but the first has lost its `prev`, so a
removal that finds no predecessor to merge with has none that is free: one that is stale leads
either to the predecessor or to damage. A step that neither frees nor takes memory (`Quiet`)
keeps it and its counterpart for halves alike.

The buddy system needs arithmetic. `PowerOfTwo` says that a memory is a slab doubled some
number of times, as the comment at `diccionario_buddy.c:48` asks; what the proofs use of the
sizes is that of two of them the smaller divides the larger, and its double too unless they are
equal (`SizesDivide`). `HalvesInv` then is inductive: pieces leave no byte between them, each has
such a size and lies at a multiple of it; an item takes more than half of its piece
(`Snug`); free siblings (`Twins`) only lie next to each other at the place at hand. The code finds
siblings without an address: `es_el_primer_hermano` adds up the smaller pieces on its way until
they make a block of the size in question. `BlocksAreMultiples` shows, along the list,
that blocks and left-over pieces add up to the address (`CountedRight` is one step of the
count), so the parity of the count is that of the address, the first half is the one that
lies at a multiple of twice its size (`FirstLiesEvenly`), and the one that `Unite` takes
is the other half.

### Only model-checked

* Liveness, deadlock and ENABLED: out of the prover's reach.
* What the theorems under `WrittenStay` and `NoRemovals` leave out fails: with removals an unlock may be
  of another's lock, an unlink asks for the mutex while it owns its file, and two threads that
  create one name at once leave two entries, of which a later unlink takes one and clears
  the inode.
* `Volume`: trees of blocks and directory records are walked by folds over sequences.

## What is not modelled, and why

* Two threads in the allocator at once: `buscarBloquesLibres` and `asignarBloque` are separate
  critical sections, and nothing in the code keeps a second search from the same block.
* Directories of more than one block: the code never gives one a second block that it uses.
* Block sizes other than 1 KB: the first data block is then 0, and the numbering of
  `bitmap.c`, which adds 1, is off by one.
* Names that end with the name of a directory above them in `OpenFileTable`: the requests of its
  runs have none, and counts and locks do not rest on which inode a path resolves to. `Volume` has
  them.
* Paths over 40 characters in `OpenFileTable`: refused before any lock is taken (`FuseClient` has
  the refusal).
* OPEN_FILE and RELEASE_FILE: the client never sends them (`fuse.c` answers open and release
  itself).
* The disk delay, logs, the inotify branch of the loop (`rfs.c:173-186`) and the reading of
  configurations; mmap and its advice.
* `get_item_info`, `cansic_dump`, statistics and flags of the remote cache.
* The fields inside requests and answers: a request is a record, its length a number.
* `structures_synchronizer_finishHim`, `openFileListDestroy`: never called.

## Plan

Done: the open-file table with its lock protocol, the thread pool, the volume, the event loop,
the client with its pools and cache, the remote cache's engine with both schemes; the theorems
about all of them but the volume. Next:

1. `CacheStore`: contents over the engine; abstract specification: a lossy key-value store, in
   which a get returns what the last set of the key stored or nothing.
2. The allocator for interleaved threads: who may own a block after a race.
3. Composition: clients, event loop, pool and open-file table, end to end.
