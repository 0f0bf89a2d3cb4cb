---------------------------- MODULE OpenFileTable ----------------------------
(***************************************************************************)
(* The open-file table of the RFS server (rfs/synchronizer.c) and the lock *)
(* protocol that the operations of rfs/ext2_operations.c follow on it.     *)
(*                                                                         *)
(* Every operation first looks its path up in one list of open_file_t      *)
(* (foundOrAddOpenFileInList), which counts the users of the path and      *)
(* carries a read-write lock; it then takes that lock, works on the mapped *)
(* file system, releases the lock and drops its reference                  *)
(* (open_file_finishHim).  One mutex protects the list and it is held while*)
(* the element's write lock is awaited.  Operations that change a directory*)
(* do the same once more for the father ("father" frame), removeDir calls  *)
(* ReadDir on its own path ("list" frame), and every handler opens the path*)
(* again to send its answer under the read lock ("reply" frame).           *)
(*                                                                         *)
(* pthread calls have glibc's semantics: the return value is ignored by    *)
(* the code, a lock requested by the thread that already owns it for       *)
(* writing fails with EDEADLK and changes nothing, and an unlock releases  *)
(* whatever the caller owns.                                               *)
(***************************************************************************)
EXTENDS Integers, FiniteSets

CONSTANTS Worker,       \* the threads of the pool (rfs.c: thPool)
          Path,         \* the paths the clients name
          Root,         \* "/"
          Father,       \* [Path -> Path], the directory a path lives in
          Requests,     \* the requests clients may send: [op: Ops, path: Path]
          Tree,         \* [Path -> Kinds], the volume when the server starts
          Spare,        \* bound: blocks a directory can still grow by
          MaxRequests,  \* bound: requests taken from the queue
          NoWorker, NoPath

LockedReads  == {"getattr", "readdir"}          \* lock, then look the path up
ReadOps      == LockedReads \cup {"read"}
FileOps      == {"truncate", "write", "read"}   \* look the path up, then lock
CreateOps    == {"create", "mkdir"}
RemoveOps    == {"removefile", "removedir"}
Ops          == LockedReads \cup FileOps \cup CreateOps \cup RemoveOps

Kinds  == {"zero", "reg", "dir"}                \* i_mode of the path's inode
Frames == {"file", "father", "list", "reply"}   \* C variables that hold an open_file_t*

ASSUME ConfigAssumption ==
  /\ IsFiniteSet(Worker) /\ NoWorker \notin Worker /\ NoPath \notin Path
  /\ Root \in Path /\ Father \in [Path -> Path]
  /\ Requests \subseteq [op : Ops, path : Path]
  /\ \A r \in Requests : r.path = Root => r.op \in LockedReads
  /\ \A p \in Path \ {Root} : Father[p] # p
  /\ Tree \in [Path -> Kinds] /\ Tree[Root] = "dir"
  /\ Spare \in Nat /\ MaxRequests \in Nat

\* the name of a father is shorter than the name of what lives in it: following the fathers
\* leaves every set of paths
ASSUME PathsAssumption ==
  \A S \in SUBSET (Path \ {Root}) : S # {} => \E p \in S : Father[p] \notin S

VARIABLES
  mutex,    \* owner of list->mutex
  table,    \* paths that have an element in open_file_list
  count,    \* file->count (0 when the path has no element)
  writer,   \* thread that owns the element's lock for writing
  readers,  \* __nr_readers of the element's lock
  entries,  \* directory entries that name the path
  inode,    \* kind of the path's inode, "zero" when it is cleared or not yet written
  spare,    \* free blocks left for directories
  pc, frame, op, path, out,   \* control state and locals of each worker
  ref,      \* ref[w][f]: the open_file_t* in frame f of worker w
  leaked,   \* history: references dropped without open_file_finishHim
  served,   \* requests taken so far
  crashed   \* an invalid pointer was dereferenced or freed: the process is gone

lockVars   == <<writer, readers>>
tableVars  == <<mutex, table, count>>
diskVars   == <<entries, inode, spare>>
localVars  == <<pc, frame, op, path, out>>
vars == <<tableVars, lockVars, diskVars, localVars, ref, leaked, served, crashed>>

Labels == {"idle", "check", "found", "found_wr", "lookup", "test", "lock", "body",
           "unlock", "fin", "fin_wr", "recheck", "erase"}
Outcomes == {"none", "present", "absent", "added", "retry", "deleted",
             "missing", "nonempty", "empty"}

TypeOK ==
  /\ mutex \in Worker \cup {NoWorker}
  /\ table \subseteq Path
  /\ count \in [Path -> Nat]
  /\ writer \in [Path -> Worker \cup {NoWorker}]
  /\ readers \in [Path -> Int]
  /\ entries \in [Path -> Nat]
  /\ inode \in [Path -> Kinds]
  /\ spare \in 0..Spare
  /\ pc \in [Worker -> Labels]
  /\ frame \in [Worker -> Frames]
  /\ op \in [Worker -> Ops]
  /\ path \in [Worker -> Path]
  /\ out \in [Worker -> Outcomes]
  /\ ref \in [Worker -> [Frames -> Path \cup {NoPath}]]
  /\ leaked \in [Path -> Nat]
  /\ served \in 0..MaxRequests
  /\ crashed \in BOOLEAN

Init ==
  /\ mutex = NoWorker /\ table = {} /\ count = [p \in Path |-> 0]
  /\ writer = [p \in Path |-> NoWorker] /\ readers = [p \in Path |-> 0]
  /\ entries = [p \in Path |-> IF Tree[p] = "zero" THEN 0 ELSE 1]
  /\ inode = Tree /\ spare = Spare
  /\ pc = [w \in Worker |-> "idle"] /\ frame = [w \in Worker |-> "file"]
  /\ op = [w \in Worker |-> "getattr"] /\ path = [w \in Worker |-> Root]
  /\ out = [w \in Worker |-> "none"]
  /\ ref = [w \in Worker |-> [f \in Frames |-> NoPath]]
  /\ leaked = [p \in Path |-> 0] /\ served = 0 /\ crashed = FALSE

-----------------------------------------------------------------------------
(* Lookups and locks *)

\* ext2_get_Inode(p) # NULL: every component of p has a directory entry.  (A path that ends
\* with the name of a directory on its way is taken for that directory; Volume has those.)
Resolves(p) ==
  LET resolves[q \in Path] == IF q = Root THEN TRUE ELSE entries[q] > 0 /\ resolves[Father[q]]
  IN resolves[p]

\* ext2_get_Inode(p) reads the blocks of a directory on the way whose inode has no
\* size: ext2_readBlocks gives it NULL, which it dereferences
Faults(p) ==
  LET faults[q \in Path] ==
        IF q = Root THEN FALSE
        ELSE IF Resolves(Father[q]) /\ inode[Father[q]] = "zero" THEN TRUE
        ELSE faults[Father[q]]
  IN faults[p]

Finds(p)  == ~Faults(p) /\ Resolves(p)
Misses(p) == ~Faults(p) /\ ~Resolves(p)

\* the path an operation, its deleteDirEntry/addEntryToDirectory or its ReadDir works on
FramePath(w, f) == IF f = "father" THEN Father[path[w]] ELSE path[w]
Here(w) == FramePath(w, frame[w])

\* pthread_rwlock_wrlock returns at once: free, or EDEADLK for its own writer
WriteReturns(w, p) == writer[p] = w \/ (writer[p] = NoWorker /\ readers[p] = 0)

\* pthread_rwlock_rdlock; the EDEADLK of the current writer is ignored
Rdlock(w, p) ==
  /\ writer[p] \in {w, NoWorker}
  /\ readers' = [readers EXCEPT ![p] = IF writer[p] = w THEN @ ELSE @ + 1]
  /\ UNCHANGED writer

\* pthread_rwlock_wrlock; the EDEADLK of the current writer is ignored
Wrlock(w, p) ==
  /\ WriteReturns(w, p)
  /\ writer' = [writer EXCEPT ![p] = w]
  /\ UNCHANGED readers

\* pthread_rwlock_unlock: the writer's own lock, else one reader; for a thread that
\* holds nothing the outcome is undefined (some glibc drop the other writer)
RwUnlock(w, p) ==
  \/ /\ writer[p] = w
     /\ writer' = [writer EXCEPT ![p] = NoWorker]
     /\ UNCHANGED readers
  \/ /\ writer[p] # w
     /\ readers' = [readers EXCEPT ![p] = @ - 1]
     /\ UNCHANGED writer
  \/ /\ writer[p] \notin {w, NoWorker}
     /\ writer' = [writer EXCEPT ![p] = NoWorker]
     /\ UNCHANGED readers

\* (mutant) the read lock for every operation
TakeShared(w) == Rdlock(w, Here(w))

\* the call that each operation makes on the lock of the current frame
TakeLock(w) ==
  IF op[w] \in ReadOps \/ frame[w] \in {"list", "reply"}
  THEN Rdlock(w, Here(w)) ELSE Wrlock(w, Here(w))

\* (mutant) a return without the unlock
ReleaseForgotten(w) == UNCHANGED lockVars

\* ... and the unlock it ends with
ReleaseLock(w) == RwUnlock(w, Here(w))

\* wrlock, count++ or count--, unlock on an element: it ends free of w
WrlockUnlock(w, p) ==
  /\ WriteReturns(w, p)
  /\ writer' = [writer EXCEPT ![p] = NoWorker]
  /\ UNCHANGED readers

-----------------------------------------------------------------------------
(* Control *)

At(w, label) == ~crashed /\ pc[w] = label
Goto(w, label) == pc' = [pc EXCEPT ![w] = label]
\* call foundOrAddOpenFileInList for frame f
Open(w, f) == Goto(w, "found") /\ frame' = [frame EXCEPT ![w] = f]

\* the operation is over: the handler sends the answer
Answer(w) == Open(w, "reply")

\* (mutant) an error return that skips the answer
ReturnSilently(w) ==
  /\ Goto(w, "idle") /\ frame' = [frame EXCEPT ![w] = "file"]
  /\ ref' = [ref EXCEPT ![w]["file"] = NoPath]
  /\ leaked' = [leaked EXCEPT ![path[w]] = @ + 1]

\* the operation returns with its reference to the path (and its lock) still held
ReturnLeaking(w) ==
  /\ Answer(w)
  /\ ref' = [ref EXCEPT ![w]["file"] = NoPath]
  /\ leaked' = [leaked EXCEPT ![path[w]] = @ + 1]

\* a worker takes a job from the queue and runs its handler
Take(w) ==
  /\ At(w, "idle") /\ served < MaxRequests
  /\ \E r \in Requests :
       /\ op' = [op EXCEPT ![w] = r.op]
       /\ path' = [path EXCEPT ![w] = r.path]
       /\ Goto(w, IF r.op \in CreateOps THEN "check" ELSE "found")
  /\ frame' = [frame EXCEPT ![w] = "file"]
  /\ out' = [out EXCEPT ![w] = "none"]
  /\ served' = served + 1
  /\ UNCHANGED <<tableVars, lockVars, diskVars, ref, leaked, crashed>>

\* the next thing w does is to look up the path of the current frame; a listing
\* then reads the blocks of the path itself
LooksUp(w) ==
  \/ pc[w] \in {"check", "lookup", "recheck"}
  \/ /\ pc[w] = "body"
     /\ frame[w] # "file" \/ op[w] \in LockedReads \cup {"removefile"}
Lists(w) == pc[w] = "body" /\ (frame[w] = "list" \/ (frame[w] = "file" /\ op[w] = "readdir"))

\* ... and the server dies of it
WalkFault(w) ==
  /\ ~crashed /\ LooksUp(w)
  /\ Faults(Here(w)) \/ (Lists(w) /\ Resolves(Here(w)) /\ inode[Here(w)] = "zero")
  /\ crashed' = TRUE
  /\ UNCHANGED <<tableVars, lockVars, diskVars, localVars, ref, leaked, served>>

\* a file that grows, a new directory (whose entry is visible by now) and a directory
\* that is full need a block: buscarBloquesLibres that finds none returns NULL, which they
\* dereference, and one that finds too few block 0, whose group has no lock
OutOfBlocks(w) ==
  /\ At(w, "body")
  /\ \/ frame[w] = "file" /\ op[w] \in {"truncate", "write", "mkdir"}
     \/ frame[w] = "father" /\ op[w] \in CreateOps /\ spare = 0 /\ Finds(Here(w))
  /\ crashed' = TRUE
  /\ UNCHANGED <<tableVars, lockVars, diskVars, localVars, ref, leaked, served>>

\* procesarPedidoCreateFile/Dir: YA_EXISTE (whose res->path the mkdir handler never
\* sets), no free inode (NULL from ext2_mkdir), or on to add the entry to the father
CheckNew(w) ==
  /\ At(w, "check")
  /\ \/ Finds(path[w]) /\ Answer(w) /\ UNCHANGED crashed
     \/ Finds(path[w]) /\ op[w] = "mkdir" /\ Answer(w) /\ crashed' = TRUE
     \/ Misses(path[w]) /\ Answer(w) /\ crashed' = (op[w] = "mkdir")
     \/ Misses(path[w]) /\ Open(w, "father") /\ UNCHANGED crashed
  /\ UNCHANGED <<tableVars, lockVars, diskVars, op, path, out, ref, leaked, served>>

\* (mutant) an element found in the list is returned without counting its new user
AddUserUncounted(w, p) ==
  /\ ref' = [ref EXCEPT ![w][frame[w]] = p]
  /\ UNCHANGED count

\* count++ of the element found, and the pointer that is returned
AddUser(w, p) ==
  /\ count' = [count EXCEPT ![p] = @ + 1]
  /\ ref' = [ref EXCEPT ![w][frame[w]] = p]

\* foundOrAddOpenFileInList: lock the list; a new element starts with one user
FoundOrAdd(w) ==
  LET p == Here(w) IN
  /\ At(w, "found") /\ mutex = NoWorker
  /\ \/ /\ p \in table
        /\ mutex' = w
        /\ Goto(w, "found_wr")
        /\ UNCHANGED <<table, count, lockVars, ref>>
     \/ /\ p \notin table
        /\ table' = table \cup {p}
        /\ count' = [count EXCEPT ![p] = 1]
        /\ writer' = [writer EXCEPT ![p] = NoWorker]
        /\ readers' = [readers EXCEPT ![p] = 0]
        /\ ref' = [ref EXCEPT ![w][frame[w]] = p]
        /\ Goto(w, IF frame[w] = "file" /\ op[w] \in FileOps THEN "lookup" ELSE "lock")
        /\ UNCHANGED mutex
  /\ UNCHANGED <<diskVars, frame, op, path, out, leaked, served, crashed>>

\* ... an existing element: write-lock it, count this user, unlock it and the list
FoundCount(w) ==
  LET p == Here(w) IN
  /\ At(w, "found_wr") /\ WrlockUnlock(w, p)
  /\ AddUser(w, p)
  /\ mutex' = NoWorker
  /\ Goto(w, IF frame[w] = "file" /\ op[w] \in FileOps THEN "lookup" ELSE "lock")
  /\ UNCHANGED <<table, diskVars, frame, op, path, out, leaked, served, crashed>>

\* truncateFile, writeFile, ReadFile: ext2_get_Inode before any lock is taken
LookupUnlocked(w) ==
  /\ At(w, "lookup")
  /\ ~Faults(path[w])
  /\ Goto(w, IF Resolves(path[w]) THEN "test" ELSE "fin")
  /\ UNCHANGED <<tableVars, lockVars, diskVars, frame, op, path, out, ref, leaked, served, crashed>>

\* ... i_mode & EXT2_IFREG, still unlocked; writeFile unlocks even when it is not
TestRegular(w) ==
  /\ At(w, "test")
  /\ Goto(w, IF inode[path[w]] = "reg" THEN "lock"
             ELSE IF op[w] = "write" THEN "unlock" ELSE "fin")
  /\ UNCHANGED <<tableVars, lockVars, diskVars, frame, op, path, out, ref, leaked, served, crashed>>

\* the operation takes the lock of the element in the current frame
Lock(w) ==
  /\ At(w, "lock") /\ TakeLock(w)
  /\ IF op[w] = "removedir" /\ frame[w] = "file"
     THEN Open(w, "list")
     ELSE Goto(w, IF frame[w] = "reply" THEN "unlock" ELSE "body") /\ UNCHANGED frame
  /\ UNCHANGED <<tableVars, diskVars, op, path, out, ref, leaked, served, crashed>>

-----------------------------------------------------------------------------
(* What each operation does while it holds the lock of the current frame *)

InBody(w, f, kinds) == At(w, "body") /\ frame[w] = f /\ op[w] \in kinds
Result(w, o) == out' = [out EXCEPT ![w] = o]
UntouchedByBody == <<tableVars, lockVars, op, path, served>>

\* truncate, write and read move data only
DataBody(w) ==
  /\ InBody(w, "file", FileOps) /\ Goto(w, "unlock")
  /\ UNCHANGED <<UntouchedByBody, diskVars, frame, out, ref, leaked, crashed>>

\* getAttr and ReadDir look the path up under the read lock; so does the ReadDir
\* of removeDir, which lists the directory
ListBody(w) ==
  /\ \/ InBody(w, "file", LockedReads)
     \/ InBody(w, "list", RemoveOps)
  /\ ~Faults(path[w]) /\ (Lists(w) /\ Resolves(path[w]) => inode[path[w]] # "zero")
  /\ Goto(w, "unlock")
  /\ Result(w, IF ~Resolves(path[w]) THEN "absent"
               ELSE IF \E p \in Path \ {Root} : Father[p] = path[w] /\ entries[p] > 0
               THEN "nonempty" ELSE "empty")
  /\ UNCHANGED <<UntouchedByBody, diskVars, frame, ref, leaked, crashed>>

\* (mutant) the inode of the new path is never filled in
WriteInodeBlank(w) ==
  /\ InBody(w, "file", CreateOps) /\ Goto(w, "unlock")
  /\ UNCHANGED <<UntouchedByBody, diskVars, frame, out, ref, leaked, crashed>>

\* create_file and mkdir write the inode of the new path
WriteInode(w) ==
  /\ InBody(w, "file", CreateOps) /\ Goto(w, "unlock")
  /\ inode' = [inode EXCEPT ![path[w]] = IF op[w] = "mkdir" THEN "dir" ELSE "reg"]
  /\ UNCHANGED <<UntouchedByBody, entries, spare, frame, out, ref, leaked, crashed>>

\* removeFile: a missing inode is dereferenced, a directory is refused with the
\* lock and the reference kept
RemoveFileBody(w) ==
  /\ InBody(w, "file", {"removefile"})
  /\ \/ /\ Misses(path[w]) /\ crashed' = TRUE
        /\ UNCHANGED <<pc, frame, ref, leaked>>
     \/ /\ Finds(path[w]) /\ inode[path[w]] = "dir"
        /\ ReturnLeaking(w) /\ UNCHANGED crashed
     \/ /\ Finds(path[w]) /\ inode[path[w]] # "dir"
        /\ Open(w, "father") /\ UNCHANGED <<ref, leaked, crashed>>
  /\ UNCHANGED <<UntouchedByBody, diskVars, out>>

\* (mutant) the directory grows without looking for a free block
GrowUnchecked == spare' = spare - 1

\* addBlocks(inode, 1) finds a free block for the directory
Grow == spare > 0 /\ spare' = spare - 1

\* addEntryToDirectory under the father's lock: no father is a crash; a full
\* directory grows by a block and the whole step is tried again
AddEntry(w) ==
  /\ InBody(w, "father", CreateOps)
  /\ \/ /\ Misses(Here(w)) /\ crashed' = TRUE
        /\ UNCHANGED <<pc, out, entries, spare>>
     \/ /\ Finds(Here(w)) /\ Goto(w, "unlock") /\ UNCHANGED crashed
        /\ \/ /\ entries' = [entries EXCEPT ![path[w]] = @ + 1]
              /\ Result(w, "added") /\ UNCHANGED spare
           \/ Grow /\ Result(w, "retry") /\ UNCHANGED entries
  /\ UNCHANGED <<UntouchedByBody, inode, frame, ref, leaked>>

\* deleteDirEntry under the father's lock
DeleteEntry(w) ==
  /\ InBody(w, "father", RemoveOps)
  /\ \/ /\ Misses(Here(w)) /\ crashed' = TRUE
        /\ UNCHANGED <<pc, out, entries>>
     \/ /\ Finds(Here(w)) /\ Goto(w, "unlock") /\ UNCHANGED crashed
        /\ IF entries[path[w]] > 0
           THEN /\ entries' = [entries EXCEPT ![path[w]] = @ - 1]
                /\ Result(w, "deleted")
           ELSE Result(w, "missing") /\ UNCHANGED entries
  /\ UNCHANGED <<UntouchedByBody, inode, spare, frame, ref, leaked>>

\* pthread_rwlock_unlock in the current frame; getAttr of a missing path returns
\* without open_file_finishHim
Unlock(w) ==
  /\ At(w, "unlock") /\ ReleaseLock(w)
  /\ IF frame[w] = "file" /\ op[w] = "getattr" /\ out[w] = "absent"
     THEN ReturnLeaking(w)
     ELSE Goto(w, "fin") /\ UNCHANGED <<frame, ref, leaked>>
  /\ UNCHANGED <<tableVars, diskVars, op, path, out, served, crashed>>

\* open_file_finishHim: lock the list
FinishHim(w) ==
  /\ At(w, "fin") /\ mutex = NoWorker
  /\ mutex' = w /\ Goto(w, "fin_wr")
  /\ UNCHANGED <<table, count, lockVars, diskVars, frame, op, path, out, ref, leaked,
                 served, crashed>>

\* where a worker goes when open_file_finishHim returns to it
AfterFinish(w) ==
  \/ frame[w] = "file" /\ Answer(w)
  \/ frame[w] = "list" /\ Goto(w, "recheck") /\ UNCHANGED frame
  \/ frame[w] = "father" /\ out[w] = "added" /\ Open(w, "file")
  \/ frame[w] = "father" /\ out[w] = "retry" /\ Open(w, "father")
  \/ /\ frame[w] = "father" /\ out[w] \in {"deleted", "missing"}
     /\ Goto(w, "erase") /\ frame' = [frame EXCEPT ![w] = "file"]
  \/ frame[w] = "reply" /\ Goto(w, "idle") /\ UNCHANGED frame

\* (mutant) the element is destroyed with a user left
UncountEarly(p) ==
  /\ count' = [count EXCEPT ![p] = @ - 1]
  /\ table' = IF count[p] <= 2 THEN table \ {p} ELSE table

\* (mutant) the element is never destroyed
UncountKeeping(p) ==
  /\ count' = [count EXCEPT ![p] = @ - 1]
  /\ UNCHANGED table

\* count--; at zero openFileListRemoveAndDestroy
Uncount(p) ==
  /\ count' = [count EXCEPT ![p] = @ - 1]
  /\ table' = IF count[p] = 1 THEN table \ {p} ELSE table

\* ... write-lock the element, drop this user, destroy the element with the last one
FinishCount(w) ==
  LET p == ref[w][frame[w]] IN
  /\ At(w, "fin_wr") /\ WrlockUnlock(w, p)
  /\ Uncount(p)
  /\ mutex' = NoWorker
  /\ ref' = [ref EXCEPT ![w][frame[w]] = NoPath]
  /\ AfterFinish(w)
  /\ UNCHANGED <<diskVars, op, path, out, leaked, served, crashed>>

\* removeDir after ReadDir: no list is a crash, a directory in use and a path that
\* went away are refused with the reference kept
RecheckDir(w) ==
  /\ At(w, "recheck")
  /\ \/ /\ out[w] = "absent" /\ crashed' = TRUE
        /\ UNCHANGED <<pc, frame, ref, leaked>>
     \/ /\ out[w] = "nonempty" \/ (out[w] = "empty" /\ Misses(path[w]))
        /\ ReturnLeaking(w) /\ UNCHANGED crashed
     \/ /\ out[w] = "empty" /\ Finds(path[w])
        /\ Open(w, "father") /\ UNCHANGED <<ref, leaked, crashed>>
  /\ UNCHANGED <<UntouchedByBody, diskVars, out>>

\* removeFile and removeDir after deleteDirEntry: an entry that was not there is an
\* error with the reference kept, else the inode is cleared; removeDir does not unlock
Erase(w) ==
  /\ At(w, "erase")
  /\ \/ /\ out[w] = "missing" /\ ReturnLeaking(w) /\ UNCHANGED inode
     \/ /\ out[w] = "deleted"
        /\ inode' = [inode EXCEPT ![path[w]] = "zero"]
        /\ Goto(w, IF op[w] = "removefile" THEN "unlock" ELSE "fin")
        /\ UNCHANGED <<frame, ref, leaked>>
  /\ UNCHANGED <<UntouchedByBody, entries, spare, out, crashed>>

Step(w) ==
  \/ WalkFault(w) \/ OutOfBlocks(w) \/ CheckNew(w) \/ FoundOrAdd(w) \/ FoundCount(w)
  \/ LookupUnlocked(w) \/ TestRegular(w) \/ Lock(w)
  \/ DataBody(w) \/ ListBody(w) \/ WriteInode(w) \/ RemoveFileBody(w)
  \/ AddEntry(w) \/ DeleteEntry(w) \/ Unlock(w)
  \/ FinishHim(w) \/ FinishCount(w) \/ RecheckDir(w) \/ Erase(w)

\* every request the bound allows was taken and answered, or the process died
Over ==
  /\ crashed \/ (served = MaxRequests /\ \A w \in Worker : pc[w] = "idle")
  /\ UNCHANGED vars

Next == (\E w \in Worker : Take(w) \/ Step(w)) \/ Over

Spec == Init /\ [][Next]_vars

\* a thread that can run does run; nothing is assumed about who gets a lock
FairSpec == Spec /\ \A w \in Worker : WF_vars(Step(w))

-----------------------------------------------------------------------------
(* Properties *)

\* the <<thread, frame>> pairs whose pointer in r is p's element
PointersTo(r, p) == {u \in Worker \X Frames : r[u[1]][u[2]] = p}

\* The user count of an element is exactly the number of pointers to it that threads
\* hold, plus the references that error returns dropped without open_file_finishHim.
CountIsExact == \A p \in Path : count[p] = Cardinality(PointersTo(ref, p)) + leaked[p]

\* No thread ever holds a pointer to an element that another thread has destroyed:
\* open_file_finishHim frees the element only when nobody can use it any more.
NoDanglingReference ==
  \A w \in Worker : \A f \in Frames : ref[w][f] # NoPath => ref[w][f] \in table

\* An element nobody counts is not in the list: openFileListRemoveAndDestroy is
\* reached by the last user and by no other.
TableIsTheCounted == table = {p \in Path : count[p] > 0}

\* An element leaves the list unlocked: pthread_rwlock_destroy is never called on a lock
\* that a thread still owns, whatever was created and removed under the same name.
DestroyedUnlocked ==
  \A p \in Path \ table : writer[p] = NoWorker /\ readers[p] = 0

\* The threads that are between a lock and its unlock on p
Inside(p, kinds) ==
  {w \in Worker : /\ pc[w] \in {"body", "unlock"} /\ Here(w) = p /\ op[w] \in kinds}
Inserting(p) == {w \in Inside(p, CreateOps \cup {"truncate", "write"}) : frame[w] # "reply"}

\* An operation that changes a file or a directory is alone on it: no other writer
\* and no reader is inside the same element.
WritersExclude ==
  \A p \in Path : \A w \in Inserting(p) :
    Inside(p, Ops) = {w}

\* Whoever owns the list mutex waits at most for a thread that is inside an element
\* and needs no list mutex to leave it: without removals the two kinds of lock cannot
\* close a cycle.
LockOwnersNeedNoMutex ==
  \A w \in Worker, p \in Path :
    writer[p] = w => pc[w] \in {"body", "unlock"}

\* A thread that is not serving a request owns no lock and holds no reference.
IdleOwnsNothing ==
  \A w \in Worker : pc[w] = "idle" =>
    /\ mutex # w
    /\ \A p \in Path : writer[p] # w
    /\ \A f \in Frames : ref[w][f] = NoPath

\* No lock outlives the one who took it or the element it guards.
LocksAreGivenBack == DestroyedUnlocked /\ IdleOwnsNothing

\* A path whose entry is visible but whose inode is not yet written has a creator at
\* work on it.
HalfMadeHasCreator ==
  \A p \in Path : entries[p] > 0 /\ inode[p] = "zero" =>
    \E w \in Worker : path[w] = p /\ op[w] \in CreateOps /\ pc[w] # "idle"

\* The calls a thread can be blocked in
Blocked(w) ==
  \/ pc[w] \in {"found", "fin"} /\ mutex # NoWorker
  \/ pc[w] \in {"found_wr", "fin_wr"} /\ ~WriteReturns(w, Here(w))
  \/ pc[w] = "lock" /\ writer[Here(w)] # w
                    /\ (writer[Here(w)] # NoWorker \/ readers[Here(w)] # 0)

Stuck ==
  /\ ~crashed
  /\ \E w \in Worker : pc[w] # "idle"
  /\ \A w \in Worker : pc[w] # "idle" => Blocked(w)

\* When every busy thread is blocked, either a removeFile or removeDir asks for the
\* list mutex while it owns its path's lock, or a write whose file was removed under it
\* unlocked what it did not own: no other mix of operations can close a cycle.
StuckOnlyThroughRemovals ==
  Stuck =>
  \/ \E w \in Worker : /\ op[w] \in RemoveOps /\ pc[w] \in {"found", "fin"}
                       /\ frame[w] # "file" /\ writer[path[w]] = w
  \/ \E p \in Path : readers[p] < 0

\* Every request a thread takes is answered, unless the process dies.
EveryRequestIsAnswered == \A w \in Worker : pc[w] # "idle" ~> pc[w] = "idle" \/ crashed

\* A rmdir or an unlink that the server starts ends, unless the process dies.
RemovalsAreAnswered ==
  \A w \in Worker :
    pc[w] # "idle" /\ op[w] \in RemoveOps ~> pc[w] = "idle" \/ crashed

-----------------------------------------------------------------------------
(* The inductive invariant behind CountIsExact and NoDanglingReference *)

\* frames in which the control state of w says there is a pointer
HeldFrames(w) ==
  (IF frame[w] \in {"father", "list"} /\ op[w] \in RemoveOps THEN {"file"} ELSE {})
    \cup (IF pc[w] \in {"idle", "check", "found", "found_wr", "recheck"}
          THEN {} ELSE {frame[w]})

PointersOf(w) ==
  \A f \in Frames : ref[w][f] = IF f \in HeldFrames(w) THEN FramePath(w, f) ELSE NoPath

\* which operations reach which frame and label
FlowOf(w) ==
  /\ frame[w] = "father" => op[w] \in CreateOps \cup RemoveOps
  /\ frame[w] = "list" => op[w] = "removedir"
  /\ pc[w] = "idle" => frame[w] \in {"file", "reply"}
  /\ pc[w] = "check" => op[w] \in CreateOps /\ frame[w] = "file"
  /\ pc[w] = "erase" => op[w] \in RemoveOps /\ frame[w] = "file"
  /\ pc[w] = "recheck" => op[w] = "removedir" /\ frame[w] = "list"
  /\ pc[w] \in {"lookup", "test"} => frame[w] = "file"
  /\ frame[w] = "father" /\ pc[w] \in {"unlock", "fin", "fin_wr"} =>
       \/ op[w] \in CreateOps /\ out[w] \in {"added", "retry"}
       \/ op[w] \in RemoveOps /\ out[w] \in {"deleted", "missing"}

\* the list mutex is owned by the thread that awaits an element's lock under it, and
\* the element it found stays in the list meanwhile
MutexOf(w) ==
  /\ (mutex = w) <=> (pc[w] \in {"found_wr", "fin_wr"})
  /\ pc[w] = "found_wr" => Here(w) \in table

FollowsControl == \A w \in Worker : PointersOf(w) /\ FlowOf(w) /\ MutexOf(w)

IInv == TypeOK /\ FollowsControl /\ CountIsExact /\ TableIsTheCounted
-----------------------------------------------------------------------------
(* The inductive invariant behind LocksAreGivenBack *)

\* a removal keeps the write lock of its path across the calls that it makes; what gives it
\* back after a refusal, or before the listing, is the next look-up of the same path, whose
\* wrlock fails with EDEADLK and whose unlock does not
KeepsPath(w) ==
  /\ op[w] \in RemoveOps
  /\ \/ frame[w] \in {"list", "reply"} /\ pc[w] \in {"found", "found_wr"}
     \/ op[w] = "removefile" /\ (frame[w] = "father" \/ pc[w] = "erase")

\* the elements that w may own for writing
MayOwn(w) ==
  (IF pc[w] \in {"body", "unlock"} /\ frame[w] \in {"file", "father"} /\ op[w] \notin ReadOps
   THEN {Here(w)} ELSE {})
    \cup (IF KeepsPath(w) THEN {path[w]} ELSE {})
OwnersFollow == \A w \in Worker, p \in Path : writer[p] = w => p \in MayOwn(w)

RootIsOnlyRead == \A w \in Worker : path[w] = Root => op[w] \in LockedReads

LockInv == OwnersFollow /\ DestroyedUnlocked /\ RootIsOnlyRead

-----------------------------------------------------------------------------
(* ... behind StuckOnlyThroughRemovals *)

\* the threads inside an element that hold its lock for reading
Shares(w) == op[w] \in ReadOps \/ frame[w] \in {"list", "reply"}
ReadersIn(p) == {w \in Inside(p, Ops) : Shares(w)}

\* no reader is counted who is not inside: an unlock of what the thread does not own can
\* only take readers away
ReadersBound ==
  \A p \in Path : /\ readers[p] <= Cardinality(ReadersIn(p))
                  /\ writer[p] # NoWorker => readers[p] <= 0

-----------------------------------------------------------------------------
(* ... behind WritersExclude, when what is written stays there *)

\* the files that are written were there from the start, and no request removes them or
\* makes directories of them
WrittenStay ==
  \A r \in Requests : r.op = "write" =>
    /\ Tree[r.path] = "reg"
    /\ \A s \in Requests : s.path = r.path => s.op \notin RemoveOps \cup {"mkdir"}

\* each request in work is one of those that the clients may send
TakenFromRequests == \A w \in Worker : pc[w] # "idle" => [op |-> op[w], path |-> path[w]] \in Requests
WrittenAreRegular == \A r \in Requests : r.op = "write" => inode[r.path] = "reg"

\* the elements that w owns for writing, whatever others unlock: that of the body it is in,
\* and the file whose entry it takes out of the father
MustOwn(w) ==
  (IF pc[w] \in {"body", "unlock"} /\ ~Shares(w) THEN {Here(w)} ELSE {})
    \cup (IF op[w] = "removefile" /\ (frame[w] = "father" \/ pc[w] = "erase") THEN {path[w]} ELSE {})

\* every lock is what the threads inside say
LocksExact ==
  \A p \in Path :
    /\ readers[p] = Cardinality(ReadersIn(p))
    /\ \A w \in Worker : p \in MustOwn(w) => writer[p] = w
    /\ writer[p] # NoWorker => readers[p] = 0

WrittenInv == LocksExact /\ TakenFromRequests /\ WrittenAreRegular

-----------------------------------------------------------------------------
(* ... and, without removals, behind HalfMadeHasCreator *)

NoRemovals == \A r \in Requests : r.op \notin RemoveOps

\* the one who added an entry is on the way to its inode
IsMaking(w) ==
  /\ op[w] \in CreateOps
  /\ \/ frame[w] = "father" /\ pc[w] \in {"unlock", "fin", "fin_wr"} /\ out[w] = "added"
     \/ frame[w] = "file" /\ pc[w] \in {"found", "found_wr", "lock", "body"}
HalfMadeIsMade ==
  \A p \in Path : entries[p] > 0 /\ inode[p] = "zero" => \E w \in Worker : path[w] = p /\ IsMaking(w)

MakingInv == HalfMadeIsMade /\ TakenFromRequests

=============================================================================
