------------------------------- MODULE Volume -------------------------------
(***************************************************************************)
(* What the server's operations do to the mapped image: directory records, *)
(* inodes, block trees, data, and the copies of blocks kept in the remote  *)
(* cache (ext2_operations.c, memcachear.c, procesadorDePedidos.c).  One    *)
(* request runs at a time here: OpenFileTable has the locks and the        *)
(* interleavings.  The client's kernel looks up every component of a path  *)
(* before it asks, so that a request names an existing father, and what it *)
(* removes or writes.                                                      *)
(***************************************************************************)
EXTENDS BlockTree

CONSTANTS
  Path, Root,
  father,        \* [Path -> Path \cup {Root}]
  Name, name,    \* the last component of each path
  Prefix,        \* <<m, n>>: m is a proper prefix of n
  Suffix,        \* <<m, n>>: n ends with m and is longer
  units,         \* room of a record with that name, in words: 2 + name
  blockUnits,    \* words in a directory block
  systemBlocks,  \* blocks of the superblock, tables and root, from 1
  systemInodes,  \* reserved inodes, of which the root's is 2
  Initially,     \* what earlier mounts left: sequences of <<path, size>>
  Truncations, Extents,   \* sizes, and <<offset, bytes>>, that clients ask for each path
  MaxRequests

Dot == "."
DotDot == ".."
rootInode == 2
NoBlock == 0

ASSUME VolumeAssumption ==
  /\ Root \notin Path /\ father \in [Path -> Path \cup {Root}]
  /\ name \in [Path -> Name] /\ units \in [Name -> Nat]
  /\ Prefix \subseteq Name \X Name /\ Suffix \subseteq Name \X Name
  /\ systemBlocks \in 1 .. s_blocks_count /\ systemInodes \in 2 .. s_inodes_count

VARIABLES
  img, disk,
  inode,       \* the inode tables
  records,     \* directory blocks
  used_dirs,   \* bg_used_dirs_count
  cache,       \* blocks kept by memcached, by path and block
  content,     \* reference: what each file should hold
  shrunk,      \* history: files that were cut
  displaced,   \* history: files that grew at another level than their next block's
  reused,      \* history: paths whose blocks were given up, or read past the last
  lost,        \* history: blocks that stay marked with no pointer to them
  damage,      \* history: what went wrong with the directories and the trees
  answer,      \* of the last request
  died, requests

diskVars == <<img, disk, inode, records, used_dirs>>
histories == <<shrunk, displaced, reused, lost, damage>>
vars == <<diskVars, cache, content, histories, answer, died, requests>>

Total == cantidadDeGroupBlocks * s_inodes_per_group
Answers == {"none", "OK", "YA_EXISTE", "NO_ESTA_VACIO", "data"}
Damages == {"prefix removed", "last inode used", "entry elsewhere", "removed by another name",
            "data as pointers"}
Nothing == [path |-> Root, what |-> "none", got |-> <<>>, want |-> <<>>, offset |-> 0]

-----------------------------------------------------------------------------
(* Directories: a block is a chain of records that fills it.               *)
Room(n) == IF n \in Name THEN units[n] ELSE 3
Entry(n, i, len) == [name |-> n, inode |-> i, rec_len |-> len]
NewDirectory(i, up) == <<Entry(Dot, i, 3), Entry(DotDot, up, blockUnits - 3)>>

(* The walks end at inode 0, and at one not below the number of inodes.    *)
Before(entries, k) == \A j \in 1 .. k - 1 : entries[j].inode \in 1 .. Total - 1

ext2_getblocksofdir(entries) ==
  {k \in DOMAIN entries : Before(entries, k + 1)}
FindIn(entries, n) ==
  LET hits == {k \in DOMAIN entries : entries[k].name = n /\ Before(entries, k)}
  IN  IF hits = {} THEN 0 ELSE entries[Min(hits)].inode

DirBlock(i) == inode[i].D[1]

(* arrayOfNameDirs: the paths that end with each component of p.           *)
Components[p \in Path \cup {Root}] == IF p = Root THEN <<>> ELSE Append(Components[father[p]], p)

(* string_ends_with(p, the component q): the walk ends at the first such   *)
(* component, the last one or not.                                         *)
EndsWith(p, q) == name[q] = name[p] \/ <<name[q], name[p]>> \in Suffix

Walk(p) == SubSeq(Components[p], 1, Min({k \in DOMAIN Components[p] : EndsWith(p, Components[p][k])}))

ext2_get_Inode(p) ==
  LET Enter(i, q) == IF i = 0 \/ inode[i].mode # "dir" THEN 0 ELSE FindIn(records[DirBlock(i)], name[q])
  IN  IF p = Root THEN rootInode ELSE FoldLeft(Enter, rootInode, Walk(p))

(* What the client's kernel has looked up, one component after the other.  *)
IsA(p, mode) == LET i == ext2_get_Inode(p) IN i # 0 /\ (i # 0 => inode[i].mode = mode)
FathersExist(p) == \A q \in ToSet(Components[p]) \ {p} : IsA(q, "dir")
Exists(p, mode) == FathersExist(p) /\ IsA(p, mode)
Absent(p) == FathersExist(p) /\ ext2_get_Inode(p) = 0

\* (mutant) the new record takes the whole length of the one it follows
RestWhole(e) == e.rec_len

(* The first record with strictly more room than the new one needs is cut. *)
Rest(e) == e.rec_len - Room(e.name)
Fits(e, n) == Rest(e) > Room(n)
ext2_addEntryToDirectory(entries, n, i) ==
  LET k == Min({j \in DOMAIN entries : Fits(entries[j], n)})
      e == entries[k]
  IN  SubSeq(entries, 1, k - 1)
        \o <<[e EXCEPT !.rec_len = Room(e.name)], Entry(n, i, Rest(e))>>
        \o SubSeq(entries, k + 1, Len(entries))
HasRoom(entries, n) == \E j \in DOMAIN entries : Fits(entries[j], n)

(* strncmp over the length of the record's own name: a record whose name   *)
(* is a prefix matches too.  Its room goes to the record before it.        *)
Matches(e, n) == e.name = n \/ <<e.name, n>> \in Prefix
Matching(entries, n) == {k \in 2 .. Len(entries) : Matches(entries[k], n)}
FirstMatch(entries, n) == entries[Min(Matching(entries, n))]
ext2_deleteDirEntry(entries, n) ==
  LET k == Min(Matching(entries, n))
  IN  SubSeq(entries, 1, k - 2)
        \o <<[entries[k - 1] EXCEPT !.rec_len = @ + entries[k].rec_len]>>
        \o SubSeq(entries, k + 1, Len(entries))

-----------------------------------------------------------------------------
Request(p, what) ==
  /\ ~died /\ requests < MaxRequests
  /\ requests' = requests + 1
  /\ answer' = [Nothing EXCEPT !.path = p, !.what = what]

Dies ==
  /\ died' = TRUE
  /\ UNCHANGED <<diskVars, cache, content, histories>>

\* (mutant) a copy that is there is not replaced
memc_setOnce(c, p, k, block) == c @@ (<<p, k>> :> block)

(* Block k of a file is copied to the cache; a read takes the copy.        *)
memc_set(c, p, k, block) == (<<p, k>> :> block) @@ c

memc_get(c, p, k, data) == IF <<p, k>> \in DOMAIN c THEN c[<<p, k>>] ELSE disk[data[k]]

(* memc_delete drops the entry of the physical number it is given; it was  *)
(* set under the number within the file.                                   *)
Forget(p, dropped) == [k \in DOMAIN cache \ ({p} \X dropped) |-> cache[k]]

DirOf(p) == DirBlock(ext2_get_Inode(father[p]))
InRecords(p, i) == ext2_addEntryToDirectory(records[DirOf(p)], name[p], i)

(* A record with the last inode hides those after it from every walk; and  *)
(* when the father's walk ends early, the record goes to a directory above.*)
NewRecord(p, i) ==
  (IF i = Total THEN {"last inode used"} ELSE {})
    \cup (IF father[p] # Root /\ Walk(father[p]) # Components[father[p]] THEN {"entry elsewhere"} ELSE {})

(* create answers OK when there is no inode, too: the error is overwritten *)
ext2_create_file(p) ==
  LET i == buscarInodosLibres(img)
  IN  /\ Absent(p)
      /\ Request(p, "OK")
      /\ IF i = 0 THEN UNCHANGED <<diskVars, cache, content, histories, died>>
         ELSE IF ~HasRoom(records[DirOf(p)], name[p]) THEN Dies   \* adds blocks it never looks at, to the last
         ELSE /\ records' = [records EXCEPT ![DirOf(p)] = InRecords(p, i)]
              /\ img' = asignarInodo(img, i)
              /\ inode' = [inode EXCEPT ![i] = [EmptyInode EXCEPT !.mode = "file"]]
              /\ content' = (p :> <<>>) @@ content
              /\ shrunk' = shrunk \ {p} /\ displaced' = displaced \ {p}
              /\ damage' = damage \cup NewRecord(p, i)
              /\ UNCHANGED <<disk, used_dirs, cache, reused, lost, died>>

ext2_mkdir(p) ==
  LET i == buscarInodosLibres(img)
      b == Nth(buscarBloquesLibres(img, 1), 1)
  IN  /\ Absent(p)
      /\ Request(p, "OK")
      /\ IF i = 0 \/ b = 0 \/ ~HasRoom(records[DirOf(p)], name[p]) THEN Dies
         ELSE /\ img' = asignarBloque(asignarInodo(img, i), b)
              /\ disk' = [disk EXCEPT ![b] = Zeros]
              /\ inode' = [inode EXCEPT ![i] = [EmptyInode EXCEPT
                             !.mode = "dir", !.size = blockSize, !.D[1] = b]]
              /\ records' = [records EXCEPT
                               ![DirOf(p)] = InRecords(p, i),
                               ![b] = NewDirectory(i, ext2_get_Inode(father[p]))]
              /\ used_dirs' = [used_dirs EXCEPT ![InodeGroup(i)] = @ + 1]
              /\ damage' = damage \cup NewRecord(p, i)
              /\ UNCHANGED <<cache, content, shrunk, displaced, reused, lost, died>>

(* A block number of the file at cells from .. to - 1 comes out of block 0.*)
LedAstray(ino, d, from, to) ==
  IF \E k \in from \div blockSize .. Ceil(to, blockSize) - 1 : Astray(d, ino, k)
  THEN {"data as pointers"} ELSE {}

(* Both removals free the blocks of the size, not those of the tree; what  *)
(* the size has and the tree has not is block 0.                           *)
FreeInode(i) ==
  LET blocks == ext2_get_AllBlocks(disk, inode[i], inode[i].size)
  IN  FoldLeft(LAMBDA w, k : Drop(w, blocks[k - 1]),
               Working(desasignarInodo(img, i), disk, inode[i]),
               UpTo(Ceil(inode[i].size, blockSize)))

RemoveInode(p, i, w) ==
  /\ img' = w.img
  /\ inode' = [inode EXCEPT ![i] = EmptyInode]
  /\ cache' = Forget(p, w.dropped)
  /\ died' = w.died
  /\ lost' = lost \cup (Owned(disk, inode[i]) \ w.dropped)
  /\ content' = [q \in DOMAIN content \ {p} |-> content[q]]
  /\ reused' = reused \cup {p}
  /\ UNCHANGED <<disk, shrunk, displaced>>

RemoveEntry(p, i) ==
  /\ records' = [records EXCEPT ![DirOf(p)] = ext2_deleteDirEntry(@, name[p])]
  /\ RemoveInode(p, i, FreeInode(i))
  /\ damage' = damage \cup LedAstray(inode[i], disk, 0, inode[i].size) \cup
       (IF FirstMatch(records[DirOf(p)], name[p]).name # name[p] THEN {"prefix removed"} ELSE {})

ext2_removeFile(p) ==
  LET i == ext2_get_Inode(p)
  IN  /\ Exists(p, "file")
      /\ Request(p, "OK")
      /\ RemoveEntry(p, i)
      /\ UNCHANGED used_dirs

(* With no record of the name the scan goes on to what follows the block,  *)
(* and matches it when the byte at the place of a name's length is 0.  No  *)
(* directory starts so; in other blocks it may be.                         *)
PastTheBlock(b) ==
  IF \E i \in Inodes : inode[i].mode = "dir" /\ DirBlock(i) = b + 1 THEN {FALSE} ELSE BOOLEAN

(* The walk ended at a directory above the one that is asked for: the      *)
(* record stays, with the inode and the block that are given up.           *)
RemoveAbove(p, i) ==
  /\ RemoveInode(p, i, FreeInode(i))
  /\ damage' = damage \cup {"removed by another name"}
  /\ UNCHANGED records

Refused == UNCHANGED <<diskVars, cache, content, histories, died>>
OneDirectoryLess(i) == used_dirs' = [used_dirs EXCEPT ![InodeGroup(i)] = @ - 1]

ext2_removeDir(p) ==
  LET i       == ext2_get_Inode(p)
      inUse   == Cardinality(ext2_getblocksofdir(records[DirBlock(i)])) > 2
      present == Matching(records[DirOf(p)], name[p]) # {}
  IN  /\ Exists(p, "dir")
      /\ \/ inUse /\ Request(p, "NO_ESTA_VACIO") /\ Refused
         \/ ~inUse /\ present /\ Request(p, "OK") /\ RemoveEntry(p, i) /\ OneDirectoryLess(i)
         \/ /\ ~inUse /\ ~present
            /\ \E matches \in PastTheBlock(DirOf(p)) :
                 \/ matches /\ Request(p, "OK") /\ RemoveAbove(p, i) /\ OneDirectoryLess(i)
                 \/ ~matches /\ Request(p, "NO_ESTA_VACIO") /\ Refused

-----------------------------------------------------------------------------
(* Growing gives cleared blocks, and leaves the rest of the last block.    *)
Resized(w, diff) ==
  IF diff > 0 THEN addBlocks(w, diff) ELSE IF diff < 0 THEN removeBlocks(w, -diff) ELSE w

(* The sizes, in blocks, whose level is not that of the next block: some   *)
(* direct pointers free, or with more blocks than a level has pointers,    *)
(* the level below not full.                                               *)
Between(size) ==
  Ceil(size, blockSize) \in 1 .. Directos - 1
    \cup indS + 1 .. Directos + indS - 1
    \cup indD + 1 .. Directos + indS + indD - 1
Displaced(p, size, end) ==
  IF Ceil(end, blockSize) > Ceil(size, blockSize) /\ Between(size) THEN displaced \cup {p} ELSE displaced

(* What a file should hold is known as long as its path is its own.        *)
Holds(p) == IF p \in DOMAIN content THEN content[p] ELSE <<>>
Keep(p, cells) == IF p \in DOMAIN content THEN [content EXCEPT ![p] = cells] ELSE content

SetSize(p, i, ino, w, new_size) ==
  /\ img' = w.img /\ disk' = w.disk
  /\ inode' = [inode EXCEPT ![i] = [w.ino EXCEPT !.size = new_size]]
  /\ cache' = Forget(p, w.dropped)
  /\ died' = w.died
  /\ content' = Keep(p, [k \in 1..new_size |-> IF k <= Len(Holds(p)) THEN Holds(p)[k] ELSE 0])
  /\ displaced' = Displaced(p, ino.size, new_size)
  /\ shrunk' = IF new_size < ino.size THEN shrunk \cup {p} ELSE shrunk
  /\ reused' = IF new_size < ino.size THEN reused \cup {p} ELSE reused
  /\ lost' = IF w.ino.IDT = 0 THEN lost \cup (UnderTriple(disk, ino) \ w.dropped) ELSE lost
  /\ UNCHANGED <<records, used_dirs, damage>>

ext2_truncateFile(p, new_size) ==
  LET i    == ext2_get_Inode(p)
      diff == Ceil(new_size, blockSize) - Ceil(inode[i].size, blockSize)
  IN  /\ Exists(p, "file")
      /\ Request(p, "OK")
      /\ SetSize(p, i, inode[i], Resized(Working(img, disk, inode[i]), diff), new_size)

(* Block after block is written with x in the file's cells from offset to  *)
(* end - 1, and copied to the cache: two pieces may share block 0.         *)
WriteBlock(s, p, k, b, offset, end, x) ==
  LET d == [s.disk EXCEPT ![b] = [c \in 1..indS |->
              IF k * blockSize + c - 1 \in offset .. end - 1 THEN x ELSE @[c]]]
  IN  [disk |-> d, cache |-> memc_set(s.cache, p, k, d[b])]
Written(s, p, data, offset, end, x) ==
  LET first == offset \div blockSize
  IN  FoldLeft(LAMBDA t, n : WriteBlock(t, p, first + n - 1, data[first + n - 1], offset, end, x),
               s, UpTo(Ceil(end, blockSize) - first))

(* The rest of the last block is cleared when a hole follows it.           *)
ClearTail(ino, offset) ==
  LET size == ino.size
      tail == Logical(disk, ino, Ceil(size, blockSize) - 1)
  IN  IF offset > size /\ size % blockSize > 0
      THEN [disk EXCEPT ![tail] = [c \in 1..indS |-> IF c > size % blockSize THEN 0 ELSE @[c]]]
      ELSE disk

(* The blocks to add are counted from the bytes past the size, which may   *)
(* be one more than the file needs.                                        *)
GrowTo(w, end) ==
  IF Ceil(end, blockSize) > Ceil(w.ino.size, blockSize)
  THEN addBlocks(w, Ceil(end - w.ino.size, blockSize)) ELSE w

Store(p, i, w, s, offset, end) ==
  /\ died' = w.died
  /\ img' = w.img
  /\ disk' = s.disk /\ cache' = s.cache
  /\ inode' = [inode EXCEPT ![i] = [w.ino EXCEPT !.size = Max({@, end})]]
  /\ content' = Keep(p, [k \in 1 .. Max({Len(Holds(p)), end}) |->
                           IF k - 1 \in offset .. end - 1 THEN requests + 2
                           ELSE IF k <= Len(Holds(p)) THEN Holds(p)[k] ELSE 0])
  /\ displaced' = Displaced(p, inode[i].size, end)
  /\ damage' = damage \cup LedAstray(w.ino, w.disk, offset, end)
                      \cup LedAstray(w.ino, w.disk, Max({0, inode[i].size - 1}), inode[i].size)
  /\ UNCHANGED <<records, used_dirs, shrunk, reused, lost>>

StoreIn(p, i, w, offset, end) ==
  LET data == ext2_get_AllBlocks(w.disk, w.ino, end)
  IN  Store(p, i, w, Written([disk |-> w.disk, cache |-> cache], p, data, offset, end, requests + 2), offset, end)

ext2_writeFile(p, offset, bytes) ==
  LET i   == ext2_get_Inode(p)
      end == offset + bytes
  IN  /\ Exists(p, "file")
      /\ Request(p, "OK")
      /\ StoreIn(p, i, GrowTo(Working(img, ClearTail(inode[i], offset), inode[i]), end), offset, end)

(* A copy from the cache, else from the disk, which is then cached.  What  *)
(* follows the first block is read only when it is more than the first     *)
(* block had left: otherwise zeros are answered.                           *)
ext2_ReadFile(p, offset, bytes) ==
  LET i      == ext2_get_Inode(p)
      size   == inode[i].size
      n      == Lesser(bytes, size - offset)
      data   == ext2_get_AllBlocks(disk, inode[i], size)
      first  == offset \div blockSize
      room   == blockSize - (offset % blockSize)
      more   == n - Lesser(n, room)
      last   == IF more > room THEN (offset + n - 1) \div blockSize ELSE first
      Byte(at) == IF at \div blockSize <= last THEN memc_get(cache, p, at \div blockSize, data)[(at % blockSize) + 1] ELSE 0
  IN  /\ Exists(p, "file")
      /\ offset <= size
      /\ ~died /\ requests < MaxRequests
      /\ requests' = requests + 1
      /\ answer' = [path |-> p, what |-> "data", offset |-> offset,
                    got  |-> [k \in 1..n |-> Byte(offset + k - 1)],
                    want |-> [k \in 1..n |-> IF offset + k <= Len(Holds(p)) THEN Holds(p)[offset + k] ELSE 0]]
      /\ cache' = cache @@ [key \in {p} \X (first .. last) |-> disk[data[key[2]]]]
      /\ reused' = IF last >= Ceil(size, blockSize) THEN reused \cup {p} ELSE reused
      /\ UNCHANGED <<diskVars, content, shrunk, displaced, lost, damage, died>>

-----------------------------------------------------------------------------
(* An image as the program itself leaves it: the first files, each written *)
(* in one piece.                                                           *)
RootBlock == systemBlocks
Start ==
  [img     |-> Formatted(1..systemBlocks \cup (Blocks \ 1..s_blocks_count), 1..systemInodes),
   disk    |-> [b \in 0 .. s_blocks_count + 1 |-> Zeros],
   inode   |-> [i \in Inodes |-> IF i = rootInode
                  THEN [EmptyInode EXCEPT !.mode = "dir", !.size = blockSize, !.D[1] = RootBlock]
                  ELSE EmptyInode],
   entries |-> NewDirectory(rootInode, rootInode)]

FileIn(s, p, i, w, size) ==
  [img |-> w.img,
   disk |-> Written([disk |-> w.disk, cache |-> <<>>], p,
                    ext2_get_AllBlocks(w.disk, w.ino, size), 0, size, 1).disk,
   inode |-> [s.inode EXCEPT ![i] = [w.ino EXCEPT !.size = size]],
   entries |-> ext2_addEntryToDirectory(s.entries, name[p], i)]
WithFile(s, p, size) ==
  LET i     == buscarInodosLibres(s.img)
      fresh == Working(asignarInodo(s.img, i), s.disk, [EmptyInode EXCEPT !.mode = "file"])
  IN  FileIn(s, p, i, addBlocks(fresh, Ceil(size, blockSize)), size)

Mounted(s) ==
  /\ img = s.img /\ disk = s.disk /\ inode = s.inode
  /\ records = [b \in Blocks |-> IF b = RootBlock THEN s.entries ELSE <<>>]

Init ==
  /\ \E files \in Initially :
       /\ Mounted(FoldLeft(LAMBDA t, f : WithFile(t, f[1], f[2]), Start, files))
       /\ content = FoldLeft(LAMBDA c, f : (f[1] :> [k \in 1..f[2] |-> 1]) @@ c, <<>>, files)
  /\ used_dirs = [g \in Group |-> IF g = InodeGroup(rootInode) THEN 1 ELSE 0]
  /\ cache = [k \in {} |-> Zeros]
  /\ shrunk = {} /\ displaced = {} /\ reused = {} /\ lost = {} /\ damage = {}
  /\ answer = Nothing /\ died = FALSE /\ requests = 0

Next ==
  \/ \E p \in Path : ext2_create_file(p) \/ ext2_mkdir(p) \/ ext2_removeFile(p) \/ ext2_removeDir(p)
  \/ \E p \in Path : \E size \in Truncations[p] : ext2_truncateFile(p, size)
  \/ \E p \in Path : \E e \in Extents[p] : ext2_writeFile(p, e[1], e[2]) \/ ext2_ReadFile(p, e[1], e[2])

Spec == Init /\ [][Next]_vars

-----------------------------------------------------------------------------
Files == {i \in Inodes : inode[i].mode # "none"}
FileAt(p) == inode[ext2_get_Inode(p)]
Sound(p) == p \in DOMAIN content /\ Exists(p, "file")

(* No directory was named through another one's path, and no block through *)
(* a pointer that is a file's data.                                        *)
PathsAreOwn == damage \cap {"entry elsewhere", "removed by another name"} = {}
PointersAreOwn == "data as pointers" \notin damage

(* The variables keep their types.                                         *)
TypeOK ==
  /\ img \in Image
  /\ disk \in [0 .. s_blocks_count + 1 -> [1..indS -> Nat]]
  /\ \A i \in Inodes : inode[i].mode \in {"none", "file", "dir"} /\ inode[i].size \in Nat
  /\ used_dirs \in [Group -> Int]
  /\ DOMAIN cache \subseteq Path \X Nat
  /\ DOMAIN content \subseteq Path
  /\ shrunk \subseteq Path /\ displaced \subseteq Path /\ reused \subseteq Path
  /\ lost \subseteq Blocks /\ damage \subseteq Damages
  /\ answer.what \in Answers /\ died \in BOOLEAN

(* No block is referenced from two places, and none that is referenced is  *)
(* free: addBlocks never hands out a block in use, and no removal frees    *)
(* one that stays in a tree.                                               *)
OneOwner ==
  LET refs == UNION {{<<i, r[1], r[2]>> : r \in References(disk, inode[i])} : i \in Files}
  IN  /\ Cardinality({r[3] : r \in refs}) = Cardinality(refs)
      /\ \A r \in refs : r[3] \in img.blocks

(* The free counts of groups and superblock, and the number of directories *)
(* per group, are those of the bitmaps and the inodes.                     *)
CountsAgree ==
  /\ CountsExact(img)
  /\ \A g \in Group :
       used_dirs[g] = Cardinality({i \in Files : InodeGroup(i) = g /\ inode[i].mode = "dir"})

(* Every block marked as used is referenced, was never to be given out, or *)
(* is lost in one of two ways: it was in the tree of a removed file but    *)
(* not one of the blocks of its size, or under the triple indirect pointer *)
(* of a file that was cut.  Nothing else loses blocks.                     *)
LossesAreKnown ==
  img.blocks = 1..systemBlocks \cup (Blocks \ 1..s_blocks_count) \cup lost
                 \cup UNION {Owned(disk, inode[i]) : i \in Files}

(* Every block is free, in use in one place, or lost in a known way, until *)
(* a file's data is taken for pointers.                                    *)
BlocksAccountedFor == died \/ ~PointersAreOwn \/ (OneOwner /\ CountsAgree /\ LossesAreKnown)

(* A file that was never cut, and never grew from one of the sizes whose   *)
(* level the 32-bit product puts too high, has a block for each piece of   *)
(* its size, and those blocks hold what was written, up to the last block  *)
(* of the double indirect level: whatever the other files do, those that   *)
(* write to block 0 included.                                              *)
Reach == (Directos + indS + indD) * blockSize
GrownFilesHoldTheirContent ==
  \A p \in DOMAIN content \ (shrunk \cup displaced) :
    died \/ ~PathsAreOwn \/ ~PointersAreOwn \/ ~Sound(p) \/ Len(content[p]) > Reach \/
    LET f == FileAt(p)
    IN  /\ f.size = Len(content[p])
        /\ \A at \in 0 .. f.size - 1 :
             LET b == Logical(disk, f, at \div blockSize)
             IN  b # NoBlock /\ disk[b][(at % blockSize) + 1] = content[p][at + 1]

(* The copies in the remote cache are the blocks of the disk, for paths    *)
(* that never gave up a block and never were read at a block's end (the    *)
(* code drops cached blocks by another number than it cached them under),  *)
(* and whose pieces never share block 0.                                   *)
CacheIsDisk ==
  \A key \in DOMAIN cache :
    LET p == key[1] f == FileAt(p)
    IN  died \/ ~PathsAreOwn \/ ~PointersAreOwn \/ p \in reused \cup displaced \/ ~Sound(p)
        \/ Len(content[p]) > Reach \/
        /\ key[2] < Ceil(f.size, blockSize)
        /\ cache[key] = disk[Logical(disk, f, key[2])]

(* ... and what is read of such a file is what was last written, from the  *)
(* cache and the disk alike; only what lies past the first block, when it  *)
(* is no more than the room of the first block, is answered as zeros.      *)
ReadsSeeWrites ==
  LET p    == answer.path
      room == blockSize - (answer.offset % blockSize)
      more == Len(answer.got) - room
  IN  answer.what = "data" /\ p \notin reused \cup displaced
        /\ PathsAreOwn /\ PointersAreOwn /\ Len(Holds(p)) <= Reach
        => IF more \in 1..room
           THEN answer.got = [k \in DOMAIN answer.want |-> IF k <= room THEN answer.want[k] ELSE 0]
           ELSE answer.got = answer.want

(* The cache does not show.                                                *)
CacheIsTransparent == CacheIsDisk /\ ReadsSeeWrites

(* Every block of a directory is filled by its records, each large enough  *)
(* for its name.                                                           *)
RecordsFill ==
  \A i \in Files :
    inode[i].mode = "dir" =>
      LET e == records[DirBlock(i)]
      IN  /\ FoldLeft(LAMBDA n, x : n + x.rec_len, 0, e) = blockUnits
          /\ \A k \in DOMAIN e : e[k].rec_len >= Room(e[k].name)

(* Records and inodes correspond one to one, a directory has one record of *)
(* a name, and a directory that is removed was empty; unless a removal     *)
(* took the record of a shorter name or the inode of a directory above,    *)
(* a record went to a directory above, or the last inode came into use.    *)
OneNamePerInode ==
  LET dirs  == {i \in Files : inode[i].mode = "dir"}
      names == UNION {{<<i, k, records[DirBlock(i)][k]>> : k \in 3 .. Len(records[DirBlock(i)])} : i \in dirs}
  IN  /\ {n[3].inode : n \in names} = Files \ {rootInode}
      /\ \A n, m \in names :
           n[3].inode = m[3].inode \/ (n[1] = m[1] /\ n[3].name = m[3].name) => n = m
      /\ img.inodes = 1..systemInodes \cup Files

(* A directory's block is full of records, one for each inode in use.      *)
DirectoriesSound == RecordsFill /\ (died \/ damage # {} \/ OneNamePerInode)
=============================================================================
