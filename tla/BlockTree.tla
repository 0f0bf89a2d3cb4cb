----------------------------- MODULE BlockTree -----------------------------
(***************************************************************************)
(* The block tree of an inode (ext2_operations.c, inode.c): direct         *)
(* pointers and three levels of indirect blocks, grown by addBlocks,       *)
(* shrunk by removeBlocks and read by get_AllBlocks.  Memory is cells of   *)
(* the size of a block pointer: a block is indS cells, an indirect block's *)
(* cells are block numbers, a file's cells its data.  A call works on a    *)
(* record: the image, the disk, the inode, the slot it was given the       *)
(* address of (ptr), the count it was given the address of (cantidad) and  *)
(* its result (ret).                                                       *)
(***************************************************************************)
EXTENDS Bitmap

CONSTANTS
  Directos,   \* 12 in the code
  indS,       \* pointers in a block: blockSize / sizeof(uint32_t)
  uint32      \* 2^32 bytes, in cells: what products of uint32_t are taken modulo

blockSize == indS                                 \* in cells
indD == indS * indS
indT == indS * indS * indS

(* Blocks of 1 KB and more have indT * blockSize a multiple of 2^32.       *)
ASSUME TreeAssumption ==
  /\ Directos \in Nat \ {0} /\ indS \in Nat \ {0, 1}
  /\ uint32 \in Nat /\ uint32 > indD * blockSize
  /\ (indT * blockSize) % uint32 = 0
Zeros == [i \in 1..indS |-> 0]
Ceil(a, b) == (a + b - 1) \div b
Lesser(a, b) == IF a < b THEN a ELSE b
UpTo(n) == [i \in 1..n |-> i]                     \* the order of a loop
DownFrom(n) == [i \in 1..n |-> n + 1 - i]

EmptyInode == [mode |-> "none", size |-> 0, D |-> [i \in 1..Directos |-> 0],
               IDS |-> 0, IDD |-> 0, IDT |-> 0]

(* died: NULL was dereferenced, or block 0 marked or freed, whose group    *)
(* (0 - 1) / bloquesXGrupo is far outside the table of locks.              *)
Working(img, disk, ino) ==
  [img |-> img, disk |-> disk, ino |-> ino, dropped |-> {}, died |-> FALSE,
   ptr |-> 0, cantidad |-> 0, ret |-> 0]

(* A cell past the end of a block is one of the block that follows it.     *)
Cell(disk, b, i) == IF i <= indS THEN disk[b][i] ELSE disk[b + 1][i - indS]
SetCell(disk, b, i, x) ==
  IF i <= indS THEN [disk EXCEPT ![b][i] = x] ELSE [disk EXCEPT ![b + 1][i - indS] = x]

(* A call on the address of a field of the inode, or of a cell.            *)
PutField(w, field) == [w EXCEPT !.ino[field] = w.ptr]
InField(F(_), w, field) == PutField(F([w EXCEPT !.ptr = w.ino[field]]), field)
PutCell(w, b, i, ptr) == [w EXCEPT !.disk = SetCell(@, b, i, w.ptr), !.ptr = ptr]
InCell(F(_), w, b, i) == PutCell(F([w EXCEPT !.ptr = Cell(w.disk, b, i)]), b, i, w.ptr)
Left(w) == [w EXCEPT !.ret = w.cantidad]

Nth(libres, k) == IF k \in DOMAIN libres THEN libres[k] ELSE 0

\* (mutant) the block handed out is not marked
ClaimUnmarked(w, b) ==
  IF b = 0 THEN [w EXCEPT !.died = TRUE] ELSE [w EXCEPT !.disk[b] = Zeros]

Claim(w, b) ==
  IF b = 0 THEN [w EXCEPT !.died = TRUE]
  ELSE [w EXCEPT !.img = asignarBloque(@, b), !.disk[b] = Zeros]

Drop(w, b) ==
  IF b = 0 THEN [w EXCEPT !.died = TRUE]
  ELSE [w EXCEPT !.img = desasignarBloque(@, b), !.dropped = @ \cup {b}]

ClaimIndirect(w) ==
  LET b == Nth(buscarBloquesLibres(w.img, 1), 1) IN [Claim(w, b) EXCEPT !.ptr = b]
WithIndirect(w) == IF w.ptr = 0 THEN ClaimIndirect(w) ELSE w

-----------------------------------------------------------------------------
FillPointers(w, libres, empty) ==
  LET n          == Lesser(w.cantidad, Len(empty))
      Fill(v, k) == [Claim(v, Nth(libres, k)) EXCEPT !.disk[w.ptr][empty[k]] = Nth(libres, k)]
  IN  Left([FoldLeft(Fill, w, UpTo(n)) EXCEPT !.cantidad = @ - n])
FillLevelOne(w) ==
  FillPointers(w, buscarBloquesLibres(w.img, w.cantidad),
               SelectSeq(UpTo(indS), LAMBDA i : w.disk[w.ptr][i] = 0))
addInLevelOne(w) == FillLevelOne(WithIndirect(w))

\* (mutant) growth starts at the first empty pointer
FirstEmpty(disk, b) ==
  LET empty == {i \in 1..indS : disk[b][i] = 0}
  IN  IF empty = {} THEN indS + 1 ELSE Min(empty)

(* Starts at the pointer before the first empty one, which may have room;  *)
(* with no empty one the level counts as full, room or not.                *)
FirstWithRoom(disk, b) ==
  LET empty == {i \in 1..indS : disk[b][i] = 0}
  IN  IF empty = {} THEN indS + 1 ELSE Max({1, Min(empty) - 1})

FillLevelDouble(w) ==
  LET from       == FirstWithRoom(w.disk, w.ptr)
      Fill(v, i) == IF i >= from /\ v.cantidad > 0 THEN InCell(addInLevelOne, v, w.ptr, i) ELSE v
  IN  IF from > indS THEN [w EXCEPT !.ret = -1] ELSE Left(FoldLeft(Fill, w, UpTo(indS)))
addInLevelDouble(w) == FillLevelDouble(WithIndirect(w))

(* The pointer after the one in use is tested, also past the block's end;  *)
(* when a double indirect block is full the next pointer gets a block and  *)
(* the one after it the data.                                              *)
FillLevelTriple(w) ==
  LET free == {i \in 1..indS : Cell(w.disk, w.ptr, i + 1) = 0}
      from == IF free = {} THEN indS + 1 ELSE Min(free)
      Skip(v, i) ==
        IF v.ret = 0 THEN v
        ELSE InCell(addInLevelDouble, InCell(ClaimIndirect, v, w.ptr, from + i), w.ptr, from + i + 1)
  IN  FoldLeft(Skip, InCell(addInLevelDouble, w, w.ptr, from), UpTo(indS))
addInLevelTriple(w) == [FillLevelTriple(WithIndirect(w)) EXCEPT !.ret = 0]

(* indT * SbI.blockSize is a product of 32 bits: with it 0, the level of   *)
(* a file that is not empty is one more than its blocks call for.          *)
level_indirection(size) ==
  Cardinality({k \in {indS, indD, indT} : size > (k * blockSize) % uint32})

addDirect(w) ==
  LET libres == buscarBloquesLibres(w.img, Directos)
      empty  == SelectSeq(UpTo(Directos), LAMBDA i : w.ino.D[i] = 0)
      n      == Lesser(w.cantidad, Len(empty))
      Fill(v, k) == [Claim(v, Nth(libres, k)) EXCEPT !.ino.D[empty[k]] = Nth(libres, k)]
  IN  [FoldLeft(Fill, w, UpTo(n)) EXCEPT !.cantidad = @ - n]

(* From the level of the size upwards, while blocks are left to add.       *)
GrowAt(Grow(_), level, field, w) ==
  IF level_indirection(w.ino.size) <= level /\ w.cantidad > 0 THEN InField(Grow, w, field) ELSE w
addBlocks(w, cantidad) ==
  LET start  == [w EXCEPT !.cantidad = cantidad]
      direct == IF level_indirection(w.ino.size) = 0 THEN addDirect(start) ELSE start
      simple == GrowAt(addInLevelOne, 1, "IDS", direct)
      double == GrowAt(addInLevelDouble, 2, "IDD", simple)
  IN  GrowAt(addInLevelTriple, 3, "IDT", double)

-----------------------------------------------------------------------------
(* An indirect block is freed when the count left covers a full one; its   *)
(* cells are read and cleared after that.                                  *)
removeInLevelOne(w) ==
  LET top  == IF w.cantidad >= indS THEN [Drop(w, w.ptr) EXCEPT !.ptr = 0] ELSE w
      used == SelectSeq(DownFrom(indS), LAMBDA i : w.disk[w.ptr][i] # 0)
      n    == Lesser(w.cantidad, Len(used))
      Clear(v, k) == [Drop(v, w.disk[w.ptr][used[k]]) EXCEPT !.disk[w.ptr][used[k]] = 0]
      r    == FoldLeft(Clear, top, UpTo(n))
  IN  IF w.ptr = 0 THEN [w EXCEPT !.ret = -1]
      ELSE [r EXCEPT !.cantidad = @ - n, !.ret = w.cantidad - n]

removeInLevelDoubleOrTriple(InThisLevel(_), full, w) ==
  LET top == IF w.cantidad >= full THEN [Drop(w, w.ptr) EXCEPT !.ptr = 0] ELSE w
      Clear(v, i) == IF v.cantidad > 0 THEN InCell(InThisLevel, v, w.ptr, i) ELSE v
  IN  IF w.ptr = 0 THEN [w EXCEPT !.ret = -1] ELSE Left(FoldLeft(Clear, top, DownFrom(indS)))

removeDouble(w) == removeInLevelDoubleOrTriple(removeInLevelOne, indD, w)
removeTriple(w) == removeInLevelDoubleOrTriple(removeDouble, indT, w)

removeDirect(w) ==
  LET used == SelectSeq(DownFrom(Directos), LAMBDA i : w.ino.D[i] # 0)
      n    == Lesser(w.cantidad, Len(used))
      Clear(v, k) == [Drop(v, w.ino.D[used[k]]) EXCEPT !.ino.D[used[k]] = 0]
      r    == FoldLeft(Clear, w, UpTo(n))
  IN  [r EXCEPT !.cantidad = @ - n, !.died = @ \/ w.cantidad > n]   \* i wraps below 0

(* The last triple indirect block goes when the size no longer needs it    *)
(* (unsigned: a difference below zero is huge).                            *)
TrimTriple(w, rest) ==
  IF rest \in 0 .. (Directos + indS + indD) * blockSize /\ w.ino.IDT # 0
  THEN [Drop(w, w.ino.IDT) EXCEPT !.ino.IDT = 0]
  ELSE w
TakeAt(Shrink(_), field, w) == IF w.ret = 0 THEN w ELSE InField(Shrink, w, field)
removeBlocks(w, cantidad) ==
  LET triple == InField(removeTriple, [w EXCEPT !.cantidad = cantidad], "IDT")
      simple == TakeAt(removeInLevelOne, "IDS", TakeAt(removeDouble, "IDD", triple))
      Direct(v) == IF v.ret = 0 THEN v ELSE removeDirect(v)
  IN  TrimTriple(Direct(simple), w.ino.size - cantidad * blockSize)

-----------------------------------------------------------------------------
(* Where the k-th block of a file is read, from 0: a pointer of the inode  *)
(* and the cells that are followed from there.                             *)
Way(ino, k) ==
  LET s == k - Directos
      d == s - indS
      t == d - indD
  IN  CASE k < Directos         -> <<ino.D[k + 1], <<>>>>
        [] s \in 0 .. indS - 1  -> <<ino.IDS, <<s + 1>>>>
        [] d \in 0 .. indD - 1  -> <<ino.IDD, <<(d \div indS) + 1, (d % indS) + 1>>>>
        [] OTHER                -> <<ino.IDT, <<(t \div indD) + 1, ((t % indD) \div indS) + 1, (t % indS) + 1>>>>
Follow(disk, from, cells) == FoldLeft(LAMBDA b, c : disk[b][c], from, cells)
Logical(disk, ino, k) == LET way == Way(ino, k) IN Follow(disk, way[1], way[2])

(* Nothing tests a pointer for 0 on the way: block 0 is read as a block of *)
(* pointers, and what was written there is taken for a block's number.     *)
Astray(disk, ino, k) ==
  LET way == Way(ino, k)
  IN  /\ Logical(disk, ino, k) # 0
      /\ \E n \in 0 .. Len(way[2]) - 1 : Follow(disk, way[1], SubSeq(way[2], 1, n)) = 0

(* The blocks of the first size cells, at least one, and a zero after them *)
(* (calloc(cantidadDeBloques + 1)).                                        *)
ext2_get_AllBlocks(disk, ino, size) ==
  LET cantidadDeBloques == Max({1, Ceil(size, blockSize)})
  IN  [k \in 0 .. cantidadDeBloques |->
         IF k = cantidadDeBloques THEN 0 ELSE Logical(disk, ino, k)]

(* Every pointer in use below an inode: where it stands and what it names. *)
Below(disk, refs) ==
  {r \in UNION {{<<Append(p[1], i), disk[p[2]][i]>> : i \in 1..indS} : p \in refs} : r[2] # 0}
References(disk, ino) ==
  LET At(field) == {r \in {<<<<field>>, ino[field]>>} : r[2] # 0}
      Direct    == {r \in {<<<<"D", i>>, ino.D[i]>> : i \in 1..Directos} : r[2] # 0}
      dobles    == At("IDD") \cup Below(disk, At("IDT"))
      simples   == At("IDS") \cup Below(disk, dobles)
  IN  Direct \cup At("IDT") \cup dobles \cup simples \cup Below(disk, simples)
UnderTriple(disk, ino) == {r[2] : r \in {t \in References(disk, ino) : t[1][1] = "IDT"}}
Owned(disk, ino) == {r[2] : r \in References(disk, ino)}
=============================================================================
