------------------------------- MODULE Bitmap -------------------------------
(***************************************************************************)
(* The allocator of the mapped ext2 image (bitmap.c over bitarray.c,       *)
(* superbloque.c and groupDescriptor.c): bitmaps of blocks and inodes, the *)
(* free counts of every group and the free counts of the superblock.  An   *)
(* image is a record; the operators return the image a call leaves.  Each  *)
(* call takes two locks one after the other, the group's and the           *)
(* superblock's, so that each of the two sections has an operator.         *)
(***************************************************************************)
EXTENDS Integers, Sequences, FiniteSets, SequencesExt, FiniteSetsExt

CONSTANTS
  s_blocks_count, s_blocks_per_group,
  s_inodes_count, s_inodes_per_group

ASSUME GeometryAssumption ==
  /\ s_blocks_count \in Nat \ {0} /\ s_blocks_per_group \in Nat \ {0}
  /\ s_inodes_count \in Nat \ {0} /\ s_inodes_per_group \in Nat \ {0}

cantidadDeGroupBlocks ==
  s_blocks_count \div s_blocks_per_group
    + (IF s_blocks_count % s_blocks_per_group # 0 THEN 1 ELSE 0)

Group  == 0 .. cantidadDeGroupBlocks - 1
Blocks == 1 .. cantidadDeGroupBlocks * s_blocks_per_group   \* a bit each; mkfs sets those past the end
Inodes == 1 .. cantidadDeGroupBlocks * s_inodes_per_group

BlockGroup(b) == (b - 1) \div s_blocks_per_group
InodeGroup(i) == (i - 1) \div s_inodes_per_group
BlocksOf(g)   == {b \in Blocks : BlockGroup(b) = g}
InodesOf(g)   == {i \in Inodes : InodeGroup(i) = g}

(* An image: blocks and inodes whose bit is set; the counts kept beside    *)
(* them in the group descriptors (bg_) and in the superblock (s_).         *)
Image == [blocks : SUBSET Blocks, inodes : SUBSET Inodes,
          bg_free_blocks : [Group -> Nat], bg_free_inodes : [Group -> Nat],
          s_free_blocks : Nat, s_free_inodes : Nat]         \* unsigned: a negative count would wrap

(* What mkfs leaves when these blocks and inodes are in use.               *)
Formatted(usedBlocks, usedInodes) ==
  [blocks |-> usedBlocks, inodes |-> usedInodes,
   bg_free_blocks |-> [g \in Group |-> Cardinality(BlocksOf(g) \ usedBlocks)],
   bg_free_inodes |-> [g \in Group |-> Cardinality(InodesOf(g) \ usedInodes)],
   s_free_blocks |-> Cardinality(Blocks \ usedBlocks),
   s_free_inodes |-> Cardinality(Inodes \ usedInodes)]

(* The first n free blocks in ascending order, fewer when there are fewer; *)
(* the code then leaves zeros at the end, or returns NULL.                 *)
buscarEnGrupo(m, g, n) ==
  LET libres == SelectSeq([j \in 1..s_blocks_per_group |-> j + g * s_blocks_per_group],
                          LAMBDA b : b \notin m.blocks)
  IN  SubSeq(libres, 1, IF n < Len(libres) THEN n ELSE Len(libres))

buscarBloquesLibres(m, n) ==
  FoldLeft(LAMBDA libres, g : libres \o buscarEnGrupo(m, g - 1, n - Len(libres)),
           <<>>, [g \in 1..cantidadDeGroupBlocks |-> g])

(* 0 for the code's -1.                                                    *)
buscarInodosLibres(m) ==
  IF Inodes \subseteq m.inodes THEN 0 ELSE Min(Inodes \ m.inodes)

(* The section under writeBlocksLock: the bit is set or cleared without a  *)
(* look at what it was.                                                    *)
SetBit(m, b) ==
  [m EXCEPT !.blocks = @ \cup {b}, !.bg_free_blocks[BlockGroup(b)] = @ - 1]
CleanBit(m, b) ==
  [m EXCEPT !.blocks = @ \ {b}, !.bg_free_blocks[BlockGroup(b)] = @ + 1]
(* ... and the one under sbLock.                                           *)
CountBlocks(m, k) == [m EXCEPT !.s_free_blocks = @ + k]

asignarBloque(m, b) == CountBlocks(SetBit(m, b), -1)

desasignarBloque(m, b) == CountBlocks(CleanBit(m, b), 1)

\* (mutant) an inode is counted twice
asignarInodoTwice(m, i) ==
  [m EXCEPT !.inodes = @ \cup {i}, !.bg_free_inodes[InodeGroup(i)] = @ - 2,
            !.s_free_inodes = @ - 2]

asignarInodo(m, i) ==
  [m EXCEPT !.inodes = @ \cup {i}, !.bg_free_inodes[InodeGroup(i)] = @ - 1,
            !.s_free_inodes = @ - 1]
desasignarInodo(m, i) ==
  [m EXCEPT !.inodes = @ \ {i}, !.bg_free_inodes[InodeGroup(i)] = @ + 1,
            !.s_free_inodes = @ + 1]

(* The counts say what the bitmaps say.                                    *)
GroupCountsExact(m) ==
  \A g \in Group : /\ m.bg_free_blocks[g] = Cardinality(BlocksOf(g) \ m.blocks)
                   /\ m.bg_free_inodes[g] = Cardinality(InodesOf(g) \ m.inodes)
SuperCountsExact(m) ==
  /\ m.s_free_blocks = Cardinality(Blocks \ m.blocks)
  /\ m.s_free_inodes = Cardinality(Inodes \ m.inodes)
CountsExact(m) == GroupCountsExact(m) /\ SuperCountsExact(m)
=============================================================================
