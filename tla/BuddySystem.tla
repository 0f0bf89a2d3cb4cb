---------------------------- MODULE BuddySystem ----------------------------
(***************************************************************************)
(* The engine with the buddy system (diccionario_buddy.c): a partition is  *)
(* halved until the item fits closely, and two free siblings are united.   *)
(* Which of two neighbours is the sibling is counted along the list.       *)
(***************************************************************************)
EXTENDS CacheEngine

\* blocks of size s, and the smaller pieces that make none yet, with one more partition of size c
Counted(b, c, s) ==
  LET sum == b.pieces + (c % s)
  IN CASE c >= s -> [b EXCEPT !.count = @ + (c \div s)]
       [] c < s /\ sum = s -> [count |-> b.count + 1, pieces |-> 0]
       [] OTHER -> [b EXCEPT !.pieces = sum]

\* ... among the first partitions
BlocksBefore(s) ==
  LET blocks[i \in 0..Cant + 1] ==
        IF i = 0 THEN [count |-> 0, pieces |-> 0]
        ELSE Counted(blocks[i - 1], part[At[i - 1]].chunk, s)
  IN blocks

Place(n) == CHOOSE i \in 0..Cant : At[i] = n
esElPrimerHermano(n) == BlocksBefore(part[n].chunk)[Place(n)].count % 2 = 0
Hno(n) == IF esElPrimerHermano(n) THEN next[n] ELSE prev[n]

-----------------------------------------------------------------------------
(* diccionario_eliminar_buddy *)

BuddyClear ==
  /\ Running("remove buddy")
  /\ current' = current - part[it].size
  /\ part' = [part EXCEPT ![it] = Empty(@.data, @.chunk)]
  /\ pc' = "unite"
  /\ UNCHANGED <<next, prev, schemeVars, nodes, tries, owner, call, it, want, connVars, crashed,
                 damage>>

\* (mutant) a sibling of any size
UnitesAny(n, h) == h # NULL /\ Free(h)
\* a free sibling of its size
Unites(n, h) == h # NULL /\ Free(h) /\ part[h].chunk = part[n].chunk

\* the sibling becomes a spare node, the partition takes its memory, and looks for the
\* sibling of what it is now
Unite ==
  LET h == Hno(it) IN
  /\ Running("unite") /\ Unites(it, h)
  /\ part' = [part EXCEPT ![it].chunk = @ * 2, ![h].chunk = 0, ![h].data = 0,
                          ![it].data = IF esElPrimerHermano(it) THEN @ ELSE part[h].data]
  /\ next' = [n \in Node |-> IF n = h THEN nodes ELSE IF n = prev[h] THEN next[h] ELSE next[n]]
  /\ prev' = Spare(h, Relink(next[h], prev[h], prev))
  /\ elements' = IF prev[h] = NULL THEN next[h] ELSE elements
  /\ nodes' = h
  /\ UNCHANGED <<scheme, current, tries, callVars, connVars, crashed, damage>>

UniteDone ==
  /\ Running("unite") /\ ~Unites(it, Hno(it))
  /\ pc' = "removed"
  /\ UNCHANGED <<memVars, owner, call, it, want, connVars, crashed, damage>>

-----------------------------------------------------------------------------
(* diccionario_obtenerDireccion_buddy *)

BuddyTooBig ==
  /\ Running("find buddy") /\ Need > table_max_size
  /\ pc' = "toobig"
  /\ UNCHANGED <<memVars, owner, call, it, want, connVars, crashed, damage>>

BuddyFits ==
  /\ Running("find buddy") /\ Need <= table_max_size /\ Fitting # {}
  /\ it' = Chosen /\ pc' = "halve"
  /\ UNCHANGED <<memVars, owner, call, want, connVars, crashed, damage>>

\* nothing fits: make room with a victim, NULL if no item was stored
BuddyNoFit ==
  /\ Running("find buddy") /\ Need <= table_max_size /\ Fitting = {}
  /\ IF Victims = {} THEN crashed' = TRUE /\ UNCHANGED <<it, pc>>
     ELSE it' \in Victims /\ pc' = "remove buddy" /\ UNCHANGED crashed
  /\ UNCHANGED <<memVars, owner, call, want, connVars, damage>>

Halves == part[it].chunk \div 2 >= Need /\ nodes # NULL

\* agregarHijosDePadre: a spare node takes the second half
Halve ==
  LET half == part[it].chunk \div 2 IN
  /\ Running("halve") /\ Halves
  /\ part' = [part EXCEPT ![it].chunk = half,
                          ![nodes].chunk = half, ![nodes].data = part[it].data + half]
  /\ next' = [next EXCEPT ![nodes] = next[it], ![it] = nodes]
  /\ prev' = Relink(next[it], nodes, [Relink(next[nodes], NULL, prev) EXCEPT ![nodes] = it])
  /\ nodes' = next[nodes]
  /\ UNCHANGED <<schemeVars, current, tries, callVars, connVars, crashed, damage>>

BuddyFit ==
  /\ Running("halve") /\ ~Halves
  /\ part' = [part EXCEPT ![it].size = want.size]
  /\ current' = current + want.size
  /\ pc' = "found"
  /\ UNCHANGED <<next, prev, schemeVars, nodes, tries, owner, call, it, want, connVars, crashed,
                 damage>>

BuddyStep ==
  \/ BuddyClear \/ Unite \/ UniteDone
  \/ BuddyTooBig \/ BuddyFits \/ BuddyNoFit \/ Halve \/ BuddyFit

-----------------------------------------------------------------------------
(* Properties *)

\* In a memory whose size is a power of two times the slab, every partition is one of the
\* halves of halves of the memory, and the sibling counted along the list is the one at the
\* address next to it; an item takes more than half of its partition, but for the slab.
BuddiesAligned ==
  Buddy /\ Intact =>
    \A n \in Listed :
      LET p == part[n] IN
      /\ p.data % p.chunk = 0 /\ table_max_size % p.chunk = 0
      /\ esElPrimerHermano(n) <=> (p.data \div p.chunk) % 2 = 0
      /\ ~Free(n) => p.size <= p.chunk /\ (p.chunk = slab_min_size \/ p.size > p.chunk \div 2)

\* Between two calls no two free siblings are left apart.
SiblingsUnited ==
  Buddy /\ Intact /\ owner = NoConn =>
    \A n \in Listed :
      LET h == Hno(n) IN Free(n) /\ h # NULL /\ Free(h) => part[h].chunk # part[n].chunk
=============================================================================
