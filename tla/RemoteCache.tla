---------------------------- MODULE RemoteCache ----------------------------
(***************************************************************************)
(* The engine with the scheme that its configuration names                 *)
(* (cansic_engine_inicializar): dynamic partitions or the buddy system.    *)
(***************************************************************************)
EXTENDS DynamicPartitions, BuddySystem

CallStep == EngineStep \/ DynamicStep \/ BuddyStep

\* bound: the process died, or its list is damaged
Over == (crashed \/ ~Intact) /\ UNCHANGED vars

Next == (\E c \in Conn : ConnStep(c)) \/ CallStep \/ Over

Spec == Init /\ [][Next]_vars

\* the thread that owns the lock runs
FairSpec == Spec /\ WF_vars(CallStep)

-----------------------------------------------------------------------------
(* Properties *)

\* Between two calls no free memory lies in pieces that either scheme would have put
\* together.
FreeMemoryIsUnited == FreeAreApart /\ SiblingsUnited

\* Every callback gives the lock back, an allocation as well, however many victims and
\* compactions it needs, and it never looks for a victim in vain, of which it would die.
LockIsGivenBack == owner # NoConn ~> owner = NoConn \/ ~Intact
-----------------------------------------------------------------------------
(* The inductive invariant *)

\* the nodes that are partitions; the others are spare
InUse == {n \in Node : part[n].chunk > 0}

\* rank numbers the len nodes of S in the order of the links of nx, from first on
Line(first, S, nx, len, rank) ==
  /\ IF len = 0 THEN first = NULL ELSE first \in S /\ rank[first] = 0
  /\ \A n \in S :
       /\ rank[n] \in 0..len - 1
       /\ IF rank[n] = len - 1 THEN nx[n] = NULL
          ELSE nx[n] \in S /\ rank[nx[n]] = rank[n] + 1
  /\ \A m, n \in S : rank[m] = rank[n] => m = n

\* partitions and spare nodes are two such lines; the last spare node is the one past the end
Lines(rank, a, b) ==
  /\ a + b = Cant + 1
  /\ Line(elements, InUse, next, a, rank)
  /\ Line(nodes, Node \ InUse, next, b, rank)
  /\ Cant \notin InUse /\ rank[Cant] = b - 1
TwoLines == \E rank \in [Node -> 0..Cant], a, b \in 0..Cant + 1 : Lines(rank, a, b)

\* where the partition behind n begins
EndOf(n) == IF next[n] = NULL THEN table_max_size ELSE part[next[n]].data
\* partitions do not overlap; dynamic ones leave no byte between them, halves of an odd
\* number of bytes do
RoomIsShared ==
  /\ \A n \in InUse :
       /\ part[n].chunk >= slab_min_size
       /\ part[n].data + part[n].chunk <= EndOf(n)
       /\ ~Buddy => part[n].data + part[n].chunk = EndOf(n)
  /\ ~Buddy => part[elements].data = 0

\* what is free, and every spare node, was cleared
Blank(n) == part[n] = Empty(part[n].data, part[n].chunk)
FreeIsBlank ==
  \A n \in Node :
    /\ n \notin InUse \/ (Free(n) /\ ~(pc = "found" /\ it = n)) => Blank(n)
    /\ part[n].key # Garbage /\ (part[n].ocupado => part[n].key \in Key)

\* the buddy system keeps the links back
LinksBack ==
  Buddy => \A n \in InUse :
    /\ IF n = elements THEN prev[n] = NULL ELSE prev[n] \in InUse /\ next[prev[n]] = n
    /\ next[n] # NULL => prev[next[n]] = n

MemoryInv == TwoLines /\ RoomIsShared /\ FreeIsBlank /\ LinksBack /\ CurrentIsSum

\* which callback of which scheme is at which label, and what it has in its hands
CallFollows ==
  /\ owner = NoConn <=> pc = "idle"
  /\ \A c \in Conn : stage[c] = "calling" <=> owner = c
  /\ pc \in {"find", "compact", "shift", "find buddy", "halve", "found", "toobig"} => call = "allocate"
  /\ pc = "flush" => call = "flush"
  /\ call = "allocate" => want.key \in Key /\ want.size \in Sizes[scheme]
  /\ pc \in {"find", "compact", "shift"} => ~Buddy
  /\ pc \in {"find buddy", "halve", "remove buddy", "unite"} => Buddy
  /\ Buddy /\ pc \in {"remove", "back", "forward"} => call = "release"
ItemFollows ==
  /\ \A c \in Conn : stage[c] \in {"held", "stored", "reading", "releasing"} => item[c] \in Node
  /\ pc = "remove" => it \in Node
  /\ pc \in {"back", "forward", "removed", "shift", "found", "remove buddy", "unite", "halve"} => it \in InUse
  /\ pc = "flush" => it \in InUse \cup {NULL}
  /\ pc \in {"shift", "unite", "halve", "found"} => Free(it)
  /\ pc \in {"halve", "found"} => part[it].chunk >= Need
  /\ pc = "found" => part[it].size = want.size /\ ~part[it].dated

IInv ==
  /\ TypeOK
  /\ Intact => MemoryInv /\ CallFollows /\ ItemFollows

-----------------------------------------------------------------------------
(* ... and, with one connection, behind UniqueKeys and HeldIsReserved *)

OneConnection == \A c, d \in Conn : c = d

Has(n, k) == part[n].key = k
KeysApart == \A m, n \in Node, k \in Key : Has(m, k) /\ Has(n, k) => m = n
\* the key that is allocated is that of no item but the one that is removed for it
WantedIsNew ==
  call = "allocate" =>
    \A n \in Node : Has(n, want.key) => pc \in {"remove", "remove buddy"} /\ it = n
\* a reserved partition is the one that the connection holds or gives back
ReservedIsHeld ==
  \A n \in Node : estaReservado(n) =>
    \/ \E c \in Conn : stage[c] \in {"held", "releasing"} /\ item[c] = n
    \/ call = "release" /\ pc = "remove" /\ it = n
HandsFollow ==
  \A c \in Conn :
    /\ stage[c] \in {"held", "releasing"} =>
         item[c] \in InUse /\ estaReservado(item[c]) /\ part[item[c]].size \in 1..part[item[c]].chunk
    /\ stage[c] \in {"stored", "reading"} => part[item[c]].ocupado

SingleInv == Intact => KeysApart /\ WantedIsNew /\ ReservedIsHeld /\ HandsFollow

-----------------------------------------------------------------------------
(* ... and behind FreeMemoryIsUnited and BuddiesAligned *)

\* where the callback that owns the lock may still have free memory to unite, or takes it
AtHand(n) ==
  \/ pc \in {"back", "unite", "halve", "found"} /\ it \in {n, next[n]}
  \/ pc \in {"forward", "shift"} /\ it = n

\* two free partitions touch
Touching(n) == Free(n) /\ next[n] # NULL /\ Free(next[n])
\* no two of the dynamic scheme do, except at hand; links back may be stale, but none is lost
ApartInv ==
  Intact /\ ~Buddy => \A n \in InUse : (n = elements \/ prev[n] # NULL) /\ (Touching(n) => AtHand(n))

\* f has the sizes from the slab to the whole memory, each twice the one before
Doubling(f, k) ==
  /\ f \in [0..k -> Nat] /\ f[0] = slab_min_size /\ f[k] = table_max_size
  /\ \A i \in 0..k - 1 : f[i + 1] = 2 * f[i]
PowerOfTwo == \E k \in Nat : \E f \in [0..k -> Nat] : Doubling(f, k)

\* one of the pieces of such a size s \in S that the memory divides into
Piece(n, S) == part[n].chunk \in S /\ \E m \in Nat : part[n].data = m * part[n].chunk
\* an item takes more than half of its partition, but for the slab
Snug(n) ==
  part[n].size <= part[n].chunk /\ (part[n].chunk = slab_min_size \/ part[n].size > part[n].chunk \div 2)
\* two free siblings, the first one of them n
Twins(n) ==
  /\ Touching(n) /\ part[next[n]].chunk = part[n].chunk
  /\ \E m \in Nat : part[n].data = m * (2 * part[n].chunk)
HalvesInv(S) ==
  Intact /\ Buddy =>
    /\ part[elements].data = 0
    /\ \A n \in InUse :
         /\ part[n].data + part[n].chunk = EndOf(n) /\ Piece(n, S)
         /\ ~Free(n) \/ (pc = "found" /\ it = n) => Snug(n)
         /\ Twins(n) => AtHand(n)
=============================================================================
