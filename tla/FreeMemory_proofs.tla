------------------------- MODULE FreeMemory_proofs -------------------------
(***************************************************************************)
(* Theorems about the free memory of RemoteCache: no free memory lies in   *)
(* pieces that either scheme would have put together, and the partitions   *)
(* of the buddy system are halves of halves of a memory of a power of two  *)
(* slabs, whose siblings the code finds by counting along the list.        *)
(***************************************************************************)
EXTENDS RemoteCache_proofs

-----------------------------------------------------------------------------
(* What a step reads of the list *)

\* the links and the free partitions, as the invariant has them
LEMMA ListFacts ==
  ASSUME IInv, Intact
  PROVE  /\ TypeOK /\ TwoLines /\ RoomIsShared /\ LinksBack /\ FreeIsBlank /\ CallFollows /\ ItemFollows
         /\ InUse \subseteq Node /\ NULL \notin Node /\ elements \in InUse
         /\ nodes = NULL \/ nodes \in Node \ InUse
         /\ next \in [Node -> Node \cup {NULL}] /\ prev \in [Node -> Node \cup {NULL}]
         /\ \A n \in InUse : next[n] = NULL \/ (next[n] \in InUse /\ next[n] # n /\ next[n] # elements)
         /\ \A n \in Node \ InUse : next[n] = NULL \/ (next[n] \in Node \ InUse /\ next[n] # n)
         /\ \A m, n \in Node : next[m] = next[n] /\ next[m] # NULL => m = n
<1>1. TypeOK /\ TwoLines /\ RoomIsShared /\ LinksBack /\ FreeIsBlank /\ CallFollows /\ ItemFollows
  BY DEF IInv, MemoryInv
<1>2. Memory(elements, nodes, next, part) /\ Spanning(part) = InUse /\ elements # NULL
  BY <1>1, MemoryNow, CantIsNat DEF Spanning, InUse, TypeOK
<1>3. prev \in [Node -> Node \cup {NULL}] BY <1>1 DEF TypeOK
<1>4. QED BY <1>1, <1>2, <1>3, MemoryFacts

\* what every step but those that take or unite memory leaves alone
SameLinks ==
  /\ UNCHANGED <<next, prev, elements, scheme, damage>>
  /\ \A n \in Node : part'[n].data = part[n].data /\ part'[n].chunk = part[n].chunk

\* labels at which nothing is at hand
Away == pc \notin {"back", "unite", "halve", "found", "forward", "shift"}

\* a step that frees nothing and takes nothing
Quiet ==
  /\ SameLinks /\ (Away \/ UNCHANGED <<pc, it>>)
  /\ \A n \in Node : (Free(n)' <=> Free(n)) /\ part'[n].size = part[n].size
  /\ pc' = "found" => UNCHANGED <<pc, it>>

\* nobody becomes free, and what was at hand stays there
LEMMA QuietlyApart ==
  ASSUME TypeOK, ApartInv, Quiet PROVE ApartInv'
<1>0. SameLinks /\ (Away \/ UNCHANGED <<pc, it>>) /\ \A n \in Node : Free(n)' => Free(n) BY DEF Quiet
<1> SUFFICES ASSUME Intact', ~Buddy', NEW n \in InUse'
             PROVE  (n = elements' \/ prev'[n] # NULL) /\ (Touching(n)' => AtHand(n)')
  BY DEF ApartInv
<1>1. Intact /\ ~Buddy /\ n \in InUse BY <1>0 DEF SameLinks, Intact, Buddy, InUse
<1>2. (n = elements \/ prev[n] # NULL) /\ (Touching(n) => AtHand(n)) BY <1>1 DEF ApartInv
<1>3. n = elements' \/ prev'[n] # NULL BY <1>0, <1>2 DEF SameLinks
<1>4. ASSUME Touching(n)' PROVE AtHand(n)'
  <2>1. next[n] \in Node \cup {NULL} /\ n \in Node BY <1>1 DEF TypeOK, InUse
  <2>2. Touching(n)
    BY <2>1, <1>0, <1>4 DEF Touching, SameLinks, Free, estaReservado
  <2>3. QED BY <2>2, <1>0, <1>2 DEF AtHand, SameLinks, Away
<1>5. QED BY <1>3, <1>4

LEMMA HalvesStay ==
  ASSUME TypeOK, NEW S, HalvesInv(S), SameLinks,
         ASSUME Intact, Buddy, NEW n \in InUse
         PROVE  /\ ~Free(n)' \/ (pc' = "found" /\ it' = n) => Snug(n)'
                /\ Twins(n)' => AtHand(n)'
  PROVE  HalvesInv(S)'
<1> SUFFICES ASSUME Intact', Buddy'
             PROVE  /\ part'[elements'].data = 0
                    /\ \A n \in InUse' :
                         /\ part'[n].data + part'[n].chunk = EndOf(n)' /\ Piece(n, S)'
                         /\ ~Free(n)' \/ (pc' = "found" /\ it' = n) => Snug(n)'
                         /\ Twins(n)' => AtHand(n)'
  BY DEF HalvesInv
<1>1. Intact /\ Buddy /\ InUse' = InUse BY DEF SameLinks, Intact, Buddy, InUse
<1>2. elements \in Node BY DEF TypeOK
<1>3. part'[elements'].data = 0 BY <1>1, <1>2 DEF HalvesInv, SameLinks
<1>4. ASSUME NEW n \in InUse
      PROVE  part'[n].data + part'[n].chunk = EndOf(n)' /\ Piece(n, S)'
  <2>1. n \in Node /\ next[n] \in Node \cup {NULL} BY DEF TypeOK, InUse
  <2>2. part[n].data + part[n].chunk = EndOf(n) /\ Piece(n, S) BY <1>1 DEF HalvesInv
  <2>3. EndOf(n)' = EndOf(n) BY <2>1 DEF EndOf, SameLinks
  <2>4. Piece(n, S)' BY <2>1, <2>2 DEF Piece, SameLinks
  <2>5. QED BY <2>1, <2>2, <2>3, <2>4 DEF SameLinks
<1>5. QED BY <1>1, <1>3, <1>4

\* siblings are so before the step, if both were free
LEMMA TwinsWere ==
  ASSUME TypeOK, SameLinks, NEW n \in Node, \A m \in {n, next[n]} : Free(m)' => Free(m), Twins(n)'
  PROVE  Twins(n)
<1>1. next[n] \in Node \cup {NULL} BY DEF TypeOK
<1>2. Touching(n) /\ next[n] # NULL BY DEF Twins, Touching, SameLinks, Free, estaReservado
<1>3. part[next[n]].chunk = part[n].chunk BY <1>1, <1>2 DEF Twins, SameLinks
<1>4. \E m \in Nat : part[n].data = m * (2 * part[n].chunk) BY DEF Twins, SameLinks
<1>5. QED BY <1>2, <1>3, <1>4 DEF Twins

LEMMA QuietlyHalved ==
  ASSUME TypeOK, NEW S, HalvesInv(S), Quiet PROVE HalvesInv(S)'
<1> USE DEF Quiet
<1>1. ASSUME Intact, Buddy, NEW n \in InUse
      PROVE  /\ ~Free(n)' \/ (pc' = "found" /\ it' = n) => Snug(n)'
             /\ Twins(n)' => AtHand(n)'
  <2>1. n \in Node /\ next[n] \in Node \cup {NULL} BY DEF TypeOK, InUse
  <2>2. /\ ~Free(n) \/ (pc = "found" /\ it = n) => Snug(n)
        /\ Twins(n) => AtHand(n)
    BY <1>1 DEF HalvesInv
  <2>3. Snug(n) => Snug(n)' BY <2>1 DEF Snug, SameLinks
  <2>4. ~Free(n)' \/ (pc' = "found" /\ it' = n) => Snug(n)' BY <2>1, <2>2, <2>3
  <2>5. ASSUME Twins(n)' PROVE AtHand(n)'
    <3>1. next[n] # NULL BY <2>5 DEF Twins, Touching, SameLinks
    <3>2. Twins(n) BY <3>1, <2>1, <2>5, TwinsWere
    <3>3. QED BY <3>2, <2>2 DEF AtHand, SameLinks, Away
  <2>6. QED BY <2>4, <2>5
<1>2. QED BY <1>1, HalvesStay

-----------------------------------------------------------------------------
(* The steps that leave the free memory alone *)

LEMMA EnterQuiet ==
  ASSUME IInv, Intact, NEW c, NEW g, NEW l, NEW n, NEW w, Enter(c, g, l, n, w), l # "found",
         UNCHANGED <<memVars, damage>>
  PROVE  Quiet
<1>1. pc = "idle" BY DEF IInv, CallFollows, Enter
<1>2. QED BY <1>1 DEF Quiet, SameLinks, Away, Enter, memVars, schemeVars, Free, estaReservado

\* what is given the mark of a stored item is not free
LEMMA StoreQuiet == ASSUME IInv, NEW c \in Conn, Store(c) PROVE Quiet
<1>0. PICK x : x = obtener(part[item[c]].key) OBVIOUS
<1>1. /\ Intact /\ UNCHANGED <<next, prev, schemeVars, nodes, current, tries, callVars, item, crashed, damage>>
      /\ part' = IF x = NULL THEN part ELSE [part EXCEPT ![x].ocupado = TRUE, ![x].dated = TRUE]
  BY <1>0 DEF Store, Ready
<1>2. TypeOK /\ TwoLines /\ NoKey \notin Key BY <1>1, ListFacts, EngineAssumption
<1>3. x = NULL \/ (x \in InUse /\ part[x].key \in Key) BY <1>0, <1>2, Found
<1>4. part \in [Node -> Part] /\ InUse \subseteq Node BY <1>2 DEF TypeOK, InUse
<1>5. CASE x = NULL BY <1>1, <1>5 DEF Quiet, SameLinks, schemeVars, callVars, Free, estaReservado
<1>6. CASE x # NULL
  <2> DEFINE e == [part[x] EXCEPT !.ocupado = TRUE, !.dated = TRUE]
  <2>1. x \in Node /\ part[x] \in Part BY <1>3, <1>4, <1>6
  <2>2. /\ e.data = part[x].data /\ e.chunk = part[x].chunk /\ e.size = part[x].size /\ e.key = part[x].key
    BY <2>1 DEF Part
  <2>3. part' = [part EXCEPT ![x] = e] BY <1>1, <1>4, <1>6, <2>1
  <2> HIDE DEF e
  <2>4. part'[x] = e /\ \A n \in Node \ {x} : part'[n] = part[n] BY <2>1, <2>3, <1>4
  <2>5. \A n \in Node : /\ part'[n].data = part[n].data /\ part'[n].chunk = part[n].chunk
                        /\ part'[n].size = part[n].size /\ part'[n].key = part[n].key
                        /\ n # x => part'[n].ocupado = part[n].ocupado
    BY <2>2, <2>4
  <2>6. ~Free(x) /\ ~Free(x)'
    <3>1. part[x].key # NoKey BY <1>2, <1>3, <1>6
    <3>2. part'[x].key # NoKey BY <3>1, <2>1, <2>5
    <3>3. QED BY <3>1, <3>2 DEF Free, estaReservado
  <2>7. ASSUME NEW n \in Node PROVE Free(n)' <=> Free(n)
    <3>1. CASE n = x BY <3>1, <2>6
    <3>2. CASE n # x BY <3>2, <2>5 DEF Free, estaReservado
    <3>3. QED BY <3>1, <3>2
  <2>8. SameLinks BY <1>1, <2>5 DEF SameLinks, schemeVars
  <2>9. UNCHANGED <<pc, it>> BY <1>1 DEF callVars
  <2>10. QED BY <2>5, <2>7, <2>8, <2>9 DEF Quiet
<1>7. QED BY <1>5, <1>6

LEMMA GetQuiet == ASSUME IInv, NEW c \in Conn, NEW k \in Key, Get(c, k) PROVE Quiet
<1> DEFINE x == obtener(k)
<1>1. /\ Intact /\ UNCHANGED <<next, prev, schemeVars, nodes, current, tries, callVars, crashed, damage>>
      /\ part' = IF lru THEN [part EXCEPT ![x].dated = TRUE] ELSE part
      /\ x # NULL
  BY DEF Get, Ready
<1>2. TypeOK /\ TwoLines BY <1>1, ListFacts
<1>3. x \in InUse BY <1>1, <1>2, Found
<1>4. part \in [Node -> Part] /\ x \in Node /\ part[x] \in Part BY <1>2, <1>3 DEF TypeOK, InUse
<1> HIDE DEF x
<1> DEFINE e == [part[x] EXCEPT !.dated = TRUE]
<1>5. /\ e.data = part[x].data /\ e.chunk = part[x].chunk /\ e.size = part[x].size /\ e.key = part[x].key
      /\ e.ocupado = part[x].ocupado
  BY <1>4 DEF Part
<1>6. part' = part \/ part' = [part EXCEPT ![x] = e] BY <1>1, <1>4
<1> HIDE DEF e
<1>7. \A n \in Node : /\ part'[n].data = part[n].data /\ part'[n].chunk = part[n].chunk
                      /\ part'[n].size = part[n].size /\ part'[n].key = part[n].key
                      /\ part'[n].ocupado = part[n].ocupado
  BY <1>4, <1>5, <1>6
<1>8. QED BY <1>1, <1>7 DEF Quiet, SameLinks, schemeVars, callVars, Free, estaReservado

LEMMA ConnQuiet == ASSUME IInv, NEW c \in Conn, ConnStep(c) PROVE Quiet
<1>1. CASE Store(c) BY <1>1, StoreQuiet
<1>2. CASE ReleaseTest(c)
  BY <1>2 DEF ReleaseTest, Quiet, SameLinks, memVars, schemeVars, callVars, Free, estaReservado
<1>3. CASE Release(c)
  <2>1. Intact BY <1>3 DEF Release, Ready
  <2>2. QED BY <2>1, <1>3, EnterQuiet DEF Release
<1>4. CASE Flush(c)
  <2>1. Intact BY <1>4 DEF Flush, Ready
  <2>2. QED BY <2>1, <1>4, EnterQuiet DEF Flush
<1>5. ASSUME NEW k \in Key, Get(c, k) PROVE Quiet BY <1>5, GetQuiet
<1>6. ASSUME NEW k \in Key, Delete(c, k) PROVE Quiet
  <2>1. Intact /\ Eliminar # "found" BY <1>6 DEF Delete, Ready, Eliminar
  <2>2. QED BY <2>1, <1>6, EnterQuiet DEF Delete
<1>7. ASSUME NEW k \in Key, NEW n \in Sizes[scheme], Allocate(c, k, n) PROVE Quiet
  <2>1. Intact /\ Eliminar # "found" /\ ObtenerDireccion # "found"
    BY <1>7 DEF Allocate, Ready, Eliminar, ObtenerDireccion
  <2>2. \/ Enter(c, "allocate", Eliminar, obtener(k), [key |-> k, size |-> n])
        \/ Enter(c, "allocate", ObtenerDireccion, NULL, [key |-> k, size |-> n])
    BY <1>7 DEF Allocate
  <2>3. UNCHANGED <<memVars, damage>> BY <1>7 DEF Allocate
  <2>4. QED BY <2>1, <2>2, <2>3, EnterQuiet
<1>8. QED BY <1>1, <1>2, <1>3, <1>4, <1>5, <1>6, <1>7 DEF ConnStep

\* nothing in the memory changes, and nothing was at hand
LEMMA MemoryQuiet ==
  ASSUME UNCHANGED <<part, next, prev, schemeVars, damage>>, Away \/ UNCHANGED <<pc, it>>,
         pc' = "found" => UNCHANGED <<pc, it>>
  PROVE  Quiet
BY DEF Quiet, SameLinks, schemeVars, Free, estaReservado

LEMMA CallQuiet ==
  ASSUME \/ AllocateTooBig \/ FlushNext \/ Removed \/ TooBig \/ NoFit \/ CompactFrom
         \/ BuddyTooBig \/ BuddyFits \/ BuddyNoFit
  PROVE  Quiet
<1> USE DEF Running, Away, memVars
<1>1. CASE AllocateTooBig BY <1>1, MemoryQuiet DEF AllocateTooBig, Leave
<1>2. CASE FlushNext BY <1>2, MemoryQuiet DEF FlushNext, Leave, Eliminar
<1>3. CASE Removed BY <1>3, MemoryQuiet DEF Removed, Leave, ObtenerDireccion
<1>4. CASE TooBig BY <1>4, MemoryQuiet DEF TooBig
<1>5. CASE NoFit
  <2>1. /\ pc = "find" /\ pc' # "found" /\ UNCHANGED <<part, next, prev, schemeVars, damage>>
    BY <1>5 DEF NoFit
  <2>2. QED BY <2>1, MemoryQuiet
<1>6. CASE CompactFrom BY <1>6, MemoryQuiet DEF CompactFrom
<1>7. CASE BuddyTooBig BY <1>7, MemoryQuiet DEF BuddyTooBig
<1>8. CASE BuddyFits BY <1>8, MemoryQuiet DEF BuddyFits
<1>9. CASE BuddyNoFit
  <2>1. /\ pc = "find buddy" /\ pc' # "found" /\ UNCHANGED <<part, next, prev, schemeVars, damage>>
    BY <1>9 DEF BuddyNoFit
  <2>2. QED BY <2>1, MemoryQuiet
<1>10. QED BY <1>1, <1>2, <1>3, <1>4, <1>5, <1>6, <1>7, <1>8, <1>9

-----------------------------------------------------------------------------
(* Dynamic partitions: the steps that free memory, unite it or take it *)

\* no memory changes hands: the partitions that touch did so before, unless n was freed
LEMMA ApartStays ==
  ASSUME TypeOK, ApartInv, SameLinks,
         ASSUME Intact, ~Buddy, NEW n \in InUse, Touching(n)', Touching(n) => AtHand(n)
         PROVE  AtHand(n)'
  PROVE  ApartInv'
<1> SUFFICES ASSUME Intact', ~Buddy', NEW n \in InUse'
             PROVE  (n = elements' \/ prev'[n] # NULL) /\ (Touching(n)' => AtHand(n)')
  BY DEF ApartInv
<1>1. Intact /\ ~Buddy /\ n \in InUse BY DEF SameLinks, Intact, Buddy, InUse
<1>2. (n = elements \/ prev[n] # NULL) /\ (Touching(n) => AtHand(n)) BY <1>1 DEF ApartInv
<1>3. QED BY <1>1, <1>2 DEF SameLinks

\* two partitions touched before, if nothing but m was freed since
LEMMA Touched ==
  ASSUME TypeOK, SameLinks, NEW n \in Node, \A m \in {n, next[n]} \cap Node : Free(m)' => Free(m), Touching(n)'
  PROVE  Touching(n)
<1>1. next[n] \in Node \cup {NULL} BY DEF TypeOK
<1>2. QED BY <1>1 DEF Touching, SameLinks, Free, estaReservado

LEMMA AllocateFoundKeepsApart == ASSUME IInv, ApartInv, AllocateFound PROVE ApartInv'
<1>0. PICK m : m = it OBVIOUS
<1>1. /\ Intact /\ pc = "found" /\ part' = [part EXCEPT ![m].key = want.key]
      /\ UNCHANGED <<next, prev, schemeVars, nodes, current, tries, crashed, damage>>
  BY <1>0 DEF AllocateFound, Running
<1>2. TypeOK /\ m \in InUse /\ call = "allocate" /\ NoKey \notin Key
  BY <1>0, <1>1, ListFacts, EngineAssumption DEF ItemFollows, CallFollows
<1>3. want.key \in Key /\ part \in [Node -> Part] /\ m \in Node /\ part[m] \in Part
  BY <1>1, <1>2, ListFacts DEF CallFollows, TypeOK, InUse
<1> DEFINE e == [part[m] EXCEPT !.key = want.key]
<1>4. /\ e.data = part[m].data /\ e.chunk = part[m].chunk /\ e.size = part[m].size /\ e.key = want.key
      /\ e.ocupado = part[m].ocupado
  BY <1>3 DEF Part
<1>5. part' = [part EXCEPT ![m] = e] BY <1>1, <1>3
<1> HIDE DEF e
<1>6. \A n \in Node : /\ part'[n].data = part[n].data /\ part'[n].chunk = part[n].chunk
                      /\ part'[n].size = part[n].size /\ part'[n].ocupado = part[n].ocupado
                      /\ n # m => part'[n].key = part[n].key
                      /\ n = m => part'[n].key = want.key
  BY <1>3, <1>4, <1>5
<1>7. SameLinks BY <1>1, <1>6 DEF SameLinks, schemeVars
<1>8. ~Free(m)' /\ \A n \in Node : Free(n)' => Free(n)
  <2>1. want.key # NoKey BY <1>2, <1>3
  <2>2. ~Free(m)' BY <2>1, <1>3, <1>6 DEF Free, estaReservado
  <2>3. ASSUME NEW n \in Node, Free(n)' PROVE Free(n)
    <3>1. n # m BY <2>2, <2>3
    <3>2. QED BY <3>1, <2>3, <1>6 DEF Free, estaReservado
  <2>4. QED BY <2>2, <2>3
<1>9. ASSUME NEW n \in InUse, Touching(n)', Touching(n) => AtHand(n) PROVE AtHand(n)'
  <2>1. n \in Node BY DEF InUse
  <2>2. AtHand(n) BY <2>1, <1>2, <1>7, <1>8, <1>9, Touched
  <2>3. n = m \/ next[n] = m BY <2>2, <1>0, <1>1 DEF AtHand
  <2>4. n # m /\ next[n] # m BY <1>7, <1>8, <1>9 DEF Touching, SameLinks, Free, estaReservado
  <2>5. QED BY <2>3, <2>4
<1>10. QED BY <1>2, <1>7, <1>9, ApartStays

\* the item is cleared
LEMMA ClearedLinks ==
  ASSUME IInv, Intact, NEW m \in Node, m = it, part' = [part EXCEPT ![m] = Empty(@.data, @.chunk)],
         UNCHANGED <<next, prev, elements, scheme>>
  PROVE  /\ \A n \in Node : part'[n].data = part[n].data /\ part'[n].chunk = part[n].chunk
         /\ \A n \in Node \ {m} : part'[n] = part[n]
<1>1. part \in [Node -> Part] /\ part[m] \in Part BY ListFacts DEF TypeOK
<1> DEFINE e == Empty(part[m].data, part[m].chunk)
<1>2. e.data = part[m].data /\ e.chunk = part[m].chunk BY DEF Empty
<1>3. part' = [part EXCEPT ![m] = e] BY <1>1
<1> HIDE DEF e
<1>4. QED BY <1>1, <1>2, <1>3

LEMMA ClearKeepsApart == ASSUME IInv, ApartInv, Clear PROVE ApartInv'
<1>0. PICK m : m = it OBVIOUS
<1>1. /\ Intact /\ pc = "remove" /\ part' = [part EXCEPT ![m] = Empty(@.data, @.chunk)]
      /\ UNCHANGED <<next, prev, elements, scheme>> /\ it' = m /\ pc' = "back" /\ (Intact' => damage' = damage)
  BY <1>0 DEF Clear, Running, schemeVars, Intact
<1>2. TypeOK /\ m \in Node BY <1>0, <1>1, ListFacts DEF ItemFollows
<1>3. /\ \A n \in Node : part'[n].data = part[n].data /\ part'[n].chunk = part[n].chunk
      /\ \A n \in Node \ {m} : part'[n] = part[n]
  BY <1>0, <1>1, <1>2, ClearedLinks
<1>4. ASSUME Intact' PROVE SameLinks BY <1>1, <1>3, <1>4 DEF SameLinks
<1>5. ASSUME NEW n \in InUse, Touching(n)', Touching(n) => AtHand(n), SameLinks PROVE AtHand(n)'
  <2>1. n \in Node BY DEF InUse
  <2>2. CASE n = m \/ next[n] = m BY <2>2, <1>1, <1>5 DEF AtHand, SameLinks
  <2>3. CASE n # m /\ next[n] # m
    <3>1. \A h \in {n, next[n]} \cap Node : Free(h)' => Free(h)
      BY <2>3, <1>3 DEF Free, estaReservado
    <3>2. AtHand(n) BY <3>1, <2>1, <1>2, <1>5, Touched
    <3>3. QED BY <3>2, <1>1 DEF AtHand
  <2>4. QED BY <2>2, <2>3
<1>6. CASE Intact' BY <1>2, <1>4, <1>5, <1>6, ApartStays
<1>7. CASE ~Intact' BY <1>7 DEF ApartInv
<1>8. QED BY <1>6, <1>7

\* the partition before the removed one is in use, and it is the one that the link back names
LEMMA BackDoneKeepsApart == ASSUME IInv, ApartInv, BackDone PROVE ApartInv'
<1>0. PICK m : m = it OBVIOUS
<1>1. /\ Intact /\ pc = "back" /\ ~Merges(prev[m]) /\ pc' = "forward" /\ it' = m
      /\ UNCHANGED <<part, next, prev, elements, scheme>>
      /\ damage' = damage \cup (IF prev[m] = NULL \/ next[prev[m]] = m THEN {} ELSE {"stale link followed"})
  BY <1>0 DEF BackDone, Running, memVars, schemeVars
<1>2. TypeOK /\ m \in InUse /\ m \in Node BY <1>0, <1>1, ListFacts DEF ItemFollows, InUse
<1>3. CASE ~Intact' BY <1>3 DEF ApartInv
<1>4. CASE Intact'
  <2>1. SameLinks /\ (prev[m] = NULL \/ next[prev[m]] = m) BY <1>1, <1>4 DEF SameLinks, Intact
  <2>2. ASSUME Intact, ~Buddy, NEW n \in InUse, Touching(n)', Touching(n) => AtHand(n) PROVE AtHand(n)'
    <3>1. Touching(n) BY <2>2, <1>1 DEF Touching, Free, estaReservado
    <3>2. n = m \/ next[n] = m BY <3>1, <2>2, <1>0, <1>1 DEF AtHand
    <3>3. ASSUME next[n] = m PROVE FALSE
      <4>1. m # elements BY <3>3, <1>1, <1>2, <2>2, ListFacts
      <4>2. prev[m] # NULL BY <4>1, <1>2, <2>2 DEF ApartInv
      <4>3. next[prev[m]] = m /\ prev[m] \in Node /\ n \in Node BY <4>2, <2>1, <1>2 DEF TypeOK, InUse
      <4>4. n = prev[m] BY <4>3, <3>3, <1>1, <1>2, ListFacts
      <4>5. part[prev[m]].ocupado BY <4>2, <1>1 DEF Merges
      <4>6. QED BY <4>4, <4>5, <3>1 DEF Touching, Free
    <3>4. QED BY <3>2, <3>3, <1>1 DEF AtHand
  <2>3. QED BY <2>1, <2>2, <1>2, ApartStays
<1>5. QED BY <1>3, <1>4

LEMMA ForwardDoneKeepsApart == ASSUME IInv, ApartInv, ForwardDone PROVE ApartInv'
<1>1. /\ Intact /\ pc = "forward" /\ ~Merges(next[it]) /\ pc' = "removed"
      /\ UNCHANGED <<part, next, prev, elements, scheme, damage>>
  BY DEF ForwardDone, Running, memVars, schemeVars
<1>2. TypeOK /\ SameLinks BY <1>1, ListFacts DEF SameLinks
<1>3. ASSUME NEW n \in InUse, Touching(n)', Touching(n) => AtHand(n) PROVE AtHand(n)'
  <2>1. Touching(n) BY <1>1, <1>3 DEF Touching, Free, estaReservado
  <2>2. n = it BY <2>1, <1>1, <1>3 DEF AtHand
  <2>3. QED BY <2>1, <2>2, <1>1 DEF Touching, Merges, Free
<1>4. QED BY <1>2, <1>3, ApartStays

\* a compaction ends behind the last free partition
LEMMA CompactDoneKeepsApart == ASSUME IInv, ApartInv, CompactDone PROVE ApartInv'
<1>1. /\ Intact /\ (pc = "compact" \/ (pc = "shift" /\ next[it] = NULL))
      /\ UNCHANGED <<part, next, prev, elements, scheme, damage>>
  BY DEF CompactDone, Running, schemeVars, Intact
<1>2. TypeOK /\ SameLinks BY <1>1, ListFacts DEF SameLinks
<1>3. ASSUME NEW n \in InUse, Touching(n)', Touching(n) => AtHand(n) PROVE AtHand(n)'
  <2>1. Touching(n) BY <1>1, <1>3 DEF Touching, Free, estaReservado
  <2>2. n = it /\ next[it] = NULL BY <2>1, <1>1, <1>3 DEF AtHand
  <2>3. QED BY <2>1, <2>2 DEF Touching
<1>4. QED BY <1>2, <1>3, ApartStays

\* partition a gets the memory of p behind it: only a may touch another one that it did not
LEMMA MergeTouches ==
  ASSUME TypeOK, Intact, InUse \subseteq Node, NEW a \in InUse, NEW p \in InUse, next[a] = p, a # p,
         nodes = NULL \/ nodes \in Node \ InUse,
         \A m, n \in Node : next[m] = next[n] /\ next[m] # NULL => m = n,
         next' = [next EXCEPT ![a] = next[p], ![p] = nodes], InUse' = InUse \ {p},
         \A n \in Node : Free(n)' <=> Free(n), NULL \notin Node,
         NEW n \in InUse', n # a
  PROVE  next'[n] = next[n] /\ (Touching(n)' => Touching(n))
<1>1. n \in Node /\ n # p /\ next \in [Node -> Node \cup {NULL}] /\ a \in Node /\ p \in Node BY DEF TypeOK
<1>2. next'[n] = next[n] BY <1>1
<1>3. ASSUME Touching(n)' PROVE Touching(n)
  <2>1. Free(n) /\ next[n] # NULL BY <1>1, <1>2, <1>3 DEF Touching
  <2>2. next[n] \in Node BY <2>1, <1>1
  <2>3. Free(next[n]) BY <2>2, <1>2, <1>3 DEF Touching, Free, estaReservado
  <2>4. QED BY <2>1, <2>3 DEF Touching
<1>4. QED BY <1>2, <1>3

\* a link back that is set anew is set to a partition
LEMMA LinksLeft ==
  ASSUME TypeOK, NEW m, NEW h, NEW n, m \in Node, h \in Node, n \in Node, n # nodes, n # m, NULL \notin Node,
         prev' = Spare(m, prev) \/ prev' = Spare(m, Relink(next[m], h, prev)), prev[n] # NULL
  PROVE  prev'[n] # NULL
<1>1. prev \in [Node -> Node \cup {NULL}] BY DEF TypeOK
<1>2. \A q : Spare(m, q)[n] = q[n] BY DEF Spare
<1>3. Relink(next[m], h, prev)[n] # NULL BY <1>1 DEF Relink
<1>4. QED BY <1>2, <1>3

LEMMA MergeBackKeepsApart == ASSUME IInv, ApartInv, MergeBack PROVE ApartInv'
<1>0. PICK m, a : m = it /\ a = prev[it] OBVIOUS
<1>1. /\ pc = "back" /\ Merges(a) /\ Intact
      /\ part' = Absorb(a, m)
      /\ next' = [next EXCEPT ![a] = next[m], ![m] = nodes]
      /\ prev' = Spare(m, Relink(next[m], a, prev))
      /\ nodes' = m /\ it' = a /\ pc' = pc
      /\ damage' = damage \cup Foreign \cup (IF next[a] = m THEN {} ELSE {"stale link followed"})
                          \cup (IF Free(m) THEN {} ELSE {"reserved node merged"})
      /\ UNCHANGED <<scheme, elements, current>>
  BY <1>0 DEF MergeBack, Running, schemeVars
<1>2. CASE ~Intact' BY <1>2 DEF ApartInv
<1>3. CASE Intact'
  <2>1. ~Buddy /\ next[a] = m /\ Free(m) BY <1>1, <1>3 DEF Intact, Foreign
  <2>2. /\ TypeOK /\ MemoryInv /\ m \in InUse /\ InUse \subseteq Node /\ NULL \notin Node
        /\ nodes = NULL \/ nodes \in Node \ InUse
        /\ \A i, j \in Node : next[i] = next[j] /\ next[i] # NULL => i = j
        /\ \A i \in Node \ InUse : next[i] = NULL \/ next[i] \in Node \ InUse
    BY <1>0, <1>1, ListFacts DEF IInv, ItemFollows
  <2>3. a \in Node BY <1>0, <1>1, <2>2 DEF Merges, TypeOK
  <2>4. a \in InUse BY <2>1, <2>2, <2>3
  <2>5. InUse' = InUse \ {m} /\ a # m /\ \A n \in Node : Free(n)' <=> Free(n)
    BY <1>1, <2>1, <2>2, <2>4, DynamicMerge
  <2>6. ASSUME NEW n \in InUse'
        PROVE  (n = elements \/ prev'[n] # NULL) /\ (Touching(n)' => AtHand(n)')
    <3>1. n \in InUse /\ n # m /\ n \in Node /\ n # nodes BY <2>2, <2>5
    <3>2. (n = elements \/ prev[n] # NULL) /\ (Touching(n) => AtHand(n)) BY <3>1, <2>1, <1>1 DEF ApartInv
    <3>3. n = elements \/ prev'[n] # NULL BY <3>1, <3>2, <2>2, <2>3, <1>1, LinksLeft
    <3>4. CASE n = a BY <3>3, <3>4, <1>1 DEF AtHand
    <3>5. CASE n # a
      <4>1. next'[n] = next[n] /\ (Touching(n)' => Touching(n))
        BY <3>5, <2>1, <2>2, <2>4, <2>5, <1>1, MergeTouches
      <4>2. ASSUME Touching(n)' PROVE FALSE
        <5>1. n = m \/ next[n] = m BY <4>1, <4>2, <3>2, <1>0, <1>1 DEF AtHand
        <5>2. QED BY <5>1, <3>1, <3>5, <2>1, <2>2, <2>3
      <4>3. QED BY <4>2, <3>3
    <3>6. QED BY <3>3, <3>4, <3>5
  <2>7. QED BY <2>6, <1>1 DEF ApartInv
<1>4. QED BY <1>2, <1>3

\* the partition behind the removed one, or behind the hole of a compaction, is merged into it
LEMMA MergeOnApart ==
  ASSUME IInv, ApartInv, NEW m, NEW p, m = it, p = next[it], pc \in {"forward", "shift"}, Intact,
         ~Buddy, p # NULL, Free(p), part' = Absorb(m, p), next' = [next EXCEPT ![m] = next[p], ![p] = nodes],
         prev' = Spare(p, prev) \/ prev' = Spare(p, Relink(next[p], m, prev)),
         nodes' = p, UNCHANGED <<scheme, elements, current, pc, it>>
  PROVE  ApartInv'
<1>1. /\ TypeOK /\ MemoryInv /\ m \in InUse /\ InUse \subseteq Node /\ NULL \notin Node
      /\ nodes = NULL \/ nodes \in Node \ InUse
      /\ \A i, j \in Node : next[i] = next[j] /\ next[i] # NULL => i = j
      /\ \A i \in InUse : next[i] = NULL \/ (next[i] \in InUse /\ next[i] # i /\ next[i] # elements)
  BY ListFacts DEF IInv, ItemFollows
<1>2. p \in InUse /\ p # m /\ m \in Node /\ p \in Node BY <1>1
<1>3. InUse' = InUse \ {p} /\ \A n \in Node : Free(n)' <=> Free(n)
  BY <1>1, <1>2, DynamicMerge
<1>4. ASSUME NEW n \in InUse'
      PROVE  (n = elements \/ prev'[n] # NULL) /\ (Touching(n)' => AtHand(n)')
  <2>1. n \in InUse /\ n # p /\ n \in Node /\ n # nodes BY <1>1, <1>3
  <2>2. (n = elements \/ prev[n] # NULL) /\ (Touching(n) => AtHand(n)) BY <2>1 DEF ApartInv
  <2>3. n = elements \/ prev'[n] # NULL BY <2>1, <2>2, <1>1, <1>2, LinksLeft
  <2>4. CASE n = m BY <2>3, <2>4 DEF AtHand
  <2>5. CASE n # m
    <3>1. Touching(n)' => Touching(n) BY <2>5, <1>1, <1>2, <1>3, MergeTouches
    <3>2. AtHand(n) => n = m BY DEF AtHand
    <3>3. QED BY <2>2, <2>3, <2>5, <3>1, <3>2
  <2>6. QED BY <2>4, <2>5
<1>5. QED BY <1>4 DEF ApartInv

LEMMA MergeForwardKeepsApart == ASSUME IInv, ApartInv, MergeForward PROVE ApartInv'
<1>0. PICK m, p : m = it /\ p = next[it] OBVIOUS
<1>1. /\ pc = "forward" /\ Merges(p) /\ Intact
      /\ part' = Absorb(m, p)
      /\ next' = [next EXCEPT ![m] = next[p], ![p] = nodes]
      /\ prev' = Spare(p, prev) /\ nodes' = p
      /\ damage' = damage \cup Foreign \cup (IF estaReservado(p) THEN {"reserved node merged"} ELSE {})
      /\ UNCHANGED <<scheme, elements, current, pc, it>>
  BY <1>0 DEF MergeForward, Running, schemeVars, callVars
<1>2. CASE ~Intact' BY <1>2 DEF ApartInv
<1>3. CASE Intact'
  <2>1. ~Buddy /\ p # NULL /\ Free(p) BY <1>1, <1>3 DEF Intact, Foreign, Merges, Free
  <2>2. QED BY <2>1, <1>0, <1>1, MergeOnApart
<1>4. QED BY <1>2, <1>3

LEMMA ConsolidateKeepsApart == ASSUME IInv, ApartInv, Consolidate PROVE ApartInv'
<1>0. PICK m, p : m = it /\ p = next[it] OBVIOUS
<1>1. /\ pc = "shift" /\ p # NULL /\ Free(p) /\ Intact
      /\ part' = Absorb(m, p)
      /\ next' = [next EXCEPT ![m] = next[p], ![p] = nodes]
      /\ prev' = Spare(p, Relink(next[p], m, prev)) /\ nodes' = p
      /\ UNCHANGED <<scheme, elements, current, pc, it>>
  BY <1>0 DEF Consolidate, Running, schemeVars, callVars
<1>2. ~Buddy BY <1>1 DEF IInv, CallFollows
<1>3. QED BY <1>0, <1>1, <1>2, MergeOnApart

\* an item moves down and the free partition up, behind which nothing was free
LEMMA ShiftKeepsApart == ASSUME IInv, ApartInv, Shift PROVE ApartInv'
<1>0. PICK m, p, d, c : m = it /\ p = next[it] /\ d = part[it].data + part[p].chunk /\ c = part[it].chunk OBVIOUS
<1>1. /\ pc = "shift" /\ p # NULL /\ ~Free(p) /\ Intact
      /\ part' = [part EXCEPT ![m] = [part[p] EXCEPT !.data = part[m].data, !.ocupado = TRUE], ![p] = Empty(d, c)]
      /\ prev' = [prev EXCEPT ![p] = m] /\ it' = p /\ pc' = pc
      /\ UNCHANGED <<next, elements, scheme, damage>>
  BY <1>0 DEF Shift, Running, schemeVars, Moved
<1>2. /\ TypeOK /\ TwoLines /\ RoomIsShared /\ ~Buddy /\ m \in InUse /\ InUse \subseteq Node /\ NULL \notin Node
      /\ part \in [Node -> Part] /\ prev \in [Node -> Node \cup {NULL}]
      /\ \A i, j \in Node : next[i] = next[j] /\ next[i] # NULL => i = j
      /\ \A i \in InUse : next[i] = NULL \/ (next[i] \in InUse /\ next[i] # i)
      /\ table_max_size \in Nat /\ Free(m)
  BY <1>0, <1>1, ListFacts, EngineAssumption DEF CallFollows, ItemFollows, TypeOK
<1>3. p \in InUse /\ p # m /\ m \in Node /\ p \in Node BY <1>0, <1>1, <1>2
<1>4. InUse' = InUse
  <2>1. /\ part'[m].chunk = part[p].chunk /\ part'[p].chunk = part[m].chunk
        /\ \A n \in Node \ {m, p} : part'[n] = part[n]
    <3>1. part[p] \in Part BY <1>2, <1>3
    <3> DEFINE e == [part[p] EXCEPT !.data = part[m].data, !.ocupado = TRUE]
               b == Empty(d, c)
    <3>2. e.chunk = part[p].chunk BY <3>1 DEF Part
    <3>3. b.chunk = part[m].chunk BY <1>0 DEF Empty
    <3>4. part' = [part EXCEPT ![m] = e, ![p] = b] BY <1>1
    <3> HIDE DEF e, b
    <3>5. QED BY <3>2, <3>3, <3>4, <1>2, <1>3
  <2>2. ASSUME NEW n \in Node PROVE part'[n].chunk > 0 <=> part[n].chunk > 0
    <3>1. part[m].chunk > 0 /\ part[p].chunk > 0 BY <1>2, <1>3 DEF InUse
    <3>2. QED BY <2>1, <3>1
  <2>3. QED BY <2>2 DEF InUse
<1>5. ~Free(m)' /\ \A n \in Node \ {m, p} : Free(n)' <=> Free(n)
  <2>1. part'[m].ocupado /\ \A n \in Node \ {m, p} : part'[n] = part[n]
    <3>1. part[p] \in Part BY <1>2, <1>3
    <3> DEFINE e == [part[p] EXCEPT !.data = part[m].data, !.ocupado = TRUE]
               b == Empty(d, c)
    <3>2. e.ocupado BY <3>1 DEF Part
    <3>3. part' = [part EXCEPT ![m] = e, ![p] = b] BY <1>1
    <3> HIDE DEF e, b
    <3>4. QED BY <3>2, <3>3, <1>2, <1>3
  <2>2. QED BY <2>1 DEF Free, estaReservado
<1>6. ASSUME NEW n \in InUse'
      PROVE  (n = elements \/ prev'[n] # NULL) /\ (Touching(n)' => AtHand(n)')
  <2>1. n \in InUse /\ n \in Node BY <1>2, <1>4
  <2>2. (n = elements \/ prev[n] # NULL) /\ (Touching(n) => AtHand(n)) BY <2>1, <1>1, <1>2 DEF ApartInv
  <2>3. n = elements \/ prev'[n] # NULL BY <2>1, <2>2, <1>1, <1>2, <1>3
  <2>4. CASE n = p BY <2>3, <2>4, <1>1 DEF AtHand
  <2>5. CASE n # p
    <3>1. ASSUME Touching(n)' PROVE FALSE
      <4>1. Free(n)' /\ n # m BY <3>1, <1>5 DEF Touching
      <4>2. next[n] # p /\ next[n] # NULL BY <4>1, <3>1, <2>1, <1>0, <1>1, <1>2, <1>3 DEF Touching
      <4>a. PICK h : h = next[n] OBVIOUS
      <4>3. h \in Node /\ next'[n] = h BY <4>a, <4>2, <2>1, <1>1, <1>2
      <4>4. Free(h)' BY <4>3, <3>1 DEF Touching, Free, estaReservado
      <4>5. h # m BY <4>4, <1>5
      <4>6. Free(n) /\ Free(next[n]) BY <4>a, <4>1, <4>2, <4>3, <4>4, <4>5, <2>1, <2>5, <1>5
      <4>7. AtHand(n) BY <4>2, <4>6, <2>2 DEF Touching
      <4>8. QED BY <4>7, <4>1, <1>0, <1>1 DEF AtHand
    <3>2. QED BY <2>3, <3>1
  <2>6. QED BY <2>4, <2>5
<1>7. QED BY <1>6, <1>1 DEF ApartInv

\* part of a free partition, or all of it, is taken
Takes(n, s, w, d, e, f) ==
  \/ part' = [part EXCEPT ![n].size = w]
  \/ s \in Node /\ s # n /\ part' = [[part EXCEPT ![n].size = w] EXCEPT ![n].chunk = d,
                                       ![s].chunk = @ + e, ![s].data = f]

\* taking memory marks nobody
LEMMA FitMarks ==
  ASSUME TypeOK, NEW n \in Node, NEW s, NEW w, NEW d, NEW e, NEW f, Takes(n, s, w, d, e, f)
  PROVE  /\ \A m \in Node : part'[m].ocupado = part[m].ocupado /\ part'[m].key = part[m].key
         /\ \A m \in Node \ {n, s} : part'[m] = part[m]
<1>1. part \in [Node -> Part] /\ part[n] \in Part BY DEF TypeOK
<1> DEFINE t == [part EXCEPT ![n].size = w]
<1>2. /\ t \in [Node -> Part] \/ DOMAIN t = Node
      /\ \A m \in Node : t[m].ocupado = part[m].ocupado /\ t[m].key = part[m].key
      /\ \A m \in Node \ {n} : t[m] = part[m]
      /\ t[n] = [part[n] EXCEPT !.size = w]
  BY <1>1 DEF Part
<1>3. CASE part' = t BY <1>2, <1>3
<1>4. CASE s \in Node /\ s # n /\ part' = [t EXCEPT ![n].chunk = d, ![s].chunk = @ + e, ![s].data = f]
  <2> DEFINE x == [t[n] EXCEPT !.chunk = d]
             y == [t[s] EXCEPT !.chunk = @ + e, !.data = f]
  <2>1. x.ocupado = part[n].ocupado /\ x.key = part[n].key BY <1>1, <1>2 DEF Part
  <2>2. y.ocupado = part[s].ocupado /\ y.key = part[s].key
    <3>1. part[s] \in Part /\ t[s] = part[s] BY <1>1, <1>2, <1>4
    <3>2. QED BY <3>1 DEF Part
  <2>3. DOMAIN t = Node BY <1>1
  <2>4. part' = [t EXCEPT ![n] = x, ![s] = y] BY <2>3, <1>4
  <2> HIDE DEF t, x, y
  <2>5. part'[n] = x /\ part'[s] = y /\ \A m \in Node \ {n, s} : part'[m] = t[m] BY <2>3, <2>4, <1>4
  <2>6. QED BY <2>1, <2>2, <2>5, <1>2
<1>5. QED BY <1>3, <1>4 DEF Takes

\* nothing free is behind the rest
LEMMA FitKeepsApart == ASSUME IInv, ApartInv, Fit PROVE ApartInv'
<1>0. PICK n, s, w, d, e, f : /\ n = Chosen /\ s = nodes /\ w = want.size /\ d = Need /\ e = Rest(Chosen)
                              /\ f = part[Chosen].data + Need
  OBVIOUS
<1>1. /\ Intact /\ pc = "find" /\ it' = n /\ pc' = "found" /\ Fitting # {}
      /\ UNCHANGED <<scheme, elements, damage>>
      /\ IF Splits(n)
           THEN /\ part' = [[part EXCEPT ![n].size = w] EXCEPT ![n].chunk = d, ![s].chunk = @ + e, ![s].data = f]
                /\ next' = [next EXCEPT ![s] = next[n], ![n] = s]
                /\ prev' = Relink(next[n], s, [Relink(next[s], NULL, prev) EXCEPT ![s] = n])
           ELSE part' = [part EXCEPT ![n].size = w] /\ UNCHANGED <<next, prev>>
  BY <1>0 DEF Fit, Running, schemeVars
<1>2. /\ TypeOK /\ TwoLines /\ RoomIsShared /\ FreeIsBlank /\ ~Buddy /\ InUse \subseteq Node /\ NULL \notin Node
      /\ s = NULL \/ s \in Node \ InUse
      /\ \A i \in InUse : next[i] = NULL \/ (next[i] \in InUse /\ next[i] # i /\ next[i] # elements)
      /\ \A i \in Node \ InUse : next[i] = NULL \/ (next[i] \in Node \ InUse)
      /\ next \in [Node -> Node \cup {NULL}] /\ prev \in [Node -> Node \cup {NULL}]
      /\ \A i, j \in Node : next[i] = next[j] /\ next[i] # NULL => i = j
  BY <1>0, <1>1, ListFacts DEF CallFollows
<1>3. n \in InUse /\ Free(n) /\ n \in Node /\ (Splits(n) => s # NULL)
  BY <1>0, <1>1, <1>2, ChosenFits, ListedAreInUse DEF Fitting, Splits
<1>4. Splits(n) => s \in Node \ InUse /\ s # n BY <1>2, <1>3
<1>5. /\ \A m \in Node : part'[m].ocupado = part[m].ocupado /\ part'[m].key = part[m].key
      /\ \A m \in Node \ {n, s} : part'[m] = part[m]
  <2>1. CASE Splits(n)
    <3>1. Takes(n, s, w, d, e, f) BY <2>1, <1>1, <1>4 DEF Takes
    <3>2. QED BY <3>1, <1>2, <1>3, FitMarks
  <2>2. CASE ~Splits(n)
    <3>1. Takes(n, s, w, d, e, f) BY <2>2, <1>1 DEF Takes
    <3>2. QED BY <3>1, <1>2, <1>3, FitMarks
  <2>3. QED BY <2>1, <2>2
<1>6. \A m \in Node : Free(m)' <=> Free(m) BY <1>5 DEF Free, estaReservado
<1>7. \A m \in InUse : ~Touching(m) /\ (m = elements \/ prev[m] # NULL)
  BY <1>1, <1>2 DEF ApartInv, AtHand
<1>8. CASE ~Splits(n)
  <2>1. ASSUME NEW m \in InUse'
        PROVE  (m = elements \/ prev'[m] # NULL) /\ (Touching(m)' => AtHand(m)')
    <3>1. m \in Node BY DEF InUse
    <3>2. CASE m = n
      <4>1. m = elements \/ prev'[m] # NULL BY <3>2, <1>1, <1>3, <1>7, <1>8
      <4>2. AtHand(m)' BY <3>2, <1>1 DEF AtHand
      <4>3. QED BY <4>1, <4>2
    <3>3. CASE m # n
      <4>1. m \in InUse
        <5>1. CASE m = s
          <6>1. part'[s].chunk = part[s].chunk
            <7>1. part \in [Node -> Part] BY <1>2 DEF TypeOK
            <7>2. QED BY <7>1, <5>1, <3>1, <3>3, <1>1, <1>3, <1>8
          <6>2. QED BY <6>1, <5>1, <3>1 DEF InUse
        <5>2. CASE m # s BY <5>2, <3>1, <3>3, <1>5 DEF InUse
        <5>3. QED BY <5>1, <5>2
      <4>2. Touching(m)' => Touching(m)
        <5>1. next[m] \in Node \cup {NULL} BY <3>1, <1>2
        <5>2. QED BY <5>1, <3>1, <1>1, <1>5, <1>8 DEF Touching, Free, estaReservado
      <4>3. QED BY <4>1, <4>2, <1>1, <1>7, <1>8
    <3>4. QED BY <3>2, <3>3
  <2>2. QED BY <2>1, <1>1 DEF ApartInv
<1>9. CASE Splits(n)
  <2>1. ASSUME NEW m \in InUse'
        PROVE  (m = elements \/ prev'[m] # NULL) /\ (Touching(m)' => AtHand(m)')
    <3>1. m \in Node /\ (m = s \/ m \in InUse)
      <4>1. m \in Node BY DEF InUse
      <4>2. CASE m \notin {n, s} BY <4>1, <4>2, <1>5 DEF InUse
      <4>3. QED BY <4>1, <4>2, <1>3
    <3>2. m = elements \/ prev'[m] # NULL
      <4> DEFINE r == Relink(next[s], NULL, prev)
      <4>1. next[s] \in (Node \ InUse) \cup {NULL} /\ r \in [Node -> Node \cup {NULL}]
        BY <1>2, <1>4, <1>9, RelinkTyped
      <4>2. m \in InUse => r[m] = prev[m] BY <4>1, <1>2 DEF Relink
      <4>3. prev' = Relink(next[n], s, [r EXCEPT ![s] = n]) BY <1>1, <1>9
      <4> HIDE DEF r
      <4> DEFINE h == [r EXCEPT ![s] = n]
      <4>4. h[m] # NULL \/ m = elements BY <4>1, <4>2, <3>1, <1>2, <1>3, <1>4, <1>7, <1>9
      <4>5. h \in [Node -> Node \cup {NULL}] BY <4>1, <1>3
      <4> HIDE DEF h
      <4>6. prev' = Relink(next[n], s, h) BY <4>3 DEF h
      <4>7. s # NULL BY <1>3, <1>9
      <4>8. QED BY <4>4, <4>5, <4>6, <4>7 DEF Relink
    <3>3. CASE m = n BY <3>2, <3>3, <1>1 DEF AtHand
    <3>4. CASE m # n
      <4>1. ASSUME Touching(m)' PROVE FALSE
        <5>1. CASE m = s
          <6>a. PICK h : h = next[n] OBVIOUS
          <6>1. next'[s] = h BY <6>a, <1>1, <1>2, <1>3, <1>4, <1>9
          <6>2. h # NULL /\ h \in Node BY <6>a, <6>1, <5>1, <4>1, <1>2, <1>3 DEF Touching
          <6>3. Free(h)' BY <6>1, <6>2, <5>1, <4>1 DEF Touching, Free, estaReservado
          <6>4. Touching(n) BY <6>a, <6>2, <6>3, <1>3, <1>6 DEF Touching
          <6>5. QED BY <6>4, <1>3, <1>7
        <5>2. CASE m # s
          <6>a. PICK h : h = next[m] OBVIOUS
          <6>1. m \in InUse /\ next'[m] = h BY <6>a, <5>2, <3>1, <3>4, <1>1, <1>2, <1>9
          <6>2. h # NULL /\ h \in Node BY <6>a, <6>1, <4>1, <1>2 DEF Touching
          <6>3. Free(h)' /\ Free(m)' BY <6>1, <6>2, <4>1 DEF Touching, Free, estaReservado
          <6>4. Touching(m) BY <6>a, <6>2, <6>3, <3>1, <1>6 DEF Touching
          <6>5. QED BY <6>1, <6>4, <1>7
        <5>3. QED BY <5>1, <5>2
      <4>2. QED BY <3>2, <4>1
    <3>5. QED BY <3>3, <3>4
  <2>2. QED BY <2>1, <1>1 DEF ApartInv
<1>10. QED BY <1>8, <1>9

-----------------------------------------------------------------------------
(* No two free dynamic partitions touch between two calls *)

LEMMA StartsWithOne == ASSUME Init PROVE ApartInv
<1>1. /\ slab_min_size \in Nat \ {0} /\ table_max_size \in Nat /\ table_max_size >= slab_min_size
      /\ Cant \in Nat \ {0} /\ Node = 0..Cant
  BY EngineAssumption, CantIsNat
<1>2. PICK k \in {NoKey, Garbage} :
        part = [n \in Node |-> IF n = 0 THEN [Empty(0, table_max_size) EXCEPT !.key = k] ELSE Empty(0, 0)]
  BY DEF Init
<1>3. elements = 0 /\ next = [n \in Node |-> IF n \in {0, Cant} THEN NULL ELSE n + 1] BY DEF Init
<1>4. \A n \in InUse : n = 0
  <2>1. ASSUME NEW n \in Node, n # 0 PROVE part[n].chunk = 0 BY <2>1, <1>2 DEF Empty
  <2>2. QED BY <2>1, <1>1 DEF InUse
<1>5. next[0] = NULL BY <1>1, <1>3
<1>6. QED BY <1>3, <1>4, <1>5 DEF ApartInv, Touching

\* the buddy system has nothing to do with it
LEMMA BuddyStepApart ==
  ASSUME IInv, ApartInv, BuddyClear \/ Unite \/ UniteDone \/ Halve \/ BuddyFit PROVE ApartInv'
<1>1. Intact /\ pc \in {"remove buddy", "unite", "halve"} /\ UNCHANGED scheme
  BY DEF BuddyClear, Unite, UniteDone, Halve, BuddyFit, Running, schemeVars, memVars
<1>2. Buddy' BY <1>1 DEF IInv, CallFollows, Buddy
<1>3. QED BY <1>2 DEF ApartInv

LEMMA StepKeepsApart == ASSUME IInv, ApartInv, [Next]_vars PROVE ApartInv'
<1>0. TypeOK BY DEF IInv
<1>1. ASSUME NEW c \in Conn, ConnStep(c) PROVE ApartInv' BY <1>0, <1>1, ConnQuiet, QuietlyApart
<1>2. CASE EngineStep BY <1>2, <1>0, CallQuiet, QuietlyApart, AllocateFoundKeepsApart DEF EngineStep
<1>3. CASE DynamicStep
  BY <1>3, <1>0, CallQuiet, QuietlyApart, ClearKeepsApart, MergeBackKeepsApart, BackDoneKeepsApart,
     MergeForwardKeepsApart, ForwardDoneKeepsApart, FitKeepsApart, ConsolidateKeepsApart, ShiftKeepsApart,
     CompactDoneKeepsApart
     DEF DynamicStep
<1>4. CASE BuddyStep BY <1>4, <1>0, CallQuiet, QuietlyApart, BuddyStepApart DEF BuddyStep
<1>5. CASE UNCHANGED vars
  <2>1. UNCHANGED <<part, next, prev, schemeVars, damage, pc, it>> BY <1>5 DEF vars, memVars, callVars
  <2>2. QED BY <1>0, <2>1, MemoryQuiet, QuietlyApart
<1>6. CASE Over BY <1>5, <1>6 DEF Over
<1>7. QED BY <1>1, <1>2, <1>3, <1>4, <1>5, <1>6 DEF Next, CallStep

\* After every removal and every compaction the free neighbours of a dynamic partition are
\* one with it, whatever calls of how many connections went before (diccionario_eliminar,
\* diccionario_compactarMemoria): between two calls no two free partitions touch.
THEOREM FreePartitionsAreApart == Spec => []FreeAreApart
<1>1. Init => IInv /\ ApartInv BY Starts, StartsWithOne
<1>2. (IInv /\ ApartInv) /\ [Next]_vars => (IInv /\ ApartInv)' BY StepKeeps, StepKeepsApart
<1>3. ASSUME IInv, ApartInv PROVE FreeAreApart
  <2>1. SUFFICES ASSUME ~Buddy, Intact, owner = NoConn, NEW n \in Listed, Free(n), next[n] # NULL, Free(next[n])
                 PROVE  FALSE
    BY DEF FreeAreApart
  <2>2. TwoLines /\ CallFollows BY <1>3, <2>1, ListFacts
  <2>3. n \in InUse /\ pc = "idle" BY <2>1, <2>2, ListedAreInUse DEF CallFollows
  <2>4. QED BY <1>3, <2>1, <2>3 DEF ApartInv, Touching, AtHand
<1>4. IInv /\ ApartInv => FreeAreApart BY <1>3
<1>5. QED BY <1>1, <1>2, <1>4, PTL DEF Spec

-----------------------------------------------------------------------------
(* The sizes of the buddy system *)

\* what the proofs use of the sizes: each divides the larger ones, and so does its double
SizesDivide(S) ==
  /\ slab_min_size \in S /\ table_max_size \in S
  /\ \A a \in S : a \in Nat /\ slab_min_size <= a /\ a <= table_max_size
  /\ \A a \in S : a = table_max_size \/ 2 * a \in S
  /\ \A a \in S : a = slab_min_size \/ \E b \in S : a = 2 * b
  /\ \A a, b \in S : a <= b => \E t \in Nat : b = t * a
  /\ \A a, b \in S : a < b => \E t \in Nat : b = t * (2 * a)

LEMMA DoublesDivide ==
  ASSUME NEW k \in Nat, NEW f, Doubling(f, k) PROVE SizesDivide({f[i] : i \in 0..k})
<1>1. f \in [0..k -> Nat] /\ f[0] = slab_min_size /\ f[k] = table_max_size
  BY DEF Doubling
<1>2. ASSUME NEW i \in Nat, i + 1 <= k
      PROVE  /\ i \in 0..k /\ i + 1 \in 0..k /\ i + 1 # 0 /\ f[i] \in Nat /\ f[i + 1] = 2 * f[i]
  <2>1. i \in 0..k - 1 /\ i \in 0..k /\ i + 1 \in 0..k BY <1>2
  <2>2. QED BY <2>1, <1>1 DEF Doubling
\* f[j] is a multiple of f[i] from i on
<1>3. ASSUME NEW i \in 0..k PROVE \A j \in 0..k : i <= j => f[i] <= f[j] /\ \E t \in Nat : f[j] = t * f[i]
  <2> DEFINE P == {j \in Nat : i <= j /\ j <= k => f[i] <= f[j] /\ \E t \in Nat : f[j] = t * f[i]}
  <2>0. f[i] \in Nat BY <1>1
  <2>a. f[i] <= f[i] /\ f[i] = 1 * f[i] BY <2>0
  <2>1. 0 \in P
    <3>1. ASSUME i <= 0 PROVE i = 0 BY <3>1
    <3>2. QED BY <2>a, <3>1
  <2>2. ASSUME NEW j \in Nat, j \in P PROVE j + 1 \in P
    <3> SUFFICES ASSUME i <= j + 1, j + 1 <= k PROVE f[i] <= f[j + 1] /\ \E t \in Nat : f[j + 1] = t * f[i]
      OBVIOUS
    <3>1. CASE i = j + 1 BY <3>1, <2>a
    <3>2. CASE i # j + 1
      <4>1. i <= j /\ j <= k BY <3>2
      <4>2. f[i] <= f[j] /\ \E t \in Nat : f[j] = t * f[i] BY <4>1, <2>2
      <4>3. PICK t \in Nat : f[j] = t * f[i] BY <4>2
      <4>4. f[j] \in Nat /\ f[j + 1] = 2 * f[j] BY <1>2
      <4>5. 2 * (t * f[i]) = (2 * t) * f[i] /\ 2 * t \in Nat BY <2>0
      <4>6. f[i] <= f[j + 1] BY <4>2, <4>4, <2>0
      <4>7. QED BY <4>3, <4>4, <4>5, <4>6
    <3>3. QED BY <3>1, <3>2
  <2>3. Nat \subseteq P
    <3> HIDE DEF P
    <3>1. QED BY <2>1, <2>2, Induct
  <2>4. QED BY <2>3
<1> DEFINE S == {f[i] : i \in 0..k}
<1>4. slab_min_size \in Nat \ {0} BY EngineAssumption
<1>5. \A i \in 0..k : f[i] \in Nat /\ slab_min_size <= f[i] /\ f[i] <= table_max_size
  <2>1. ASSUME NEW i \in 0..k PROVE f[i] \in Nat /\ slab_min_size <= f[i] /\ f[i] <= table_max_size
    <3>1. 0 \in 0..k /\ k \in 0..k /\ 0 <= i /\ i <= k OBVIOUS
    <3>2. f[0] <= f[i] /\ f[i] <= f[k] BY <3>1, <1>3
    <3>3. QED BY <3>2, <1>1
  <2>2. QED BY <2>1
<1>6. slab_min_size \in S /\ table_max_size \in S
  <2>1. 0 \in 0..k /\ k \in 0..k OBVIOUS
  <2>2. QED BY <2>1, <1>1
<1>7. ASSUME NEW i \in 0..k PROVE f[i] = table_max_size \/ 2 * f[i] \in S
  <2>1. CASE i = k BY <2>1, <1>1
  <2>2. CASE i # k
    <3>1. i \in Nat /\ i + 1 <= k BY <2>2
    <3>2. i + 1 \in 0..k /\ f[i + 1] = 2 * f[i] BY <3>1, <1>2
    <3>3. QED BY <3>2
  <2>3. QED BY <2>1, <2>2
<1>8. ASSUME NEW i \in 0..k PROVE f[i] = slab_min_size \/ \E b \in S : f[i] = 2 * b
  <2>1. CASE i = 0 BY <2>1, <1>1
  <2>2. CASE i # 0
    <3>1. i - 1 \in Nat /\ (i - 1) + 1 = i /\ i <= k BY <2>2
    <3>2. i - 1 \in 0..k /\ f[i] = 2 * f[i - 1] BY <3>1, <1>2
    <3>3. QED BY <3>2
  <2>3. QED BY <2>1, <2>2
<1>9. ASSUME NEW i \in 0..k, NEW j \in 0..k, f[i] <= f[j] PROVE \E t \in Nat : f[j] = t * f[i]
  <2>1. CASE i <= j BY <2>1, <1>3
  <2>2. CASE ~(i <= j)
    <3>1. j <= i BY <2>2
    <3>2. f[j] <= f[i] BY <3>1, <1>3
    <3>3. f[j] = f[i] /\ f[i] \in Nat BY <3>2, <1>5, <1>9
    <3>4. f[j] = 1 * f[i] BY <3>3
    <3>5. QED BY <3>4
  <2>3. QED BY <2>1, <2>2
<1>10. ASSUME NEW i \in 0..k, NEW j \in 0..k, f[i] < f[j] PROVE \E t \in Nat : f[j] = t * (2 * f[i])
  <2>1. ~(j <= i)
    <3>1. ASSUME j <= i PROVE FALSE
      <4>1. f[j] <= f[i] BY <3>1, <1>3
      <4>2. QED BY <4>1, <1>5, <1>10
    <3>2. QED BY <3>1
  <2>2. i \in Nat /\ i + 1 <= k /\ i + 1 <= j /\ i + 1 \in 0..k BY <2>1
  <2>3. f[i + 1] = 2 * f[i] BY <2>2, <1>2
  <2>4. \E t \in Nat : f[j] = t * f[i + 1] BY <2>2, <1>3
  <2>5. QED BY <2>3, <2>4
<1>11. \A a \in S : a \in Nat /\ slab_min_size <= a /\ a <= table_max_size BY <1>5
<1>12. \A a \in S : a = table_max_size \/ 2 * a \in S BY <1>7
<1>13. \A a \in S : a = slab_min_size \/ \E b \in S : a = 2 * b BY <1>8
<1>14. \A a, b \in S : a <= b => \E t \in Nat : b = t * a BY <1>9
<1>15. \A a, b \in S : a < b => \E t \in Nat : b = t * (2 * a) BY <1>10
<1> HIDE DEF S
<1>16. SizesDivide(S) BY <1>6, <1>11, <1>12, <1>13, <1>14, <1>15 DEF SizesDivide
<1>17. QED BY <1>16 DEF S

-----------------------------------------------------------------------------
(* The sibling is the one at the address next to the partition *)

\* g[i] is what is counted before the i-th partition
Counts(g, s) ==
  g = [i \in 0..Cant + 1 |->
         IF i = 0 THEN [count |-> 0, pieces |-> 0] ELSE Counted(g[i - 1], part[At[i - 1]].chunk, s)]
CountsUpTo(k, g, s) ==
  g = [i \in 0..k |->
         IF i = 0 THEN [count |-> 0, pieces |-> 0] ELSE Counted(g[i - 1], part[At[i - 1]].chunk, s)]

LEMMA CountsExist == ASSUME NEW s PROVE \E g : Counts(g, s)
<1> DEFINE P == {k \in Nat : \E g : CountsUpTo(k, g, s)}
           zero == [count |-> 0, pieces |-> 0]
<1>1. 0 \in P
  <2>1. CountsUpTo(0, [i \in 0..0 |-> zero], s) BY DEF CountsUpTo
  <2>2. QED BY <2>1
<1>2. ASSUME NEW k \in Nat, k \in P PROVE k + 1 \in P
  <2>1. PICK g : CountsUpTo(k, g, s) BY <1>2
  <2> DEFINE h == [i \in 0..k + 1 |-> IF i = k + 1 THEN Counted(g[k], part[At[k]].chunk, s) ELSE g[i]]
  <2> HIDE DEF zero
  <2>2. ASSUME NEW i \in 0..k + 1
        PROVE  h[i] = IF i = 0 THEN zero ELSE Counted(h[i - 1], part[At[i - 1]].chunk, s)
    <3>1. CASE i = k + 1 BY <3>1
    <3>2. CASE i # k + 1
      <4>1. i \in 0..k /\ h[i] = g[i] BY <3>2
      <4>2. g[i] = IF i = 0 THEN zero ELSE Counted(g[i - 1], part[At[i - 1]].chunk, s)
        BY <2>1, <4>1 DEF CountsUpTo, zero
      <4>3. i # 0 => h[i - 1] = g[i - 1] BY <4>1
      <4>4. QED BY <4>1, <4>2, <4>3
    <3>3. QED BY <3>1, <3>2
  <2>3. CountsUpTo(k + 1, h, s) BY <2>2 DEF CountsUpTo, zero
  <2>4. QED BY <2>3
<1>3. Nat \subseteq P
  <2> HIDE DEF P
  <2>1. QED BY <1>1, <1>2, Induct
<1>4. PICK g : CountsUpTo(Cant + 1, g, s) BY <1>3, CantIsNat
<1>5. Counts(g, s) BY <1>4 DEF Counts, CountsUpTo
<1>6. QED BY <1>5

LEMMA BlocksAreCounted == ASSUME NEW s PROVE Counts(BlocksBefore(s), s)
<1>1. \E g : Counts(g, s) BY CountsExist
<1>2. QED BY Zenon, <1>1 DEF BlocksBefore, Counts

\* one more partition, of a size that the others divide or are divided by
LEMMA CountedRight ==
  ASSUME NEW S, SizesDivide(S), NEW s \in S, NEW c \in S, NEW d \in Nat, NEW m \in Nat, d = m * c,
         NEW b \in [count : Nat, pieces : Nat], b.pieces < s, d = b.count * s + b.pieces
  PROVE  LET e == Counted(b, c, s)
         IN e \in [count : Nat, pieces : Nat] /\ e.pieces < s /\ d + c = e.count * s + e.pieces
<1>1. s \in Nat \ {0} /\ c \in Nat \ {0} BY EngineAssumption DEF SizesDivide
<1>2. PICK x \in Nat, y \in Nat : b.count = x /\ b.pieces = y /\ b = [count |-> x, pieces |-> y] OBVIOUS
<1>3. CASE c >= s
  <2>1. PICK t \in Nat : c = t * s BY <1>1, <1>3 DEF SizesDivide
  <2>2. c \div s = t BY <1>1, <2>1
  <2>a. ~(c < s) BY <1>1, <1>3
  <2>b. [b EXCEPT !.count = @ + t] = [count |-> x + t, pieces |-> y] BY <1>2
  <2>3. Counted(b, c, s) = [count |-> x + t, pieces |-> y] BY <1>3, <2>2, <2>a, <2>b DEF Counted
  <2>4. x + t \in Nat /\ (x + t) * s = x * s + t * s BY <1>1
  <2>5. d + c = (x + t) * s + y BY <1>1, <1>2, <2>1, <2>4
  <2>6. QED BY <1>2, <2>3, <2>4, <2>5
<1>4. CASE c < s
  <2>a. c <= s BY <1>1, <1>4
  <2>1. PICK t \in Nat : s = t * c BY <2>a DEF SizesDivide
  <2>2. c % s = c BY <1>1, <1>4
  <2>3. y + c <= s
    <3>1. PICK z \in Nat : z = x * t OBVIOUS
    <3>2. x * s = z * c /\ z * c \in Nat BY <1>1, <2>1, <3>1
    <3>3. y = m * c - z * c BY <1>2, <3>2
    <3>4. y = (m - z) * c BY <1>1, <3>1, <3>3
    <3>5. PICK r \in Int : r = m - z BY <3>1
    <3>6. r * c < t * c BY <3>4, <3>5, <1>2, <2>1
    <3>7. r * c + c <= t * c BY <3>5, <3>6, <1>1
    <3>8. QED BY <3>4, <3>5, <3>7, <2>1
  <2>4. CASE y + c = s
    <3>1. ~(c >= s) BY <1>1, <1>4
    <3>2. Counted(b, c, s) = [count |-> x + 1, pieces |-> 0] BY <1>2, <1>4, <2>2, <2>4, <3>1 DEF Counted
    <3>3. (x + 1) * s = x * s + s /\ x * s \in Nat BY <1>1
    <3>4. d + c = (x + 1) * s + 0 BY <1>1, <1>2, <2>4, <3>3
    <3>5. QED BY <1>1, <3>2, <3>4
  <2>5. CASE y + c # s
    <3>1. ~(c >= s) BY <1>1, <1>4
    <3>2. Counted(b, c, s) = [count |-> x, pieces |-> y + c] BY <1>2, <1>4, <2>2, <2>5, <3>1 DEF Counted
    <3>3. y + c \in Nat /\ y + c < s BY <1>1, <2>3, <2>5
    <3>4. x * s \in Nat BY <1>1
    <3>5. d + c = x * s + (y + c) BY <1>1, <1>2, <3>4
    <3>6. QED BY <3>2, <3>3, <3>5
  <2>6. QED BY <2>4, <2>5
<1>5. QED BY <1>1, <1>3, <1>4

\* the partitions lie at multiples of their sizes, one behind another
Aligned(S) ==
  /\ part[elements].data = 0
  /\ \A n \in InUse : part[n].data + part[n].chunk = EndOf(n) /\ Piece(n, S)

LEMMA PieceFacts ==
  ASSUME NEW S, SizesDivide(S), Aligned(S), NEW n \in InUse
  PROVE  /\ part[n].chunk \in S /\ part[n].chunk \in Nat \ {0} /\ slab_min_size <= part[n].chunk
         /\ part[n].data \in Nat /\ \E m \in Nat : part[n].data = m * part[n].chunk
<1>1. part[n].chunk \in S /\ \E m \in Nat : part[n].data = m * part[n].chunk BY DEF Aligned, Piece
<1>2. part[n].chunk \in Nat /\ slab_min_size <= part[n].chunk BY <1>1 DEF SizesDivide
<1>3. slab_min_size \in Nat \ {0} BY EngineAssumption
<1>4. QED BY <1>1, <1>2, <1>3

\* up to a partition, as many blocks of its size are counted as there are before its address
LEMMA BlocksAreMultiples ==
  ASSUME TypeOK, TwoLines, NEW S, SizesDivide(S), Aligned(S), NEW n \in InUse
  PROVE  /\ BlocksBefore(part[n].chunk)[Place(n)].count \in Nat
         /\ part[n].data = BlocksBefore(part[n].chunk)[Place(n)].count * part[n].chunk
<1>1. PICK s, g : s = part[n].chunk /\ g = BlocksBefore(s) OBVIOUS
<1>2. Counts(g, s) BY <1>1, BlocksAreCounted
<1>3. PICK rank, a, b : a \in 0..Cant + 1 /\ Lines(rank, a, b) BY DEF TwoLines
<1>4. Line(elements, InUse, next, a, rank) /\ InUse \in SUBSET Node /\ a \in Nat
  BY <1>3, CantIsNat DEF Lines, InUse
<1>5. Walk(At, elements, next)
  <2>1. \E f : Walk(f, elements, next) BY <1>4, LineIsWalked
  <2>2. QED BY <2>1, AtWalks
<1>6. Visits(At, InUse, a, rank) BY <1>4, <1>5, WalkFollows
<1>7. /\ NULL \notin Node /\ Cant \in Nat
      /\ \A i \in 0..Cant + 1 : IF i < a THEN At[i] \in InUse /\ rank[At[i]] = i ELSE At[i] = NULL
  BY <1>6, CantIsNat DEF Visits
<1>8. Place(n) \in 0..Cant /\ At[Place(n)] = n
  <2>1. PICK i \in 0..a - 1 : rank[n] = i BY <1>4 DEF Line
  <2>2. i \in 0..Cant /\ i \in 0..Cant + 1 /\ i < a BY <2>1, <1>3, <1>7
  <2>3. At[i] \in InUse /\ rank[At[i]] = i BY <2>2, <1>7
  <2>4. \A x, y \in InUse : rank[x] = rank[y] => x = y BY <1>4 DEF Line
  <2>5. At[i] = n BY <2>1, <2>3, <2>4
  <2>6. QED BY <2>2, <2>5 DEF Place
<1>9. s \in S /\ s \in Nat \ {0} BY <1>1, PieceFacts
<1> DEFINE P == {i \in Nat : i < a => /\ g[i] \in [count : Nat, pieces : Nat] /\ g[i].pieces < s
                                      /\ part[At[i]].data = g[i].count * s + g[i].pieces}
<1>10. 0 \in P
  <2>1. 0 \in 0..Cant + 1 BY <1>7
  <2>2. g[0] = [count |-> 0, pieces |-> 0] BY <2>1, <1>2 DEF Counts
  <2>3. At[0] = elements BY <2>1, <1>5 DEF Walk
  <2>4. 0 * s + 0 = 0 BY <1>9
  <2>5. QED BY <2>2, <2>3, <2>4, <1>9 DEF Aligned
<1>11. ASSUME NEW i \in Nat, i \in P PROVE i + 1 \in P
  <2> SUFFICES ASSUME i + 1 < a
               PROVE  /\ g[i + 1] \in [count : Nat, pieces : Nat] /\ g[i + 1].pieces < s
                      /\ part[At[i + 1]].data = g[i + 1].count * s + g[i + 1].pieces
    OBVIOUS
  <2>1. i + 1 \in 0..Cant + 1 /\ i \in 0..Cant + 1 /\ i < a /\ i + 1 # 0 /\ (i + 1) - 1 = i BY <1>3, <1>7
  <2>2. PICK x, y : x = At[i] /\ y = At[i + 1] OBVIOUS
  <2>3. x \in InUse /\ y \in InUse /\ x # NULL /\ y # NULL BY <2>1, <2>2, <1>4, <1>7
  <2>4. y = next[x] BY <2>1, <2>2, <2>3, <1>5 DEF Walk
  <2>5. part[y].data = part[x].data + part[x].chunk BY <2>3, <2>4 DEF Aligned, EndOf
  <2>6. PICK m \in Nat : part[x].data = m * part[x].chunk BY <2>3 DEF Aligned, Piece
  <2>7. part[x].chunk \in S /\ part[x].data \in Nat
    <3>1. part[x].chunk \in S BY <2>3 DEF Aligned, Piece
    <3>2. part[x].chunk \in Nat BY <3>1 DEF SizesDivide
    <3>3. QED BY <2>6, <3>1, <3>2
  <2>8. /\ g[i] \in [count : Nat, pieces : Nat] /\ g[i].pieces < s
        /\ part[x].data = g[i].count * s + g[i].pieces
    BY <1>11, <2>1, <2>2
  <2>9. g[i + 1] = Counted(g[i], part[x].chunk, s) BY <2>1, <2>2, <1>2 DEF Counts
  <2>10. /\ g[i + 1] \in [count : Nat, pieces : Nat] /\ g[i + 1].pieces < s
         /\ part[x].data + part[x].chunk = g[i + 1].count * s + g[i + 1].pieces
    BY <2>6, <2>7, <2>8, <2>9, <1>9, CountedRight
  <2>11. QED BY <2>2, <2>5, <2>10
<1>12. Nat \subseteq P
  <2> HIDE DEF P
  <2>1. QED BY <1>10, <1>11, Induct
<1>13. PICK i : i = Place(n) OBVIOUS
<1>14. i \in Nat /\ i \in 0..Cant + 1 /\ i < a
  <2>1. i \in Nat /\ i \in 0..Cant + 1 BY <1>7, <1>8, <1>13
  <2>2. At[i] # NULL BY <1>4, <1>7, <1>8, <1>13
  <2>3. QED BY <2>1, <2>2, <1>7
<1>15. i \in P BY <1>12, <1>14
<1>16. /\ g[i] \in [count : Nat, pieces : Nat] /\ g[i].pieces < s
       /\ part[n].data = g[i].count * s + g[i].pieces
  BY <1>8, <1>13, <1>14, <1>15
<1>17. PICK q \in Nat : part[n].data = q * s BY <1>1 DEF Aligned, Piece
<1>18. PICK x \in Nat, y \in Nat : x = g[i].count /\ y = g[i].pieces BY <1>16
<1>19. q = x /\ y = 0
  <2>1. q * s = x * s + y /\ y < s BY <1>16, <1>17, <1>18
  <2>2. (x * s + y) \div s = x /\ (q * s + 0) \div s = q BY <1>9, <2>1
  <2>3. q * s + 0 = q * s /\ q * s \in Nat BY <1>9
  <2>4. q = x BY <2>1, <2>2, <2>3
  <2>5. QED BY <2>1, <2>4, <1>9
<1>20. QED BY <1>1, <1>13, <1>17, <1>18, <1>19

LEMMA SiblingIsNext ==
  ASSUME TypeOK, TwoLines, NEW S, SizesDivide(S), Aligned(S), NEW n \in InUse
  PROVE  \E q \in Nat : part[n].data = q * part[n].chunk /\ (esElPrimerHermano(n) <=> q % 2 = 0)
<1>1. PICK q : q = BlocksBefore(part[n].chunk)[Place(n)].count OBVIOUS
<1>2. q \in Nat /\ part[n].data = q * part[n].chunk BY <1>1, BlocksAreMultiples
<1>3. esElPrimerHermano(n) <=> q % 2 = 0 BY <1>1 DEF esElPrimerHermano
<1>4. QED BY <1>2, <1>3

\* a partition that lies at an even multiple of its size
Evenly(n) == \E m \in Nat : part[n].data = m * (2 * part[n].chunk)

\* the first sibling, as the code counts it, is the one that lies evenly
LEMMA FirstLiesEvenly ==
  ASSUME TypeOK, TwoLines, NEW S, SizesDivide(S), Aligned(S), NEW n \in InUse
  PROVE  /\ esElPrimerHermano(n) <=> Evenly(n)
         /\ ~Evenly(n) => \E m \in Nat : part[n].data = m * (2 * part[n].chunk) + part[n].chunk
<1>1. PICK c, d : c = part[n].chunk /\ d = part[n].data OBVIOUS
<1>2. c \in Nat \ {0} /\ d \in Nat BY <1>1, PieceFacts
<1>3. PICK q \in Nat : d = q * c /\ (esElPrimerHermano(n) <=> q % 2 = 0) BY <1>1, SiblingIsNext
<1>4. CASE q % 2 = 0
  <2>1. PICK m \in Nat : q = 2 * m BY <1>4
  <2>2. d = m * (2 * c) BY <2>1, <1>2, <1>3
  <2>3. QED BY <2>2, <1>1, <1>3, <1>4 DEF Evenly
<1>5. CASE q % 2 # 0
  <2>1. PICK m \in Nat : q = 2 * m + 1 BY <1>5
  <2>2. d = m * (2 * c) + c BY <2>1, <1>2, <1>3
  <2>3. ASSUME NEW h \in Nat, d = h * (2 * c) PROVE FALSE
    <3>1. d = (2 * h) * c BY <2>3, <1>2
    <3>2. q * c = (2 * h) * c BY <3>1, <1>3
    <3>3. (q * c + 0) \div c = q /\ ((2 * h) * c + 0) \div c = 2 * h BY <1>2
    <3>4. q * c + 0 = (2 * h) * c + 0 BY <3>2
    <3>5. q = 2 * h BY <3>3, <3>4
    <3>6. QED BY <3>5, <2>1
  <2>4. ~Evenly(n) BY <2>3, <1>1 DEF Evenly
  <2>5. QED BY <2>2, <2>4, <1>1, <1>3, <1>5
<1>6. QED BY <1>4, <1>5

LEMMA HalvesAlign == ASSUME NEW S, HalvesInv(S), Intact, Buddy PROVE Aligned(S)
BY DEF HalvesInv, Aligned

\* two neighbours of one size, of which the second is not first: siblings
LEMMA SecondLiesOddly ==
  ASSUME NEW S, SizesDivide(S), Aligned(S), NEW n \in InUse, next[n] \in InUse, next[n] # NULL,
         part[next[n]].chunk = part[n].chunk
  PROVE  Evenly(n) => ~Evenly(next[n])
<1>1. PICK c, d, h : c = part[n].chunk /\ d = part[n].data /\ h = next[n] OBVIOUS
<1>2. c \in Nat \ {0} /\ d \in Nat BY <1>1, PieceFacts
<1>3. part[h].data = d + c /\ part[h].chunk = c BY <1>1 DEF Aligned, EndOf
<1>4. ASSUME NEW m \in Nat, NEW k \in Nat, d = m * (2 * c), d + c = k * (2 * c) PROVE FALSE
  <2>0. PICK e \in Nat : e = 2 * c /\ c < e BY <1>2
  <2>1. (m * e + c) % e = c BY <2>0, <1>2
  <2>2. (k * e + 0) % e = 0 BY <2>0, <1>2
  <2>3. m * e \in Nat /\ k * e \in Nat BY <2>0
  <2>4. k * e + 0 = m * e + c BY <2>0, <2>3, <1>4, <1>2
  <2>5. QED BY <2>1, <2>2, <2>4, <1>2
<1>5. QED BY <1>1, <1>3, <1>4 DEF Evenly

\* and the other way round
LEMMA SiblingBefore ==
  ASSUME NEW S, SizesDivide(S), Aligned(S), NEW n \in InUse, NEW h \in InUse, next[h] = n, n # NULL,
         part[h].chunk = part[n].chunk, NEW m \in Nat, part[n].data = m * (2 * part[n].chunk) + part[n].chunk
  PROVE  part[h].data = m * (2 * part[n].chunk)
<1>1. PICK c, d : c = part[n].chunk /\ d = part[h].data OBVIOUS
<1>2. c \in Nat \ {0} /\ d \in Nat BY <1>1, PieceFacts
<1>3. d + c = part[n].data BY <1>1 DEF Aligned, EndOf
<1>4. PICK k \in Nat : k = m * (2 * c) BY <1>2
<1>5. part[n].data = k + c BY <1>1, <1>4
<1>6. d = k BY <1>2, <1>3, <1>4, <1>5
<1>7. QED BY <1>1, <1>4, <1>6

-----------------------------------------------------------------------------
(* The buddy system: the steps that free memory, unite it or take it *)

LEMMA AllocateFoundHalved ==
  ASSUME IInv, NEW S, HalvesInv(S), AllocateFound PROVE HalvesInv(S)'
<1>0. PICK m : m = it OBVIOUS
<1>1. /\ Intact /\ pc = "found" /\ pc' = "idle" /\ part' = [part EXCEPT ![m].key = want.key]
      /\ UNCHANGED <<next, prev, schemeVars, nodes, current, tries, crashed, damage>>
  BY <1>0 DEF AllocateFound, Running, Leave
<1>2. TypeOK /\ m \in InUse /\ call = "allocate" /\ NoKey \notin Key
  BY <1>0, <1>1, ListFacts, EngineAssumption DEF ItemFollows, CallFollows
<1>3. want.key \in Key /\ part \in [Node -> Part] /\ m \in Node /\ part[m] \in Part
  BY <1>1, <1>2, ListFacts DEF CallFollows, TypeOK, InUse
<1> DEFINE e == [part[m] EXCEPT !.key = want.key]
<1>4. /\ e.data = part[m].data /\ e.chunk = part[m].chunk /\ e.size = part[m].size /\ e.key = want.key
      /\ e.ocupado = part[m].ocupado
  BY <1>3 DEF Part
<1>5. part' = [part EXCEPT ![m] = e] BY <1>1, <1>3
<1> HIDE DEF e
<1>6. \A n \in Node : /\ part'[n].data = part[n].data /\ part'[n].chunk = part[n].chunk
                      /\ part'[n].size = part[n].size /\ part'[n].ocupado = part[n].ocupado
                      /\ n # m => part'[n].key = part[n].key
                      /\ n = m => part'[n].key = want.key
  BY <1>3, <1>4, <1>5
<1>7. SameLinks BY <1>1, <1>6 DEF SameLinks, schemeVars
<1>8. want.key # NoKey BY <1>2, <1>3
<1>9. ~Free(m)' BY <1>3, <1>6, <1>8 DEF Free, estaReservado
<1>10. \A n \in Node : n # m => (Free(n)' <=> Free(n)) BY <1>6 DEF Free, estaReservado
<1>11. ASSUME Intact, Buddy, NEW n \in InUse
       PROVE  /\ ~Free(n)' \/ (pc' = "found" /\ it' = n) => Snug(n)'
              /\ Twins(n)' => AtHand(n)'
  <2>1. n \in Node /\ (~Free(n) \/ (pc = "found" /\ it = n) => Snug(n)) /\ (Twins(n) => AtHand(n))
    BY <1>11 DEF HalvesInv, InUse
  <2>2. ~Free(n)' => Snug(n)
    <3>1. CASE n = m BY <3>1, <2>1, <1>0, <1>1
    <3>2. CASE n # m BY <3>2, <2>1, <1>10
    <3>3. QED BY <3>1, <3>2
  <2>3. Snug(n) => Snug(n)' BY <2>1, <1>6 DEF Snug
  <2>4. ASSUME Twins(n)' PROVE FALSE
    <3>1. PICK h : h = next[n] OBVIOUS
    <3>2. h # NULL /\ h \in Node /\ Free(n)' /\ Free(h)'
      <4>1. next' = next /\ h \in Node \cup {NULL} BY <3>1, <2>1, <1>1, <1>2 DEF TypeOK
      <4>2. QED BY <4>1, <3>1, <2>4 DEF Twins, Touching, Free, estaReservado
    <3>3. n # m /\ h # m BY <3>2, <1>9
    <3>4. \A i \in {n, next[n]} : Free(i)' => Free(i)
      <4>1. ASSUME NEW i, i = n \/ i = h PROVE Free(i)' => Free(i) BY <4>1, <3>2, <3>3, <2>1, <1>10
      <4>2. QED BY <4>1, <3>1
    <3>5. Twins(n) BY <3>4, <2>1, <2>4, <1>2, <1>7, TwinsWere
    <3>6. QED BY <3>1, <3>3, <3>5, <2>1, <1>0, <1>1 DEF AtHand
  <2>5. QED BY <2>2, <2>3, <2>4, <1>1
<1>12. QED BY <1>2, <1>7, <1>11, HalvesStay

LEMMA ClearHalved == ASSUME IInv, NEW S, HalvesInv(S), Clear \/ BuddyClear PROVE HalvesInv(S)'
<1>0. PICK m : m = it OBVIOUS
<1>1. /\ Intact /\ pc \in {"remove", "remove buddy"} /\ part' = [part EXCEPT ![m] = Empty(@.data, @.chunk)]
      /\ UNCHANGED <<next, prev, elements, scheme>> /\ it' = m /\ (Intact' => damage' = damage)
      /\ pc' = IF pc = "remove" THEN "back" ELSE "unite"
  BY <1>0 DEF Clear, BuddyClear, Running, schemeVars, Intact
<1>2. TypeOK /\ m \in Node /\ InUse \subseteq Node
  BY <1>0, <1>1, ListFacts DEF ItemFollows
<1>3. /\ \A n \in Node : part'[n].data = part[n].data /\ part'[n].chunk = part[n].chunk
      /\ \A n \in Node \ {m} : part'[n] = part[n]
  BY <1>0, <1>1, <1>2, ClearedLinks
<1>4. ASSUME Intact' PROVE SameLinks BY <1>1, <1>3, <1>4 DEF SameLinks
<1>5. Free(m)'
  <2>1. part \in [Node -> Part] BY <1>2 DEF TypeOK
  <2> DEFINE b == Empty(part[m].data, part[m].chunk)
  <2>2. ~b.ocupado /\ b.key = NoKey BY DEF Empty
  <2>3. part' = [part EXCEPT ![m] = b] BY <1>1
  <2> HIDE DEF b
  <2>4. part'[m] = b BY <2>1, <2>3, <1>2
  <2>5. QED BY <2>2, <2>4 DEF Free, estaReservado
<1>6. ASSUME Intact, Buddy, NEW n \in InUse, SameLinks
      PROVE  /\ ~Free(n)' \/ (pc' = "found" /\ it' = n) => Snug(n)'
             /\ Twins(n)' => AtHand(n)'
  <2>1. n \in Node /\ (~Free(n) => Snug(n)) /\ (Twins(n) => AtHand(n)) BY <1>2, <1>6 DEF HalvesInv
  <2>2. ASSUME ~Free(n)' PROVE Snug(n)'
    <3>1. n # m BY <2>2, <1>5
    <3>2. part'[n] = part[n] BY <3>1, <2>1, <1>3
    <3>3. ~Free(n) BY <3>2, <2>2 DEF Free, estaReservado
    <3>4. QED BY <3>2, <3>3, <2>1 DEF Snug
  <2>3. ASSUME Twins(n)' PROVE AtHand(n)'
    <3>1. CASE n = m \/ next[n] = m BY <3>1, <1>1 DEF AtHand
    <3>2. CASE n # m /\ next[n] # m
      <4>1. next[n] # NULL /\ next[n] \in Node
        <5>1. next[n] \in Node \cup {NULL} BY <2>1, <1>2 DEF TypeOK
        <5>2. QED BY <5>1, <2>3, <1>6 DEF Twins, Touching, SameLinks
      <4>2. \A i \in {n, next[n]} : Free(i)' => Free(i) BY <4>1, <3>2, <2>1, <1>3 DEF Free, estaReservado
      <4>3. AtHand(n) BY <4>2, <2>1, <2>3, <1>2, <1>6, TwinsWere
      <4>4. QED BY <4>3, <1>1 DEF AtHand
    <3>3. QED BY <3>1, <3>2
  <2>4. pc' # "found" BY <1>1
  <2>5. QED BY <2>2, <2>3, <2>4
<1>7. CASE Intact' BY <1>2, <1>4, <1>6, <1>7, HalvesStay
<1>8. CASE ~Intact' BY <1>8 DEF HalvesInv
<1>9. QED BY <1>7, <1>8

\* the partition before the removed one is in use, and it is the one that the link back names
LEMMA BackDoneHalved == ASSUME IInv, NEW S, HalvesInv(S), BackDone PROVE HalvesInv(S)'
<1>1. /\ Intact /\ pc = "back" /\ ~Merges(prev[it]) /\ pc' = "forward" /\ it' = it
      /\ UNCHANGED <<part, next, prev, elements, scheme>>
      /\ (Intact' => damage' = damage)
  BY DEF BackDone, Running, memVars, schemeVars, Intact
<1>2. TypeOK /\ LinksBack /\ InUse \subseteq Node /\ NULL \notin Node BY <1>1, ListFacts
<1>3. CASE ~Intact' BY <1>3 DEF HalvesInv
<1>4. CASE Intact'
  <2>1. SameLinks BY <1>1, <1>4 DEF SameLinks
  <2>2. ASSUME Intact, Buddy, NEW n \in InUse
        PROVE  /\ ~Free(n)' \/ (pc' = "found" /\ it' = n) => Snug(n)'
               /\ Twins(n)' => AtHand(n)'
    <3>1. n \in Node /\ (~Free(n) => Snug(n)) /\ (Twins(n) => AtHand(n)) BY <1>2, <2>2 DEF HalvesInv
    <3>2. ~Free(n)' => Snug(n)' BY <3>1, <1>1 DEF Free, estaReservado, Snug
    <3>3. ASSUME Twins(n)' PROVE AtHand(n)'
      <4>1. Twins(n) BY <3>3, <1>1 DEF Twins, Touching, Free, estaReservado
      <4>2. n = it \/ next[n] = it BY <4>1, <3>1, <1>1 DEF AtHand
      <4>3. ASSUME next[n] = it PROVE FALSE
        <5>1. next[n] # NULL /\ Free(n) BY <4>1 DEF Twins, Touching
        <5>2. prev[it] = n BY <4>3, <5>1, <1>2, <2>2 DEF LinksBack
        <5>3. n # NULL BY <3>1, <1>2
        <5>4. QED BY <5>1, <5>2, <5>3, <1>1 DEF Merges, Free
      <4>4. QED BY <4>2, <4>3, <1>1 DEF AtHand
    <3>4. QED BY <3>2, <3>3, <1>1
  <2>3. QED BY <2>1, <2>2, <1>2, HalvesStay
<1>5. QED BY <1>3, <1>4

LEMMA ForwardDoneHalved == ASSUME IInv, NEW S, HalvesInv(S), ForwardDone PROVE HalvesInv(S)'
<1>1. /\ Intact /\ pc = "forward" /\ ~Merges(next[it]) /\ pc' = "removed"
      /\ UNCHANGED <<part, next, prev, elements, scheme, damage>>
  BY DEF ForwardDone, Running, memVars, schemeVars
<1>2. TypeOK /\ SameLinks BY <1>1, ListFacts DEF SameLinks
<1>3. ASSUME Intact, Buddy, NEW n \in InUse
      PROVE  /\ ~Free(n)' \/ (pc' = "found" /\ it' = n) => Snug(n)'
             /\ Twins(n)' => AtHand(n)'
  <2>1. (~Free(n) => Snug(n)) /\ (Twins(n) => AtHand(n)) BY <1>3 DEF HalvesInv
  <2>2. ~Free(n)' => Snug(n)' BY <2>1, <1>1 DEF Free, estaReservado, Snug
  <2>3. ASSUME Twins(n)' PROVE FALSE
    <3>1. Twins(n) BY <2>3, <1>1 DEF Twins, Touching, Free, estaReservado
    <3>2. n = it BY <3>1, <2>1, <1>1 DEF AtHand
    <3>3. QED BY <3>1, <3>2, <1>1 DEF Twins, Touching, Merges, Free
  <2>4. QED BY <2>2, <2>3, <1>1
<1>4. QED BY <1>2, <1>3, HalvesStay

\* the sibling of the removed partition is not free, or smaller
LEMMA UniteDoneHalved ==
  ASSUME IInv, NEW S, SizesDivide(S), HalvesInv(S), UniteDone PROVE HalvesInv(S)'
<1>0. PICK x : x = it OBVIOUS
<1>1. /\ Intact /\ pc = "unite" /\ ~Unites(x, Hno(x)) /\ pc' = "removed"
      /\ UNCHANGED <<part, next, prev, elements, scheme, damage>>
  BY <1>0 DEF UniteDone, Running, memVars, schemeVars
<1>2. /\ TypeOK /\ TwoLines /\ LinksBack /\ Buddy /\ SameLinks /\ x \in InUse
      /\ InUse \subseteq Node /\ NULL \notin Node
      /\ \A n \in InUse : next[n] = NULL \/ next[n] \in InUse
  BY <1>0, <1>1, ListFacts DEF SameLinks, CallFollows, ItemFollows
<1>3. Aligned(S) BY <1>1, <1>2, HalvesAlign
<1>4. ASSUME Intact, Buddy, NEW n \in InUse
      PROVE  /\ ~Free(n)' \/ (pc' = "found" /\ it' = n) => Snug(n)'
             /\ Twins(n)' => AtHand(n)'
  <2>1. (~Free(n) => Snug(n)) /\ (Twins(n) => AtHand(n)) BY <1>4 DEF HalvesInv
  <2>2. ~Free(n)' => Snug(n)' BY <2>1, <1>1 DEF Free, estaReservado, Snug
  <2>3. ASSUME Twins(n)' PROVE FALSE
    <3>1. Twins(n) BY <2>3, <1>1 DEF Twins, Touching, Free, estaReservado
    <3>2. /\ n = x \/ next[n] = x
          /\ Free(n) /\ next[n] # NULL /\ Free(next[n]) /\ part[next[n]].chunk = part[n].chunk /\ Evenly(n)
      BY <3>1, <2>1, <1>0, <1>1 DEF AtHand, Twins, Touching, Evenly
    <3>3. CASE n = x
      <4>1. Hno(x) = next[x] BY <3>2, <3>3, <1>2, <1>3, FirstLiesEvenly DEF Hno
      <4>2. QED BY <4>1, <3>2, <3>3, <1>1 DEF Unites
    <3>4. CASE next[n] = x
      <4>1. ~Evenly(x) BY <3>2, <3>4, <1>2, <1>3, SecondLiesOddly
      <4>2. Hno(x) = prev[x] BY <4>1, <1>2, <1>3, FirstLiesEvenly DEF Hno
      <4>3. prev[x] = n /\ n # NULL BY <3>2, <3>4, <1>2 DEF LinksBack
      <4>4. QED BY <4>2, <4>3, <3>2, <3>4, <1>1 DEF Unites
    <3>5. QED BY <3>2, <3>3, <3>4
  <2>4. QED BY <2>2, <2>3, <1>1
<1>5. QED BY <1>2, <1>4, HalvesStay

\* a smaller half would not do
LEMMA BuddyFitHalved ==
  ASSUME IInv, NEW S, SizesDivide(S), HalvesInv(S), BuddyFit PROVE HalvesInv(S)'
<1>0. PICK x : x = it OBVIOUS
<1>1. /\ Intact /\ pc = "halve" /\ ~Halves /\ pc' = "found" /\ it' = it
      /\ part' = [part EXCEPT ![x].size = want.size]
      /\ UNCHANGED <<next, prev, elements, scheme, damage>>
  BY <1>0 DEF BuddyFit, Running, schemeVars
<1>2. /\ TypeOK /\ TwoLines /\ RoomIsShared /\ Buddy /\ x \in InUse /\ InUse \subseteq Node
      /\ Free(x) /\ part[x].chunk >= Need /\ call = "allocate" /\ want.size \in Sizes[scheme]
      /\ scheme \in Esquemas /\ part \in [Node -> Part] /\ elements \in InUse
  BY <1>0, <1>1, ListFacts DEF CallFollows, ItemFollows, TypeOK
<1>3. Aligned(S) BY <1>1, <1>2, HalvesAlign
<1>4. x \in Node /\ part[x] \in Part BY <1>2
<1> DEFINE e == [part[x] EXCEPT !.size = want.size]
<1>5. /\ e.data = part[x].data /\ e.chunk = part[x].chunk /\ e.size = want.size /\ e.key = part[x].key
      /\ e.ocupado = part[x].ocupado
  BY <1>4 DEF Part
<1>6. part' = [part EXCEPT ![x] = e] BY <1>1, <1>2, <1>4
<1> HIDE DEF e
<1>7. \A n \in Node : /\ part'[n].data = part[n].data /\ part'[n].chunk = part[n].chunk
                      /\ part'[n].key = part[n].key /\ part'[n].ocupado = part[n].ocupado
                      /\ n # x => part'[n].size = part[n].size
                      /\ n = x => part'[n].size = want.size
  BY <1>2, <1>4, <1>5, <1>6
<1>8. SameLinks /\ \A n \in Node : Free(n)' <=> Free(n)
  BY <1>1, <1>7 DEF SameLinks, Free, estaReservado
<1>9. Snug(x)'
  <2>1. /\ want.size \in Nat \ {0} /\ Need \in Nat \ {0} /\ Need >= slab_min_size /\ want.size <= Need
        /\ slab_min_size \in Nat \ {0}
    BY <1>2, SizesAreNat, NeedIsNat, EngineAssumption
  <2>2. nodes # NULL
    <3>1. PICK rank, a, b : Split(elements, nodes, InUse, next, rank, a, b)
      BY <1>2, MemoryNow DEF Memory, Spanning, InUse
    <3>2. Shared(InUse, next, part) BY <1>2, MemoryNow DEF Memory, Spanning, InUse
    <3>3. b \in Nat \ {0} BY <3>1, <3>2, NodesAreEnough
    <3>4. nodes \in Node BY <3>1, <3>3, SplitFacts
    <3>5. QED BY <3>4, CantIsNat
  <2>3. PICK c \in Nat : c = part[x].chunk /\ c \in S /\ c >= Need BY <1>2, <1>3, PieceFacts
  <2>4. c \div 2 < Need BY <2>1, <2>2, <2>3, <1>0, <1>1 DEF Halves
  <2>5. CASE want.size > slab_min_size
    <3>1. Need = want.size BY <2>5 DEF Need
    <3>2. want.size <= c /\ want.size > c \div 2 BY <3>1, <2>1, <2>3, <2>4
    <3>3. QED BY <3>2, <2>3, <1>4, <1>7 DEF Snug
  <2>6. CASE ~(want.size > slab_min_size)
    <3>1. Need = slab_min_size BY <2>6 DEF Need
    <3>2. c = slab_min_size
      <4>1. SUFFICES ASSUME NEW h \in S, c = 2 * h PROVE FALSE BY <2>3 DEF SizesDivide
      <4>2. h \in Nat /\ h >= slab_min_size BY DEF SizesDivide
      <4>3. c \div 2 = h BY <4>1, <4>2
      <4>4. QED BY <4>2, <4>3, <3>1, <2>1, <2>4
    <3>3. want.size <= c BY <2>1, <2>3
    <3>4. QED BY <3>2, <3>3, <2>3, <1>4, <1>7 DEF Snug
  <2>7. QED BY <2>5, <2>6
<1>10. ASSUME Intact, Buddy, NEW n \in InUse
       PROVE  /\ ~Free(n)' \/ (pc' = "found" /\ it' = n) => Snug(n)'
              /\ Twins(n)' => AtHand(n)'
  <2>1. n \in Node /\ (~Free(n) => Snug(n)) /\ (Twins(n) => AtHand(n)) BY <1>2, <1>10 DEF HalvesInv
  <2>2. ASSUME ~Free(n)' \/ (pc' = "found" /\ it' = n) PROVE Snug(n)'
    <3>1. CASE n = x BY <3>1, <1>9
    <3>2. CASE n # x
      <4>1. ~Free(n) BY <3>2, <2>1, <2>2, <1>0, <1>1, <1>8
      <4>2. QED BY <4>1, <3>2, <2>1, <1>7 DEF Snug
    <3>3. QED BY <3>1, <3>2
  <2>3. ASSUME Twins(n)' PROVE AtHand(n)'
    <3>1. next[n] \in Node
      <4>1. next[n] \in Node \cup {NULL} BY <2>1, <1>2 DEF TypeOK
      <4>2. QED BY <4>1, <2>3, <1>1 DEF Twins, Touching
    <3>2. \A i \in {n, next[n]} : Free(i)' => Free(i) BY <3>1, <2>1, <1>8
    <3>3. AtHand(n) BY <3>2, <2>1, <2>3, <1>2, <1>8, TwinsWere
    <3>4. QED BY <3>3, <1>1 DEF AtHand
  <2>4. QED BY <2>2, <2>3
<1>11. QED BY <1>2, <1>8, <1>10, HalvesStay

\* the halves lie at multiples of half the size, the second one oddly
LEMMA HalveHalved == ASSUME IInv, NEW S, SizesDivide(S), HalvesInv(S), Halve PROVE HalvesInv(S)'
<1>0. PICK x, s, h : x = it /\ s = nodes /\ h = part[it].chunk \div 2 OBVIOUS
<1>1. /\ Intact /\ pc = "halve" /\ h >= Need /\ UNCHANGED <<pc, it, elements, scheme>>
  BY <1>0 DEF Halve, Halves, Running, schemeVars, callVars
<1>2. /\ TypeOK /\ TwoLines /\ Buddy /\ x \in InUse /\ InUse \subseteq Node /\ NULL \notin Node /\ FreeIsBlank
      /\ Free(x) /\ call = "allocate" /\ want.size \in Sizes[scheme] /\ scheme \in Esquemas /\ elements \in InUse
      /\ \A n \in InUse : next[n] = NULL \/ (next[n] \in InUse /\ next[n] # n)
      /\ \A i, j \in Node : next[i] = next[j] /\ next[i] # NULL => i = j
  BY <1>0, <1>1, ListFacts DEF CallFollows, ItemFollows, TypeOK
<1>3. Aligned(S) BY <1>1, <1>2, HalvesAlign
<1>4. Halved(x, s, h) BY <1>0, HalveSplits
<1>5. /\ s \in Node \ InUse /\ s # x /\ InUse' = InUse \cup {s}
      /\ \A k \in Node : /\ part'[k].size = part[k].size /\ part'[k].key = part[k].key
                         /\ part'[k].ocupado = part[k].ocupado
      /\ part'[x].data = part[x].data /\ part'[x].chunk = h
      /\ part'[s].data = part[x].data + h /\ part'[s].chunk = h
      /\ \A k \in Node \ {x, s} : part'[k] = part[k]
      /\ \A k \in InUse \cup {s} : next'[k] = IF k = s THEN next[x] ELSE IF k = x THEN s ELSE next[k]
  BY <1>2, <1>4 DEF Halved
<1>6. PICK c \in Nat, d \in Nat, m \in Nat :
        c = part[x].chunk /\ d = part[x].data /\ d = m * c /\ c \in S /\ slab_min_size <= c
  BY <1>2, <1>3, PieceFacts
<1>7. h \in S /\ h \in Nat \ {0} /\ c = 2 * h
  <2>1. /\ want.size \in Nat \ {0} /\ Need \in Nat \ {0} /\ Need >= slab_min_size /\ slab_min_size \in Nat \ {0}
    BY <1>2, SizesAreNat, NeedIsNat, EngineAssumption
  <2>2. h = c \div 2 BY <1>0, <1>6
  <2>3. c # slab_min_size BY <2>1, <2>2, <1>1
  <2>4. PICK b \in S : c = 2 * b BY <2>3, <1>6 DEF SizesDivide
  <2>5. b \in Nat /\ slab_min_size <= b BY DEF SizesDivide
  <2>6. h = b BY <2>2, <2>4, <2>5
  <2>7. QED BY <2>1, <2>4, <2>5, <2>6
<1>8. \A n \in Node : Free(n)' <=> Free(n) BY <1>5 DEF Free, estaReservado
<1>9. Free(s)
  <2>1. s \in Node /\ s \notin InUse BY <1>5
  <2>2. Blank(s) BY <2>1, <1>2 DEF FreeIsBlank
  <2>3. part[s].ocupado = FALSE /\ part[s].key = NoKey BY <2>2 DEF Blank, Empty
  <2>4. QED BY <2>3 DEF Free, estaReservado
<1>10. EndOf(s)' = d + c
  <2>1. EndOf(x) = d + c BY <1>2, <1>3, <1>6 DEF Aligned
  <2>2. next'[s] = next[x] BY <1>5
  <2>3. next[x] # NULL => part'[next[x]].data = part[next[x]].data
    <3>1. next[x] # NULL => next[x] \in Node \ {x, s} BY <1>2, <1>5
    <3>2. QED BY <3>1, <1>5
  <2>4. QED BY <2>1, <2>2, <2>3 DEF EndOf
<1>11. ASSUME NEW n \in InUse, n # x
       PROVE  /\ n \in Node /\ n # s /\ next'[n] = next[n] /\ part'[n] = part[n] /\ EndOf(n)' = EndOf(n)
              /\ next[n] # NULL => next[n] # s /\ next[n] \in Node
  <2>1. n \in Node /\ n # s /\ next'[n] = next[n] /\ part'[n] = part[n] BY <1>2, <1>5, <1>11
  <2>2. next[n] # NULL => next[n] \in InUse /\ next[n] # s /\ next[n] \in Node BY <1>2, <1>5
  <2>3. next[n] # NULL => part'[next[n]].data = part[next[n]].data
    <3>1. CASE next[n] = x BY <3>1, <1>5
    <3>2. CASE next[n] # x BY <3>2, <2>2, <1>5
    <3>3. QED BY <3>1, <3>2
  <2>4. EndOf(n)' = EndOf(n) BY <2>1, <2>3 DEF EndOf
  <2>5. QED BY <2>1, <2>2, <2>4
<1>12. ASSUME NEW n \in InUse'
       PROVE  /\ part'[n].data + part'[n].chunk = EndOf(n)' /\ Piece(n, S)'
              /\ ~Free(n)' \/ (pc' = "found" /\ it' = n) => Snug(n)'
              /\ Twins(n)' => AtHand(n)'
  <2>1. CASE n = x
    <3>1. EndOf(n)' = d + h BY <2>1, <1>2, <1>5, <1>6 DEF EndOf
    <3>2. d = (2 * m) * h /\ 2 * m \in Nat BY <1>6, <1>7
    <3>3. Piece(n, S)' BY <2>1, <3>2, <1>5, <1>6, <1>7 DEF Piece
    <3>4. Free(n)' BY <2>1, <1>2, <1>8
    <3>5. AtHand(n)' BY <2>1, <1>0, <1>1 DEF AtHand
    <3>6. QED BY <2>1, <3>1, <3>3, <3>4, <3>5, <1>1, <1>5, <1>6
  <2>2. CASE n = s
    <3>1. part'[n].data + part'[n].chunk = EndOf(n)'
      <4>1. part'[n].data = d + h /\ part'[n].chunk = h BY <2>2, <1>5, <1>6
      <4>2. EndOf(n)' = d + c BY <2>2, <1>10
      <4>3. (d + h) + h = d + c BY <1>6, <1>7
      <4>4. QED BY <4>1, <4>2, <4>3
    <3>2. d + h = (2 * m + 1) * h /\ 2 * m + 1 \in Nat BY <1>6, <1>7
    <3>3. Piece(n, S)' BY <2>2, <3>2, <1>5, <1>6, <1>7 DEF Piece
    <3>4. Free(n)' BY <2>2, <1>5, <1>8, <1>9
    <3>5. ASSUME Twins(n)' PROVE FALSE
      <4>1. PICK k \in Nat : d + h = k * (2 * h) BY <2>2, <3>5, <1>5, <1>6 DEF Twins
      <4>2. PICK e \in Nat : e = 2 * h /\ h < e BY <1>7
      <4>3. d = m * e BY <4>2, <1>6, <1>7
      <4>a. h \in Nat /\ h # 0 /\ e \in Nat \ {0} BY <4>2, <1>7
      <4>b. h < e BY <4>2
      <4>4. (m * e + h) % e = h BY ONLY <4>a, <4>b, m \in Nat
      <4>5. (k * e + 0) % e = 0 BY ONLY <4>a, k \in Nat
      <4>6. k * e \in Nat BY <4>2
      <4>7. m * e + h = k * e + 0 BY <4>1, <4>2, <4>3, <4>6
      <4>8. QED BY <4>4, <4>5, <4>7, <4>a
    <3>6. QED BY <3>1, <3>3, <3>4, <3>5, <1>1
  <2>3. CASE n # x /\ n # s
    <3>1. n \in InUse BY <2>3, <1>5
    <3>2. /\ part[n].data + part[n].chunk = EndOf(n) /\ Piece(n, S) /\ (~Free(n) => Snug(n))
          /\ Twins(n) => AtHand(n)
      BY <3>1, <1>1, <1>2 DEF HalvesInv
    <3>3. /\ n \in Node /\ next'[n] = next[n] /\ part'[n] = part[n] /\ EndOf(n)' = EndOf(n)
          /\ next[n] # NULL => next[n] # s /\ next[n] \in Node
      BY <3>1, <2>3, <1>11
    <3>4. part'[n].data + part'[n].chunk = EndOf(n)' /\ Piece(n, S)' BY <3>2, <3>3 DEF Piece
    <3>5. ~Free(n)' => Snug(n)' BY <3>2, <3>3, <1>8 DEF Snug
    <3>6. ASSUME Twins(n)', next[n] # x PROVE FALSE
      <4>1. PICK k : k = next[n] OBVIOUS
      <4>2. k # NULL /\ k \in Node /\ k # s /\ Free(n)' /\ Free(k)'
        BY <4>1, <3>3, <3>6 DEF Twins, Touching, Free, estaReservado
      <4>3. part'[k] = part[k] BY <4>1, <4>2, <3>6, <1>5
      <4>4. Free(n) /\ Free(k) BY <4>2, <3>3, <1>8
      <4>5. part[k].chunk = part[n].chunk /\ \E i \in Nat : part[n].data = i * (2 * part[n].chunk)
        BY <4>1, <4>3, <3>3, <3>6 DEF Twins
      <4>6. Twins(n) BY <4>1, <4>2, <4>4, <4>5 DEF Twins, Touching
      <4>7. QED BY <4>6, <3>2, <3>6, <2>3, <1>0, <1>1 DEF AtHand
    <3>7. next[n] = x => AtHand(n)' BY <3>3, <1>0, <1>1 DEF AtHand
    <3>8. QED BY <3>4, <3>5, <3>6, <3>7, <1>1
  <2>4. QED BY <2>1, <2>2, <2>3
<1>13. part'[elements'].data = 0
  <2>1. part[elements].data = 0 BY <1>3 DEF Aligned
  <2>2. CASE elements = x BY <2>1, <2>2, <1>1, <1>5
  <2>3. CASE elements # x BY <2>1, <2>3, <1>1, <1>2, <1>11
  <2>4. QED BY <2>2, <2>3
<1>14. QED BY <1>12, <1>13 DEF HalvesInv

\* two siblings are one piece of twice the size, which the memory has
LEMMA UniteHalved == ASSUME IInv, NEW S, SizesDivide(S), HalvesInv(S), Unite PROVE HalvesInv(S)'
<1>0. PICK x, h, s : x = it /\ h = Hno(it) /\ s = nodes OBVIOUS
<1>1. Intact /\ pc = "unite" /\ Unites(x, h) /\ UNCHANGED <<pc, it, scheme>>
  BY <1>0 DEF Unite, Running, callVars
<1>2. /\ TypeOK /\ TwoLines /\ RoomIsShared /\ Buddy /\ x \in InUse /\ InUse \subseteq Node /\ NULL \notin Node
      /\ Free(x) /\ elements \in InUse
      /\ \A n \in InUse : next[n] = NULL \/ (next[n] \in InUse /\ next[n] # n /\ next[n] # elements)
      /\ \A i, j \in Node : next[i] = next[j] /\ next[i] # NULL => i = j
  BY <1>0, <1>1, ListFacts DEF CallFollows, ItemFollows
<1>3. Aligned(S) BY <1>1, <1>2, HalvesAlign
<1>4. United(x, h, s) BY <1>0, UniteJoins
<1>5. /\ \A k \in Node : /\ part'[k].size = part[k].size /\ part'[k].key = part[k].key
                         /\ part'[k].ocupado = part[k].ocupado
      /\ part'[x].data = IF next[x] = h THEN part[x].data ELSE part[h].data
      /\ part'[x].chunk = part[x].chunk + part[h].chunk
      /\ \A k \in Node \ {x, h} : part'[k] = part[k]
      /\ h \in InUse /\ h # x /\ (next[x] = h \/ next[h] = x) /\ (esElPrimerHermano(x) <=> next[x] = h)
      /\ InUse' = InUse \ {h} /\ elements' = (IF elements = h THEN next[h] ELSE elements)
      /\ elements' \in InUse \ {h}
      /\ \A k \in Node \ {h} : next'[k] = IF next[k] = h THEN next[h] ELSE next[k]
  BY <1>4 DEF United
<1>6. /\ h \in Node /\ h # NULL /\ x \in Node /\ x # NULL /\ Free(h) /\ part[h].chunk = part[x].chunk
  BY <1>1, <1>2, <1>5 DEF Unites
<1>7. PICK c \in Nat \ {0}, d \in Nat, e \in Nat :
        /\ c = part[x].chunk /\ c = part[h].chunk /\ d = part[x].data /\ e = part[h].data /\ c \in S
  BY <1>2, <1>3, <1>5, <1>6, PieceFacts
<1>8. /\ next[x] = h => e = d + c
      /\ next[h] = x => d = e + c
      /\ EndOf(x) = d + c /\ EndOf(h) = e + c
  BY <1>2, <1>3, <1>5, <1>6, <1>7 DEF Aligned, EndOf
<1>9. next[x] = h <=> next[h] # x BY <1>5, <1>7, <1>8
<1>10. PICK g \in Nat : g = part'[x].data /\ g = (IF next[x] = h THEN d ELSE e) BY <1>5, <1>7
<1>11. \E m \in Nat : g = m * (2 * c)
  <2>1. CASE next[x] = h
    <3>1. Evenly(x) BY <2>1, <1>2, <1>3, <1>5, FirstLiesEvenly
    <3>2. QED BY <3>1, <2>1, <1>7, <1>10 DEF Evenly
  <2>2. CASE next[x] # h
    <3>1. ~Evenly(x) BY <2>2, <1>2, <1>3, <1>5, FirstLiesEvenly
    <3>2. PICK m \in Nat : d = m * (2 * c) + c BY <3>1, <1>2, <1>3, <1>7, FirstLiesEvenly
    <3>3. d = e + c /\ g = e BY <2>2, <1>8, <1>9, <1>10
    <3>4. PICK k \in Nat : k = m * (2 * c) BY <1>7
    <3>a. d = k + c BY <3>2, <3>4
    <3>5. g = k BY ONLY <3>a, <3>3, c \in Nat, k \in Nat, d \in Nat, e \in Nat
    <3>6. QED BY <3>4, <3>5
  <2>3. QED BY <2>1, <2>2
<1>12. 2 * c \in S
  <2>1. part[x].chunk + part[h].chunk \in 0..table_max_size BY <1>2, <1>5, <1>6, ChunksFit
  <2>2. c + c <= table_max_size /\ table_max_size \in Nat BY <2>1, <1>7, EngineAssumption
  <2>3. c # table_max_size BY <2>2, <1>7
  <2>4. QED BY <2>3, <1>7 DEF SizesDivide
<1>13. part'[x].chunk = 2 * c BY <1>5, <1>7
<1>14. \A n \in Node : Free(n)' <=> Free(n) BY <1>5 DEF Free, estaReservado
<1>15. ASSUME NEW n \in InUse, n # x, n # h
       PROVE  /\ n \in Node /\ part'[n] = part[n] /\ EndOf(n)' = EndOf(n)
              /\ next'[n] = x \/ (next'[n] = next[n] /\ next[n] # h /\ next[n] # x)
  <2>1. n \in Node /\ part'[n] = part[n] BY <1>2, <1>5, <1>15
  <2>2. CASE next[n] = h
    <3>1. next[x] # h BY <2>2, <2>1, <1>2, <1>6, <1>15
    <3>2. next'[n] = x BY <3>1, <2>1, <2>2, <1>5, <1>9, <1>15
    <3>3. part'[x].data = e BY <3>1, <1>10
    <3>4. EndOf(n)' = e BY <3>2, <3>3, <1>6 DEF EndOf
    <3>5. EndOf(n) = e BY <2>2, <1>6, <1>7 DEF EndOf
    <3>6. QED BY <2>1, <3>2, <3>4, <3>5
  <2>3. CASE next[n] # h
    <3>1. next'[n] = next[n] BY <2>1, <2>3, <1>5, <1>15
    <3>2. CASE next[n] = x
      <4>1. next[h] # x BY <3>2, <2>1, <1>2, <1>6, <1>15
      <4>2. part'[x].data = d BY <4>1, <1>9, <1>10
      <4>3. EndOf(n)' = d BY <3>1, <3>2, <4>2, <1>6 DEF EndOf
      <4>4. EndOf(n) = d BY <3>2, <1>6, <1>7 DEF EndOf
      <4>5. QED BY <2>1, <3>1, <3>2, <4>3, <4>4
    <3>3. CASE next[n] # x
      <4>1. next[n] = NULL \/ next[n] \in Node \ {x, h} BY <3>3, <2>3, <1>2
      <4>2. next[n] # NULL => part'[next[n]] = part[next[n]] BY <4>1, <1>5
      <4>3. EndOf(n)' = EndOf(n) BY <3>1, <4>2 DEF EndOf
      <4>4. QED BY <2>1, <2>3, <3>1, <3>3, <4>3
    <3>4. QED BY <3>2, <3>3
  <2>4. QED BY <2>2, <2>3
<1>16. part'[x].data + part'[x].chunk = EndOf(x)'
  <2>1. CASE next[x] = h
    <3>1. next'[x] = next[h] /\ next[h] # x BY <2>1, <1>5, <1>6, <1>9
    <3>2. next[h] = NULL \/ next[h] \in Node \ {x, h} BY <3>1, <1>2, <1>5
    <3>3. next[h] # NULL => part'[next[h]] = part[next[h]] BY <3>2, <1>5
    <3>4. EndOf(x)' = EndOf(h) BY <3>1, <3>3 DEF EndOf
    <3>5. QED BY <2>1, <3>4, <1>7, <1>8, <1>10, <1>13
  <2>2. CASE next[x] # h
    <3>1. next'[x] = next[x] BY <2>2, <1>5, <1>6
    <3>2. next[x] = NULL \/ next[x] \in Node \ {x, h} BY <2>2, <1>2
    <3>3. next[x] # NULL => part'[next[x]] = part[next[x]] BY <3>2, <1>5
    <3>4. EndOf(x)' = EndOf(x) BY <3>1, <3>3 DEF EndOf
    <3>5. QED BY <2>2, <3>4, <1>7, <1>8, <1>9, <1>10, <1>13
  <2>3. QED BY <2>1, <2>2
<1>17. ASSUME NEW n \in InUse'
       PROVE  /\ part'[n].data + part'[n].chunk = EndOf(n)' /\ Piece(n, S)'
              /\ ~Free(n)' \/ (pc' = "found" /\ it' = n) => Snug(n)'
              /\ Twins(n)' => AtHand(n)'
  <2>1. CASE n = x
    <3>1. Piece(n, S)' BY <2>1, <1>10, <1>11, <1>12, <1>13 DEF Piece
    <3>2. Free(n)' BY <2>1, <1>2, <1>6, <1>14
    <3>3. AtHand(n)' BY <2>1, <1>0, <1>1 DEF AtHand
    <3>4. QED BY <2>1, <3>1, <3>2, <3>3, <1>1, <1>16
  <2>2. CASE n # x
    <3>1. n \in InUse /\ n # h BY <1>5
    <3>2. /\ part[n].data + part[n].chunk = EndOf(n) /\ Piece(n, S) /\ (~Free(n) => Snug(n))
          /\ Twins(n) => AtHand(n)
      BY <3>1, <1>1, <1>2 DEF HalvesInv
    <3>3. /\ n \in Node /\ part'[n] = part[n] /\ EndOf(n)' = EndOf(n)
          /\ next'[n] = x \/ (next'[n] = next[n] /\ next[n] # h /\ next[n] # x)
      BY <3>1, <2>2, <1>15
    <3>4. part'[n].data + part'[n].chunk = EndOf(n)' /\ Piece(n, S)' BY <3>2, <3>3 DEF Piece
    <3>5. ~Free(n)' => Snug(n)' BY <3>2, <3>3, <1>14 DEF Snug
    <3>6. ASSUME Twins(n)', next'[n] # x PROVE FALSE
      <4>1. PICK k : k = next[n] OBVIOUS
      <4>2. next'[n] = k /\ k # h /\ k # x BY <4>1, <3>3, <3>6
      <4>3. k # NULL /\ Free(n)' /\ Free(k)'
        BY <4>2, <3>6 DEF Twins, Touching, Free, estaReservado
      <4>4. k \in Node BY <4>1, <4>3, <3>1, <1>2
      <4>5. part'[k] = part[k] BY <4>2, <4>4, <1>5
      <4>6. Free(n) /\ Free(k) BY <4>3, <4>4, <3>3, <1>14
      <4>7. part[k].chunk = part[n].chunk /\ \E i \in Nat : part[n].data = i * (2 * part[n].chunk)
        BY <4>2, <4>5, <3>3, <3>6 DEF Twins
      <4>8. Twins(n) BY <4>1, <4>3, <4>6, <4>7 DEF Twins, Touching
      <4>9. QED BY <4>1, <4>2, <4>8, <3>2, <2>2, <1>0, <1>1 DEF AtHand
    <3>7. next'[n] = x => AtHand(n)' BY <1>0, <1>1 DEF AtHand
    <3>8. QED BY <3>4, <3>5, <3>6, <3>7, <1>1
  <2>3. QED BY <2>1, <2>2
<1>18. part'[elements'].data = 0
  <2>1. part[elements].data = 0 BY <1>3 DEF Aligned
  <2>2. CASE elements = h
    <3>1. elements' = x /\ next[x] # h BY <2>2, <1>2, <1>5, <1>6, <1>9
    <3>2. QED BY <2>1, <2>2, <3>1, <1>7, <1>10
  <2>3. CASE elements # h /\ elements = x
    <3>1. next[h] # x BY <2>3, <1>2, <1>5, <1>6
    <3>2. QED BY <2>1, <2>3, <3>1, <1>5, <1>7, <1>9, <1>10
  <2>4. CASE elements # h /\ elements # x BY <2>1, <2>4, <1>2, <1>5
  <2>5. QED BY <2>2, <2>3, <2>4
<1>19. QED BY <1>17, <1>18 DEF HalvesInv

-----------------------------------------------------------------------------
(* The buddy system keeps to its sizes and unites its free siblings *)

LEMMA StartsHalved == ASSUME Init, NEW S, SizesDivide(S) PROVE HalvesInv(S)
<1> SUFFICES ASSUME Intact, Buddy
             PROVE  /\ part[elements].data = 0
                    /\ \A n \in InUse :
                         /\ part[n].data + part[n].chunk = EndOf(n) /\ Piece(n, S)
                         /\ ~Free(n) \/ (pc = "found" /\ it = n) => Snug(n)
                         /\ Twins(n) => AtHand(n)
  BY DEF HalvesInv
<1>1. /\ slab_min_size \in Nat \ {0} /\ table_max_size \in Nat /\ table_max_size >= slab_min_size
      /\ Cant \in Nat \ {0} /\ Node = 0..Cant
  BY EngineAssumption, CantIsNat
<1>2. PICK k \in {NoKey, Garbage} :
        /\ part = [n \in Node |-> IF n = 0 THEN [Empty(0, table_max_size) EXCEPT !.key = k] ELSE Empty(0, 0)]
        /\ damage = IF k = NoKey THEN {} ELSE {"first key not empty"}
  BY DEF Init
<1>3. elements = 0 /\ pc = "idle" /\ next = [n \in Node |-> IF n \in {0, Cant} THEN NULL ELSE n + 1] BY DEF Init
<1>4. k = NoKey BY <1>2 DEF Intact
<1>5. 0 \in Node /\ next[0] = NULL BY <1>1, <1>3
<1>6. /\ part[0].data = 0 /\ part[0].chunk = table_max_size /\ part[0].ocupado = FALSE /\ part[0].key = NoKey
  BY <1>2, <1>4, <1>5 DEF Empty
<1>7. \A n \in InUse : n = 0
  <2>1. ASSUME NEW n \in Node, n # 0 PROVE part[n].chunk = 0 BY <2>1, <1>2 DEF Empty
  <2>2. QED BY <2>1, <1>1 DEF InUse
<1>8. part[0].data + part[0].chunk = EndOf(0) BY <1>1, <1>5, <1>6 DEF EndOf
<1>9. Piece(0, S)
  <2>1. 0 = 0 * table_max_size BY <1>1
  <2>2. QED BY <2>1, <1>6 DEF Piece, SizesDivide
<1>10. Free(0) /\ ~Twins(0) BY <1>5, <1>6 DEF Free, estaReservado, Twins, Touching
<1>11. QED BY <1>3, <1>6, <1>7, <1>8, <1>9, <1>10

\* the dynamic scheme has nothing to do with it, and a half that it merged is damage
LEMMA DynamicStepHalved ==
  ASSUME IInv, NEW S, MergeBack \/ MergeForward \/ Fit \/ Consolidate \/ Shift \/ CompactDone
  PROVE  HalvesInv(S)'
<1>1. Intact /\ UNCHANGED scheme
  BY DEF MergeBack, MergeForward, Fit, Consolidate, Shift, CompactDone, Running, schemeVars, memVars
<1>2. CASE MergeBack \/ MergeForward
  <2>1. damage' # {} \/ ~Buddy BY <1>2 DEF MergeBack, MergeForward, Foreign
  <2>2. QED BY <2>1, <1>1 DEF HalvesInv, Intact, Buddy
<1>3. CASE Fit \/ Consolidate \/ Shift \/ CompactDone
  <2>1. pc \in {"find", "compact", "shift"} BY <1>3 DEF Fit, Consolidate, Shift, CompactDone, Running
  <2>2. ~Buddy BY <2>1, <1>1, ListFacts DEF CallFollows
  <2>3. QED BY <2>2, <1>1 DEF HalvesInv, Buddy
<1>4. QED BY <1>2, <1>3

LEMMA StepHalved ==
  ASSUME IInv, NEW S, SizesDivide(S), HalvesInv(S), [Next]_vars PROVE HalvesInv(S)'
<1>0. TypeOK BY DEF IInv
<1>1. ASSUME NEW c \in Conn, ConnStep(c) PROVE HalvesInv(S)' BY <1>0, <1>1, ConnQuiet, QuietlyHalved
<1>2. CASE EngineStep BY <1>2, <1>0, CallQuiet, QuietlyHalved, AllocateFoundHalved DEF EngineStep
<1>3. CASE DynamicStep
  BY <1>3, <1>0, CallQuiet, QuietlyHalved, ClearHalved, BackDoneHalved, ForwardDoneHalved, DynamicStepHalved
     DEF DynamicStep
<1>4. CASE BuddyStep
  BY <1>4, <1>0, CallQuiet, QuietlyHalved, ClearHalved, UniteHalved, UniteDoneHalved, HalveHalved,
     BuddyFitHalved
     DEF BuddyStep
<1>5. CASE UNCHANGED vars
  <2>1. UNCHANGED <<part, next, prev, schemeVars, damage, pc, it>> BY <1>5 DEF vars, memVars, callVars
  <2>2. QED BY <1>0, <2>1, MemoryQuiet, QuietlyHalved
<1>6. CASE Over BY <1>5, <1>6 DEF Over
<1>7. QED BY <1>1, <1>2, <1>3, <1>4, <1>5, <1>6 DEF Next, CallStep

\* the address of a piece counts the pieces of its size before it, as the code does
LEMMA PiecesAlign ==
  ASSUME IInv, NEW S, SizesDivide(S), HalvesInv(S) PROVE BuddiesAligned
<1> SUFFICES ASSUME Buddy, Intact, NEW n \in Listed
             PROVE  /\ part[n].data % part[n].chunk = 0 /\ table_max_size % part[n].chunk = 0
                    /\ esElPrimerHermano(n) <=> (part[n].data \div part[n].chunk) % 2 = 0
                    /\ ~Free(n) => /\ part[n].size <= part[n].chunk
                                   /\ part[n].chunk = slab_min_size \/ part[n].size > part[n].chunk \div 2
  BY DEF BuddiesAligned
<1>1. TypeOK /\ TwoLines /\ n \in InUse BY ListFacts, ListedAreInUse
<1>2. Aligned(S) BY HalvesAlign
<1>3. PICK c \in Nat \ {0} : c = part[n].chunk /\ c \in S BY <1>1, <1>2, PieceFacts
<1>4. PICK q \in Nat : part[n].data = q * c /\ (esElPrimerHermano(n) <=> q % 2 = 0)
  BY <1>1, <1>2, <1>3, SiblingIsNext
<1>5. (q * c + 0) % c = 0 /\ (q * c + 0) \div c = q BY ONLY c \in Nat \ {0}, q \in Nat
<1>6. part[n].data % c = 0 /\ part[n].data \div c = q
  <2>1. q * c \in Nat OBVIOUS
  <2>2. PICK z \in Nat : z = q * c BY <2>1
  <2>3. z + 0 = z BY <2>2
  <2>4. QED BY <2>2, <2>3, <1>4, <1>5
<1>7. table_max_size % c = 0
  <2>1. PICK t \in Nat : table_max_size = t * c
    <3>1. table_max_size \in S /\ c <= table_max_size BY <1>3 DEF SizesDivide
    <3>2. QED BY <3>1, <1>3 DEF SizesDivide
  <2>2. (t * c + 0) % c = 0 BY ONLY c \in Nat \ {0}, t \in Nat
  <2>3. PICK z \in Nat : z = t * c BY <2>1, EngineAssumption
  <2>4. z + 0 = z BY <2>3
  <2>5. QED BY <2>1, <2>2, <2>3, <2>4
<1>8. ~Free(n) => Snug(n) BY <1>1 DEF HalvesInv
<1>9. QED BY <1>3, <1>4, <1>6, <1>7, <1>8 DEF Snug

\* the sibling that the code finds is the other half, and nothing is at hand
LEMMA HalvesUnite ==
  ASSUME IInv, NEW S, SizesDivide(S), HalvesInv(S) PROVE SiblingsUnited
<1> SUFFICES ASSUME Buddy, Intact, owner = NoConn, NEW n \in Listed, NEW h, h = Hno(n),
                    Free(n), h # NULL, Free(h), part[h].chunk = part[n].chunk
             PROVE  FALSE
  BY DEF SiblingsUnited
<1>1. /\ TypeOK /\ TwoLines /\ LinksBack /\ CallFollows /\ n \in InUse /\ InUse \subseteq Node
      /\ NULL \notin Node
  BY ListFacts, ListedAreInUse
<1>2. Aligned(S) BY HalvesAlign
<1>3. \A m \in InUse : ~Twins(m)
  <2>1. pc = "idle" BY <1>1 DEF CallFollows
  <2>2. QED BY <2>1 DEF HalvesInv, AtHand
<1>4. CASE esElPrimerHermano(n)
  <2>1. h = next[n] BY <1>4 DEF Hno
  <2>2. Evenly(n) BY <1>1, <1>2, <1>4, FirstLiesEvenly
  <2>3. Twins(n) BY <2>1, <2>2 DEF Twins, Touching, Evenly
  <2>4. QED BY <2>3, <1>1, <1>3
<1>5. CASE ~esElPrimerHermano(n)
  <2>1. h = prev[n] BY <1>5 DEF Hno
  <2>2. h \in InUse /\ next[h] = n BY <2>1, <1>1 DEF LinksBack
  <2>3. PICK m \in Nat : part[n].data = m * (2 * part[n].chunk) + part[n].chunk
    BY <1>1, <1>2, <1>5, FirstLiesEvenly
  <2>4. n # NULL BY <1>1
  <2>5. part[h].data = m * (2 * part[n].chunk) BY <2>2, <2>3, <2>4, <1>1, <1>2, SiblingBefore
  <2>6. \E i \in Nat : part[h].data = i * (2 * part[h].chunk) BY <2>5
  <2>7. Twins(h) BY <2>2, <2>4, <2>6 DEF Twins, Touching
  <2>8. QED BY <2>2, <2>7, <1>3
<1>6. QED BY <1>4, <1>5

\* In a memory of a power of two slabs, every partition of the buddy system is one of the
\* halves of halves of the memory at a multiple of its size, an item takes more than half of
\* its partition unless that is a slab, and the neighbour that es_el_primer_hermano counts to
\* be the sibling is the one at the address next to it (diccionario_buddy.c).
THEOREM BuddiesAreHalvesOfHalves == ASSUME PowerOfTwo PROVE Spec => []BuddiesAligned
<1>0. PICK k \in Nat : \E f \in [0..k -> Nat] : Doubling(f, k) BY DEF PowerOfTwo
<1>1. PICK f \in [0..k -> Nat] : Doubling(f, k) BY <1>0
<1> DEFINE S == {f[i] : i \in 0..k}
<1>2. SizesDivide(S) BY <1>1, DoublesDivide
<1> HIDE DEF S
<1>3. Init => IInv /\ HalvesInv(S) BY <1>2, Starts, StartsHalved
<1>4. (IInv /\ HalvesInv(S)) /\ [Next]_vars => (IInv /\ HalvesInv(S))' BY <1>2, StepKeeps, StepHalved
<1>5. IInv /\ HalvesInv(S) => BuddiesAligned BY <1>2, PiecesAlign
<1>6. QED BY <1>3, <1>4, <1>5, PTL DEF Spec

\* ... and between two calls no free memory lies in pieces that the configured scheme would
\* have put together: neighbours of the dynamic partitions, siblings of the buddy system
\* (diccionario_eliminar, diccionario_eliminar_buddy).
THEOREM FreeMemoryIsPutTogether == ASSUME PowerOfTwo PROVE Spec => []FreeMemoryIsUnited
<1>0. PICK k \in Nat : \E f \in [0..k -> Nat] : Doubling(f, k) BY DEF PowerOfTwo
<1>1. PICK f \in [0..k -> Nat] : Doubling(f, k) BY <1>0
<1> DEFINE S == {f[i] : i \in 0..k}
<1>2. SizesDivide(S) BY <1>1, DoublesDivide
<1> HIDE DEF S
<1>3. Init => IInv /\ HalvesInv(S) BY <1>2, Starts, StartsHalved
<1>4. (IInv /\ HalvesInv(S)) /\ [Next]_vars => (IInv /\ HalvesInv(S))' BY <1>2, StepKeeps, StepHalved
<1>5. IInv /\ HalvesInv(S) => SiblingsUnited BY <1>2, HalvesUnite
<1>6. FreeAreApart /\ SiblingsUnited => FreeMemoryIsUnited BY DEF FreeMemoryIsUnited
<1>7. QED BY <1>3, <1>4, <1>5, <1>6, FreePartitionsAreApart, PTL DEF Spec
=============================================================================
