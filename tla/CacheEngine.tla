---------------------------- MODULE CacheEngine ----------------------------
(***************************************************************************)
(* The remote cache: an engine that memcached loads, whose callbacks keep  *)
(* the stored items in one doubly linked list of partitions of the memory  *)
(* (cansic_engine.c, diccionario.c).  The callbacks run for several        *)
(* connections; one rwlock guards the list, but store, get_item_info and   *)
(* the test in release do not take it.  The configuration names the scheme *)
(* that manages the memory: a module that extends this one does the steps  *)
(* from the labels Eliminar and ObtenerDireccion on.                       *)
(***************************************************************************)
EXTENDS Integers, FiniteSets

CONSTANTS
  Conn,             \* connections of memcached
  Key, NoKey,
  Garbage,          \* what malloc may leave in the first element's key
  Sizes,            \* data sizes that clients store, under each scheme
  table_max_size, slab_min_size,
  bestfit,          \* best fit, else first fit
  lru,              \* reads renew an item's hour
  frecuenciaCompactacion,
  Esquemas,         \* schemes that the configuration may name
  NoConn

ASSUME EngineAssumption ==
  /\ IsFiniteSet(Conn) /\ NoConn \notin Conn
  /\ NoKey \notin Key /\ Garbage \notin Key \cup {NoKey}
  /\ slab_min_size \in Nat \ {0} /\ table_max_size \in Nat
  /\ table_max_size >= slab_min_size
  /\ Sizes \in [Esquemas -> SUBSET (Nat \ {0})]
  /\ Esquemas \subseteq {"ParticionesDinamicas", "BuddySystem"}
  /\ bestfit \in BOOLEAN /\ frecuenciaCompactacion \in Int

AllSizes == (UNION {Sizes[e] : e \in Esquemas}) \cup {0}
NULL == -1
Cant == table_max_size \div slab_min_size        \* cant_max_el
Node == 0..Cant   \* elements, nodes[0..cant - 2], and the element past them that the last one links

VARIABLES
  part,     \* the fields of a t_dict_element other than its links
  next, prev,
  elements, \* first of the partitions
  nodes,    \* first of the spare nodes
  current,  \* table_current_size
  tries,    \* compactarMemoria
  scheme,   \* which of Esquemas the engine was initialised with
  owner,    \* the connection whose callback owns the lock for writing
  pc, call, \* where that callback is, and which it is
  it, want, \* its item, and the key and size it allocates for
  stage,    \* what memcached is doing for each connection
  item,     \* ... and the item it holds for it
  crashed,  \* NULL dereferenced
  damage    \* history: what has gone wrong with the list

schemeVars == <<scheme, elements>>      \* only the buddy system moves the first partition
memVars  == <<part, next, prev, schemeVars, nodes, current, tries>>
callVars == <<owner, pc, call, it, want>>
connVars == <<stage, item>>
vars     == <<memVars, callVars, connVars, crashed, damage>>

Calls  == {"none", "allocate", "release", "delete", "flush"}
Labels == {"idle", "remove", "back", "forward", "removed", "find", "compact", "shift",
           "found", "toobig", "flush", "remove buddy", "unite", "find buddy", "halve"}
Stages == {"idle", "calling", "held", "stored", "reading", "releasing"}
Damages == {"first key not empty", "stale link followed", "reserved node merged", "spare node removed",
            "buddy merged as a neighbour"}
Wanted == [key : Key \cup {NoKey}, size : AllSizes]
Part   == [data : 0..table_max_size, chunk : 0..table_max_size, size : AllSizes,
           key : Key \cup {NoKey, Garbage}, ocupado : BOOLEAN, dated : BOOLEAN]

TypeOK ==
  /\ part \in [Node -> Part]
  /\ next \in [Node -> Node \cup {NULL}] /\ prev \in [Node -> Node \cup {NULL}]
  /\ elements \in Node /\ nodes \in Node \cup {NULL} /\ scheme \in Esquemas
  /\ current \in Int /\ tries \in Int
  /\ owner \in Conn \cup {NoConn}
  /\ pc \in Labels /\ call \in Calls /\ it \in Node \cup {NULL} /\ want \in Wanted
  /\ stage \in [Conn -> Stages] /\ item \in [Conn -> Node \cup {NULL}]
  /\ crashed \in BOOLEAN /\ damage \subseteq Damages

Empty(data, chunk) ==
  [data |-> data, chunk |-> chunk, size |-> 0, key |-> NoKey, ocupado |-> FALSE, dated |-> FALSE]
NoWant == [key |-> NoKey, size |-> 0]

\* inicializarElementos: one free partition, whose key nobody cleared; the other nodes spare
Init ==
  /\ \E k \in {NoKey, Garbage} :
       /\ part = [n \in Node |->
            IF n = 0 THEN [Empty(0, table_max_size) EXCEPT !.key = k] ELSE Empty(0, 0)]
       /\ damage = IF k = NoKey THEN {} ELSE {"first key not empty"}
  /\ next = [n \in Node |-> IF n \in {0, Cant} THEN NULL ELSE n + 1]
  /\ prev = [n \in Node |-> IF n \in {0, 1} THEN NULL ELSE n - 1]
  /\ elements = 0 /\ nodes = 1 /\ scheme \in Esquemas
  /\ current = 0 /\ tries = 0
  /\ owner = NoConn /\ pc = "idle" /\ call = "none" /\ it = NULL /\ want = NoWant
  /\ stage = [c \in Conn |-> "idle"] /\ item = [c \in Conn |-> NULL]
  /\ crashed = FALSE

-----------------------------------------------------------------------------
(* The list (diccionario.c) *)

\* the i-th partition of the list, NULL past its end
At[i \in 0..Cant + 1] ==
  IF i = 0 THEN elements ELSE IF At[i - 1] = NULL THEN NULL ELSE next[At[i - 1]]
Listed == {At[i] : i \in 0..Cant} \ {NULL}
Ends   == At[Cant + 1] = NULL   \* a walk along the links ends
First(S) == At[CHOOSE i \in 0..Cant : At[i] \in S /\ \A j \in 0..i - 1 : At[j] \notin S]

estaReservado(n) == ~part[n].ocupado /\ part[n].key # NoKey
Free(n) == ~part[n].ocupado /\ ~estaReservado(n)

\* diccionario_obtener
With(k) == {n \in Listed : part[n].key = k /\ k \in Key}
obtener(k) == IF With(k) = {} THEN NULL ELSE First(With(k))

\* diccionario_elegirVictima takes the one with the oldest hour among the nodes that have
\* one; hours are not kept here: under LRU, reads make any of them the oldest, and under FIFO
\* any choice is more than the code's
Victims == {n \in Listed : part[n].dated}

Intact == damage = {}
\* bound: what a damaged list leads to is not followed
Ready(c, s) == ~crashed /\ Intact /\ stage[c] = s

\* pthread_rwlock_wrlock by connection c, then on at label l
Enter(c, f, l, n, w) ==
  /\ owner = NoConn /\ owner' = c
  /\ pc' = l /\ call' = f /\ it' = n /\ want' = w
  /\ stage' = [stage EXCEPT ![c] = "calling"]

\* unlock; the connection goes on to stage s with item n
Leave(s, n) ==
  /\ owner' = NoConn /\ pc' = "idle" /\ call' = "none" /\ it' = NULL /\ want' = NoWant
  /\ stage' = [stage EXCEPT ![owner] = s] /\ item' = [item EXCEPT ![owner] = n]

Need == IF want.size > slab_min_size THEN want.size ELSE slab_min_size
Fitting == {n \in Listed : Free(n) /\ part[n].chunk >= Need}

\* the first that fits, or the first of the smallest that fit
Chosen ==
  IF bestfit THEN First({n \in Fitting : \A m \in Fitting : part[n].chunk <= part[m].chunk})
             ELSE First(Fitting)

\* node m, unlinked, becomes the first spare node; p is prev before this
Spare(m, p) == [n \in Node |-> IF n = nodes THEN m ELSE IF n = m THEN NULL ELSE p[n]]
\* n's prev becomes m, if there is an n
Relink(n, m, p) == IF n = NULL THEN p ELSE [p EXCEPT ![n] = m]

\* the owner of the lock is at label l (bound: as for Ready)
Running(l) == ~crashed /\ Intact /\ pc = l

-----------------------------------------------------------------------------
(* Callbacks (cansic_engine.c) *)

Buddy == scheme = "BuddySystem"
\* f_eliminar and f_obtenerDireccion
Eliminar         == IF Buddy THEN "remove buddy" ELSE "remove"
ObtenerDireccion == IF Buddy THEN "find buddy" ELSE "find"

\* (mutant) a second item for a key that has one
AllocateTwice(c, k, n) ==
  /\ Ready(c, "idle")
  /\ Enter(c, "allocate", ObtenerDireccion, NULL, [key |-> k, size |-> n])
  /\ UNCHANGED <<memVars, item, crashed, damage>>

\* allocate: a stored item with the key goes first
Allocate(c, k, n) ==
  LET x == obtener(k) IN
  /\ Ready(c, "idle")
  /\ IF x # NULL /\ part[x].ocupado
       THEN Enter(c, "allocate", Eliminar, x, [key |-> k, size |-> n])
       ELSE Enter(c, "allocate", ObtenerDireccion, NULL, [key |-> k, size |-> n])
  /\ UNCHANGED <<memVars, item, crashed, damage>>

\* (mutant) the partition found gets no key
AllocateUnnamed ==
  /\ Running("found")
  /\ Leave("held", it)
  /\ UNCHANGED <<memVars, crashed, damage>>

\* ... the partition found is reserved by its key
AllocateFound ==
  /\ Running("found")
  /\ part' = [part EXCEPT ![it].key = want.key]
  /\ Leave("held", it)
  /\ UNCHANGED <<next, prev, schemeVars, nodes, current, tries, crashed, damage>>

\* ... ENGINE_E2BIG
AllocateTooBig ==
  /\ Running("toobig")
  /\ Leave("idle", NULL)
  /\ UNCHANGED <<memVars, crashed, damage>>

\* store, without the lock: looks the key up again; ENGINE_KEY_ENOENT without it
Store(c) ==
  LET x == obtener(part[item[c]].key) IN
  /\ Ready(c, "held")
  /\ part' = IF x = NULL THEN part ELSE [part EXCEPT ![x].ocupado = TRUE, ![x].dated = TRUE]
  /\ stage' = [stage EXCEPT ![c] = "stored"]
  /\ UNCHANGED <<next, prev, schemeVars, nodes, current, tries, callVars, item, crashed, damage>>

\* item_release tests the item without the lock (the body was stored, was bad, or was read)
ReleaseTest(c) ==
  /\ \E s \in {"held", "stored", "reading"} : Ready(c, s)
  /\ IF part[item[c]].ocupado
       THEN stage' = [stage EXCEPT ![c] = "idle"] /\ item' = [item EXCEPT ![c] = NULL]
       ELSE stage' = [stage EXCEPT ![c] = "releasing"] /\ UNCHANGED item
  /\ UNCHANGED <<memVars, callVars, crashed, damage>>

\* ... and removes one that is not stored, as the dynamic partitions do under any scheme
Release(c) ==
  /\ Ready(c, "releasing")
  /\ Enter(c, "release", "remove", item[c], NoWant)
  /\ UNCHANGED <<memVars, item, crashed, damage>>

\* get, under the lock for reading
Get(c, k) ==
  LET x == obtener(k) IN
  /\ Ready(c, "idle") /\ owner = NoConn
  /\ x # NULL /\ part[x].ocupado
  /\ part' = IF lru THEN [part EXCEPT ![x].dated = TRUE] ELSE part
  /\ stage' = [stage EXCEPT ![c] = "reading"] /\ item' = [item EXCEPT ![c] = x]
  /\ UNCHANGED <<next, prev, schemeVars, nodes, current, tries, callVars, crashed, damage>>

\* item_delete
Delete(c, k) ==
  /\ Ready(c, "idle") /\ obtener(k) # NULL
  /\ Enter(c, "delete", Eliminar, obtener(k), NoWant)
  /\ UNCHANGED <<memVars, item, crashed, damage>>

\* flush: diccionario_limpiar
Flush(c) ==
  /\ Ready(c, "idle")
  /\ Enter(c, "flush", "flush", elements, NoWant)
  /\ UNCHANGED <<memVars, item, crashed, damage>>

\* ... removes the items that have a key, one after another
FlushNext ==
  /\ Running("flush")
  /\ \/ it = NULL /\ Leave("idle", NULL)
     \/ it # NULL /\ part[it].key \in Key /\ pc' = Eliminar
        /\ UNCHANGED <<owner, call, it, want, connVars>>
     \/ it # NULL /\ part[it].key \notin Key /\ it' = next[it]
        /\ UNCHANGED <<owner, pc, call, want, connVars>>
  /\ UNCHANGED <<memVars, crashed, damage>>

\* the item is removed: a release or a delete is over, a flush goes to the next item, an
\* allocation looks for room again
Removed ==
  /\ Running("removed")
  /\ \/ call \in {"release", "delete"} /\ Leave("idle", NULL)
     \/ call = "flush" /\ it' = next[it] /\ pc' = "flush"
        /\ UNCHANGED <<owner, call, want, connVars>>
     \/ call = "allocate" /\ pc' = ObtenerDireccion /\ it' = NULL
        /\ UNCHANGED <<owner, call, want, connVars>>
  /\ UNCHANGED <<memVars, crashed, damage>>

ConnStep(c) ==
  \/ Store(c) \/ ReleaseTest(c) \/ Release(c) \/ Flush(c)
  \/ \E k \in Key : Get(c, k) \/ Delete(c, k) \/ \E n \in Sizes[scheme] : Allocate(c, k, n)

EngineStep == AllocateFound \/ AllocateTooBig \/ FlushNext \/ Removed

-----------------------------------------------------------------------------
(* Properties *)

\* The free nodes, from the first on.
SpareAt[i \in 0..Cant + 1] ==
  IF i = 0 THEN nodes ELSE IF SpareAt[i - 1] = NULL THEN NULL ELSE next[SpareAt[i - 1]]
Spares == {SpareAt[i] : i \in 0..Cant} \ {NULL}

\* While the links are right, partitions follow one another from the first byte of the
\* memory to the last.
Tiles ==
  Intact =>
    /\ Ends /\ part[elements].data = 0
    /\ \A n \in Listed :
         LET end == part[n].data + part[n].chunk IN
         /\ part[n].chunk >= slab_min_size
         /\ IF next[n] = NULL THEN end = table_max_size ELSE end = part[next[n]].data

\* Every node is in the list or among the spare ones, never in both, and the node past the
\* end of the array is never needed.
NodesConserved ==
  Intact =>
    /\ Listed \cup Spares = Node /\ Listed \cap Spares = {} /\ Cant \in Spares
    /\ \A n \in Spares : part[n] = Empty(part[n].data, 0)

\* The size of the table is that of its items (spare nodes have none: NodesConserved).
Total(g) ==
  LET sum[i \in 0..Cant + 1] == IF i = 0 THEN 0 ELSE sum[i - 1] + g[i - 1] IN sum[Cant + 1]
CurrentIsSum == Intact => current = Total([n \in Node |-> part[n].size])

\* Every byte, every node and the table's size are accounted for, however the callbacks of
\* the connections run into each other.
MemoryAccountedFor == TypeOK /\ Tiles /\ NodesConserved /\ CurrentIsSum

\* One connection at a time: a key has one item, whatever sets, deletes and evictions came
\* before.
UniqueKeys == Intact => \A k \in Key : Cardinality(With(k)) <= 1

\* One connection at a time: the item it is sending the body of is in the list, reserved for
\* its key, and as large as it asked for.
HeldIsReserved ==
  \A c \in Conn : Intact /\ stage[c] = "held" =>
    /\ item[c] \in Listed /\ estaReservado(item[c])
    /\ part[item[c]].size \in 1..part[item[c]].chunk
=============================================================================
