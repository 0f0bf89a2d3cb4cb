------------------------- MODULE DynamicPartitions -------------------------
(***************************************************************************)
(* The engine with dynamic partitions (diccionario_dinamicas.c): first or  *)
(* best fit, eviction, merging of free neighbours, compaction.  Each       *)
(* iteration of a loop of the code is a step.                              *)
(***************************************************************************)
EXTENDS CacheEngine

\* partition a gets the memory of p
Absorb(a, p) == [part EXCEPT ![a].chunk = @ + part[p].chunk, ![p].chunk = 0]

-----------------------------------------------------------------------------
(* diccionario_eliminar *)

\* clears the item
Clear ==
  /\ Running("remove")
  /\ current' = current - part[it].size
  /\ part' = [part EXCEPT ![it] = Empty(@.data, @.chunk)]
  /\ damage' = damage \cup (IF it \in Listed THEN {} ELSE {"spare node removed"})
  /\ pc' = "back"
  /\ UNCHANGED <<schemeVars, next, prev, nodes, tries, owner, call, it, want, connVars, crashed>>

\* (mutant) a slab is left alone
MergesLarger(n) == n # NULL /\ ~part[n].ocupado /\ part[n].chunk > slab_min_size

\* a neighbour that is not in use is merged
Merges(n) == n # NULL /\ ~part[n].ocupado

\* history: halves of the buddy system are merged with whatever is next to them
Foreign == IF Buddy THEN {"buddy merged as a neighbour"} ELSE {}

\* merges it into the partition before it, unless that is in use
MergeBack ==
  LET a == prev[it] IN
  /\ Running("back") /\ Merges(a)
  /\ part' = Absorb(a, it)
  /\ next' = [next EXCEPT ![a] = next[it], ![it] = nodes]
  /\ prev' = Spare(it, Relink(next[it], a, prev))
  /\ nodes' = it /\ it' = a
  /\ damage' = damage \cup Foreign \cup (IF next[a] = it THEN {} ELSE {"stale link followed"})
                      \cup (IF Free(it) THEN {} ELSE {"reserved node merged"})
  /\ UNCHANGED <<schemeVars, current, tries, owner, pc, call, want, connVars, crashed>>

BackDone ==
  LET a == prev[it] IN
  /\ Running("back") /\ ~Merges(a)
  /\ pc' = "forward"
  /\ damage' = damage \cup (IF a = NULL \/ next[a] = it THEN {} ELSE {"stale link followed"})
  /\ UNCHANGED <<memVars, owner, call, it, want, connVars, crashed>>

\* merges the partition after it into it, unless that is in use; the prev of the one that
\* follows keeps its value
MergeForward ==
  LET p == next[it] IN
  /\ Running("forward") /\ Merges(p)
  /\ part' = Absorb(it, p)
  /\ next' = [next EXCEPT ![it] = next[p], ![p] = nodes]
  /\ prev' = Spare(p, prev)
  /\ nodes' = p
  /\ damage' = damage \cup Foreign \cup (IF estaReservado(p) THEN {"reserved node merged"} ELSE {})
  /\ UNCHANGED <<schemeVars, current, tries, callVars, connVars, crashed>>

ForwardDone ==
  /\ Running("forward") /\ ~Merges(next[it])
  /\ pc' = "removed"
  /\ UNCHANGED <<memVars, owner, call, it, want, connVars, crashed, damage>>

-----------------------------------------------------------------------------
(* diccionario_obtenerDireccion *)

TooBig ==
  /\ Running("find") /\ Need > table_max_size
  /\ pc' = "toobig"
  /\ UNCHANGED <<memVars, owner, call, it, want, connVars, crashed, damage>>

Rest(n) == part[n].chunk - Need

\* what the item does not need becomes a partition of its own
Splits(n) == nodes # NULL /\ Rest(n) >= slab_min_size

\* takes the partition found
Fit ==
  LET n == Chosen
      taken == [part EXCEPT ![n].size = want.size]
  IN
  /\ Running("find") /\ Need <= table_max_size /\ Fitting # {}
  /\ IF Splits(n)
       THEN /\ part' = [taken EXCEPT ![n].chunk = Need,
                          ![nodes].chunk = @ + Rest(n), ![nodes].data = part[n].data + Need]
            /\ next' = [next EXCEPT ![nodes] = next[n], ![n] = nodes]
            /\ prev' = Relink(next[n], nodes, [Relink(next[nodes], NULL, prev) EXCEPT ![nodes] = n])
            /\ nodes' = next[nodes]
       ELSE part' = taken /\ UNCHANGED <<next, prev, nodes>>
  /\ current' = current + want.size
  /\ it' = n /\ pc' = "found"
  /\ UNCHANGED <<schemeVars, tries, owner, call, want, connVars, crashed, damage>>

\* nothing fits: compact the memory or make room with a victim, NULL if no item was stored
\* (a list without end is searched for ever)
NoFit ==
  LET left == IF tries > 0 THEN tries - 1 ELSE tries IN
  /\ Running("find") /\ Need <= table_max_size /\ Fitting = {} /\ Ends
  /\ tries' = left
  /\ \/ /\ left = 0 /\ table_max_size - current >= Need
        /\ pc' = "compact" /\ UNCHANGED <<it, crashed>>
     \/ /\ ~(left = 0 /\ table_max_size - current >= Need)
        /\ \/ it' \in Victims /\ pc' = "remove" /\ UNCHANGED crashed
           \/ Victims = {} /\ crashed' = TRUE /\ UNCHANGED <<it, pc>>
  /\ UNCHANGED <<schemeVars, part, next, prev, nodes, current, owner, call, want, connVars, damage>>

-----------------------------------------------------------------------------
(* diccionario_compactarMemoria *)

\* from the first free partition on
CompactFrom ==
  /\ Running("compact") /\ \E n \in Listed : Free(n)
  /\ it' = First({n \in Listed : Free(n)}) /\ pc' = "shift"
  /\ UNCHANGED <<memVars, owner, call, want, connVars, crashed, damage>>

\* merges the free partition that follows
Consolidate ==
  LET p == next[it] IN
  /\ Running("shift") /\ p # NULL /\ Free(p)
  /\ part' = Absorb(it, p)
  /\ next' = [next EXCEPT ![it] = next[p], ![p] = nodes]
  /\ prev' = Spare(p, Relink(next[p], it, prev))
  /\ nodes' = p
  /\ UNCHANGED <<schemeVars, current, tries, callVars, connVars, crashed, damage>>

\* (mutant) the pointer to the data moves too
MovedWithPointer(p) == [part[p] EXCEPT !.ocupado = TRUE]

\* (mutant) the key stays behind
MovedUnnamed(p) == [part[p] EXCEPT !.data = part[it].data, !.key = NoKey, !.ocupado = TRUE]

\* what the free partition becomes: the item that follows it, stored
Moved(p) == [part[p] EXCEPT !.data = part[it].data, !.ocupado = TRUE]

\* the item that follows moves down; both are exchanged, and the moved one counts as
\* stored even if it was only reserved
Shift ==
  LET p == next[it] IN
  /\ Running("shift") /\ p # NULL /\ ~Free(p)
  /\ part' = [part EXCEPT
       ![it] = Moved(p),
       ![p]  = Empty(part[it].data + part[p].chunk, part[it].chunk)]
  /\ prev' = [prev EXCEPT ![p] = it]
  /\ it' = p
  /\ UNCHANGED <<schemeVars, next, nodes, current, tries, owner, pc, call, want, connVars, crashed, damage>>

\* (mutant) the count of failed searches is not set again
CompactAgain ==
  /\ \/ Running("compact") /\ \A n \in Listed : ~Free(n)
     \/ Running("shift") /\ next[it] = NULL
  /\ pc' = "find" /\ it' = NULL
  /\ UNCHANGED <<schemeVars, tries, part, next, prev, nodes, current, owner, call, want, connVars, crashed,
                 damage>>

\* the next compaction comes after so many failed searches
CompactDone ==
  /\ \/ Running("compact") /\ \A n \in Listed : ~Free(n)
     \/ Running("shift") /\ next[it] = NULL
  /\ tries' = frecuenciaCompactacion /\ pc' = "find" /\ it' = NULL
  /\ UNCHANGED <<schemeVars, part, next, prev, nodes, current, owner, call, want, connVars, crashed, damage>>

-----------------------------------------------------------------------------
DynamicStep ==
  \/ Clear \/ MergeBack \/ BackDone \/ MergeForward \/ ForwardDone
  \/ TooBig \/ Fit \/ NoFit
  \/ CompactFrom \/ Consolidate \/ Shift \/ CompactDone

-----------------------------------------------------------------------------
(* Properties *)

\* Only partitions that touch are merged.
MergesNeighbours ==
  /\ pc = "back" /\ Merges(prev[it]) =>
       part[prev[it]].data + part[prev[it]].chunk = part[it].data
  /\ pc = "forward" /\ Merges(next[it]) =>
       part[it].data + part[it].chunk = part[next[it]].data

\* Between two calls no two free dynamic partitions touch.
FreeAreApart ==
  ~Buddy /\ Intact /\ owner = NoConn =>
    \A n \in Listed : Free(n) /\ next[n] # NULL => ~Free(next[n])

\* A compaction moves the stored items and loses none of them.
Stored == {[key |-> part[n].key, size |-> part[n].size] : n \in {m \in Listed : part[m].ocupado}}
CompactionKeepsItems == [][Intact /\ pc \in {"compact", "shift"} => Stored' = Stored]_vars
=============================================================================
