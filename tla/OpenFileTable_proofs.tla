------------------------- MODULE OpenFileTable_proofs -------------------------
(***************************************************************************)
(* Proofs about OpenFileTable, for any set of threads, paths and requests: *)
(* the user counts of the open-file table are exact, so an element is never*)
(* freed while a thread still holds a pointer to it.                       *)
(***************************************************************************)
EXTENDS OpenFileTable, FiniteSetTheorems, TLAPS

Pointers == [Worker -> [Frames -> Path \cup {NoPath}]]

-----------------------------------------------------------------------------
(* Pointers and their number *)

\* finitely many pointers to any element: every thread has four frames
LEMMA PointersFinite ==
  ASSUME NEW r, NEW p PROVE IsFiniteSet(PointersTo(r, p))
<1>1. IsFiniteSet(Frames)
  <2>1. Frames = ((({} \cup {"file"}) \cup {"father"}) \cup {"list"}) \cup {"reply"}
    BY DEF Frames
  <2>2. QED BY <2>1, FS_EmptySet, FS_AddElement
<1>2. IsFiniteSet(Worker \X Frames) BY <1>1, ConfigAssumption, FS_Product
<1>3. PointersTo(r, p) \in SUBSET (Worker \X Frames) BY DEF PointersTo
<1>4. QED BY <1>2, <1>3, FS_Subset

\* foundOrAddOpenFileInList stores a pointer in an empty frame: one user more
LEMMA PointerAdded ==
  ASSUME NEW r \in Pointers, NEW w \in Worker, NEW f \in Frames, NEW p \in Path,
         r[w][f] = NoPath
  PROVE  LET s == [r EXCEPT ![w][f] = p] IN
         /\ s \in Pointers
         /\ Cardinality(PointersTo(s, p)) = Cardinality(PointersTo(r, p)) + 1
         /\ \A q \in Path \ {p} : PointersTo(s, q) = PointersTo(r, q)
<1> DEFINE s == [r EXCEPT ![w][f] = p]
<1>1. s \in Pointers BY DEF Pointers
<1>2. PointersTo(s, p) = PointersTo(r, p) \cup {<<w, f>>} BY DEF PointersTo, Pointers
<1>3. <<w, f>> \notin PointersTo(r, p) BY ConfigAssumption DEF PointersTo
<1>4. ASSUME NEW q \in Path \ {p} PROVE PointersTo(s, q) = PointersTo(r, q)
  BY <1>4, ConfigAssumption DEF PointersTo, Pointers
<1>5. Cardinality(PointersTo(s, p)) = Cardinality(PointersTo(r, p)) + 1
  BY <1>2, <1>3, PointersFinite, FS_AddElement
<1>6. QED BY <1>1, <1>4, <1>5

\* open_file_finishHim and the leaking returns clear a frame: one user less
LEMMA PointerDropped ==
  ASSUME NEW r \in Pointers, NEW w \in Worker, NEW f \in Frames,
         r[w][f] \in Path
  PROVE  LET s == [r EXCEPT ![w][f] = NoPath]
             p == r[w][f]
         IN
         /\ s \in Pointers
         /\ Cardinality(PointersTo(r, p)) \in Nat
         /\ Cardinality(PointersTo(s, p)) = Cardinality(PointersTo(r, p)) - 1
         /\ \A q \in Path \ {p} : PointersTo(s, q) = PointersTo(r, q)
<1> DEFINE s == [r EXCEPT ![w][f] = NoPath]
           p == r[w][f]
<1>1. s \in Pointers BY DEF Pointers
<1>2. PointersTo(s, p) = PointersTo(r, p) \ {<<w, f>>}
  BY ConfigAssumption DEF PointersTo, Pointers
<1>3. <<w, f>> \in PointersTo(r, p) BY DEF PointersTo
<1>4. ASSUME NEW q \in Path \ {p} PROVE PointersTo(s, q) = PointersTo(r, q)
  BY <1>4, ConfigAssumption DEF PointersTo, Pointers
<1>5. Cardinality(PointersTo(s, p)) = Cardinality(PointersTo(r, p)) - 1
  BY <1>2, <1>3, PointersFinite, FS_RemoveElement
<1>6. Cardinality(PointersTo(r, p)) \in Nat BY PointersFinite, FS_CardinalityType
<1>7. QED BY <1>1, <1>4, <1>5, <1>6

-----------------------------------------------------------------------------
(* The counting part of the invariant *)

CountInv == CountIsExact /\ TableIsTheCounted

\* steps that touch neither the table nor a pointer keep the counts
LEMMA CountUntouched ==
  ASSUME CountInv, UNCHANGED <<table, count, ref, leaked>> PROVE CountInv'
BY DEF CountInv, CountIsExact, TableIsTheCounted

\* an element that is not in the list has no users and no leaked references
LEMMA NobodyOutsideTable ==
  ASSUME TypeOK, CountInv, NEW p \in Path, p \notin table
  PROVE  count[p] = 0 /\ leaked[p] = 0 /\ Cardinality(PointersTo(ref, p)) = 0
<1>1. Cardinality(PointersTo(ref, p)) \in Nat BY PointersFinite, FS_CardinalityType
<1>2. count[p] = Cardinality(PointersTo(ref, p)) + leaked[p]
  BY DEF CountInv, CountIsExact
<1>3. count[p] \in Nat /\ leaked[p] \in Nat BY DEF TypeOK
<1>4. ~(count[p] > 0) BY DEF CountInv, TableIsTheCounted
<1>5. QED BY <1>1, <1>2, <1>3, <1>4

\* one more user of p, whether p's element is new or already in the list
LEMMA CountUser ==
  ASSUME TypeOK, CountInv, NEW w \in Worker, NEW f \in Frames, NEW p \in Path,
         ref[w][f] = NoPath, ref' = [ref EXCEPT ![w][f] = p],
         count' = [count EXCEPT ![p] = @ + 1], table' = table \cup {p},
         UNCHANGED leaked
  PROVE  CountInv' /\ count' \in [Path -> Nat] /\ ref' \in Pointers
<1>1. ref \in Pointers BY DEF TypeOK, Pointers
<1>2. /\ ref' \in Pointers
      /\ Cardinality(PointersTo(ref', p)) = Cardinality(PointersTo(ref, p)) + 1
      /\ \A q \in Path \ {p} : PointersTo(ref', q) = PointersTo(ref, q)
  <2> DEFINE s == [ref EXCEPT ![w][f] = p]
  <2>1. /\ s \in Pointers
        /\ Cardinality(PointersTo(s, p)) = Cardinality(PointersTo(ref, p)) + 1
        /\ \A q \in Path \ {p} : PointersTo(s, q) = PointersTo(ref, q)
    BY <1>1, PointerAdded
  <2>2. ref' = s OBVIOUS
  <2>3. QED BY ONLY <2>1, <2>2
<1>3. count' \in [Path -> Nat] BY DEF TypeOK
<1>4. Cardinality(PointersTo(ref, p)) \in Nat BY PointersFinite, FS_CardinalityType
<1>5. CountIsExact'
  <2>1. ASSUME NEW q \in Path
        PROVE count'[q] = Cardinality(PointersTo(ref', q)) + leaked'[q]
    <3>1. CASE q = p BY <3>1, <1>2, <1>4 DEF TypeOK, CountInv, CountIsExact
    <3>2. CASE q # p BY <3>2, <1>2 DEF TypeOK, CountInv, CountIsExact
    <3>3. QED BY <3>1, <3>2
  <2>2. QED BY <2>1 DEF CountIsExact
<1>6. TableIsTheCounted' BY DEF TypeOK, CountInv, TableIsTheCounted
<1>7. QED BY <1>2, <1>3, <1>5, <1>6 DEF CountInv

\* one user less, and the element leaves the list with the last one
LEMMA DropUser ==
  ASSUME TypeOK, CountInv, NEW w \in Worker, NEW f \in Frames, NEW p \in Path,
         ref[w][f] = p, ref' = [ref EXCEPT ![w][f] = NoPath],
         count' = [count EXCEPT ![p] = @ - 1],
         table' = IF count[p] = 1 THEN table \ {p} ELSE table,
         UNCHANGED leaked
  PROVE  CountInv' /\ count' \in [Path -> Nat] /\ ref' \in Pointers /\ table' \subseteq Path
<1>1. ref \in Pointers BY DEF TypeOK, Pointers
<1>2. /\ ref' \in Pointers
      /\ Cardinality(PointersTo(ref, p)) \in Nat
      /\ Cardinality(PointersTo(ref', p)) = Cardinality(PointersTo(ref, p)) - 1
      /\ \A q \in Path \ {p} : PointersTo(ref', q) = PointersTo(ref, q)
  <2> DEFINE s == [ref EXCEPT ![w][f] = NoPath]
  <2>1. /\ s \in Pointers
        /\ Cardinality(PointersTo(ref, p)) \in Nat
        /\ Cardinality(PointersTo(s, p)) = Cardinality(PointersTo(ref, p)) - 1
        /\ \A q \in Path \ {p} : PointersTo(s, q) = PointersTo(ref, q)
    BY <1>1, PointerDropped
  <2>2. ref' = s OBVIOUS
  <2>3. QED BY ONLY <2>1, <2>2
<1>3. Cardinality(PointersTo(ref', p)) \in Nat BY PointersFinite, FS_CardinalityType
<1>4. count[p] = Cardinality(PointersTo(ref, p)) + leaked[p] /\ leaked[p] \in Nat
  BY DEF TypeOK, CountInv, CountIsExact
<1>5. count[p] >= 1 BY <1>2, <1>3, <1>4
<1>6. count' \in [Path -> Nat] BY <1>5 DEF TypeOK
<1>7. CountIsExact'
  <2>1. ASSUME NEW q \in Path
        PROVE count'[q] = Cardinality(PointersTo(ref', q)) + leaked'[q]
    <3>1. CASE q = p BY <3>1, <1>2, <1>4 DEF TypeOK
    <3>2. CASE q # p BY <3>2, <1>2 DEF TypeOK, CountInv, CountIsExact
    <3>3. QED BY <3>1, <3>2
  <2>2. QED BY <2>1 DEF CountIsExact
<1>8. TableIsTheCounted' BY <1>5 DEF TypeOK, CountInv, TableIsTheCounted
<1>9. QED BY <1>2, <1>6, <1>7, <1>8 DEF CountInv, TypeOK

\* an error return moves one user from the pointers to the leaked references
LEMMA LeakUser ==
  ASSUME TypeOK, CountInv, NEW w \in Worker, NEW f \in Frames, NEW p \in Path,
         ref[w][f] = p, ref' = [ref EXCEPT ![w][f] = NoPath],
         leaked' = [leaked EXCEPT ![p] = @ + 1], UNCHANGED <<table, count>>
  PROVE  CountInv' /\ leaked' \in [Path -> Nat] /\ ref' \in Pointers
<1>1. ref \in Pointers BY DEF TypeOK, Pointers
<1>2. /\ ref' \in Pointers
      /\ Cardinality(PointersTo(ref, p)) \in Nat
      /\ Cardinality(PointersTo(ref', p)) = Cardinality(PointersTo(ref, p)) - 1
      /\ \A q \in Path \ {p} : PointersTo(ref', q) = PointersTo(ref, q)
  <2> DEFINE s == [ref EXCEPT ![w][f] = NoPath]
  <2>1. /\ s \in Pointers
        /\ Cardinality(PointersTo(ref, p)) \in Nat
        /\ Cardinality(PointersTo(s, p)) = Cardinality(PointersTo(ref, p)) - 1
        /\ \A q \in Path \ {p} : PointersTo(s, q) = PointersTo(ref, q)
    BY <1>1, PointerDropped
  <2>2. ref' = s OBVIOUS
  <2>3. QED BY ONLY <2>1, <2>2
<1>3. leaked' \in [Path -> Nat] BY DEF TypeOK
<1>4. CountIsExact'
  <2>1. ASSUME NEW q \in Path
        PROVE count'[q] = Cardinality(PointersTo(ref', q)) + leaked'[q]
    <3>1. CASE q = p BY <3>1, <1>2 DEF TypeOK, CountInv, CountIsExact
    <3>2. CASE q # p BY <3>2, <1>2 DEF TypeOK, CountInv, CountIsExact
    <3>3. QED BY <3>1, <3>2
  <2>2. QED BY <2>1 DEF CountIsExact
<1>5. QED BY <1>2, <1>3, <1>4 DEF CountInv, TableIsTheCounted

-----------------------------------------------------------------------------
(* The threads that do not move *)

LocalInv(w) == PointersOf(w) /\ FlowOf(w) /\ MutexOf(w)

\* a step of w changes no other thread's locals, and touches the list only by adding
\* to it or while w owns its mutex
Moves(w) ==
  /\ \A v \in Worker \ {w} :
       /\ pc'[v] = pc[v] /\ frame'[v] = frame[v] /\ op'[v] = op[v]
       /\ path'[v] = path[v] /\ out'[v] = out[v] /\ ref'[v] = ref[v]
  /\ \/ mutex' = mutex /\ table \subseteq table'
     \/ mutex = NoWorker /\ mutex' = w /\ table \subseteq table'
     \/ mutex = w /\ mutex' = NoWorker

LEMMA OthersKeep ==
  ASSUME IInv, NEW w \in Worker, Moves(w), LocalInv(w)' PROVE FollowsControl'
<1>1. ASSUME NEW v \in Worker, v # w PROVE LocalInv(v)'
  <2>1. LocalInv(v) /\ MutexOf(w) BY DEF IInv, FollowsControl, LocalInv
  <2>2. PointersOf(v)'
    BY <1>1, <2>1 DEF LocalInv, PointersOf, HeldFrames, FramePath, Moves
  <2>3. FlowOf(v)' BY <1>1, <2>1 DEF LocalInv, FlowOf, Moves
  <2>4. MutexOf(v)'
    BY <1>1, <2>1, ConfigAssumption DEF LocalInv, MutexOf, Here, FramePath, Moves
  <2>5. QED BY <2>2, <2>3, <2>4 DEF LocalInv
<1>2. QED BY <1>1 DEF FollowsControl, LocalInv

LEMMA StepKeeps ==
  ASSUME IInv, NEW w \in Worker, Moves(w), LocalInv(w)', TypeOK', CountInv'
  PROVE  IInv'
BY OthersKeep DEF IInv, CountInv

-----------------------------------------------------------------------------
(* The steps *)

\* the actions that leave the table and every pointer alone
Quiet(w) ==
  \/ Take(w)
  \/ WalkFault(w) \/ OutOfBlocks(w)
  \/ CheckNew(w)
  \/ LookupUnlocked(w)
  \/ TestRegular(w)
  \/ Lock(w)
  \/ DataBody(w)
  \/ ListBody(w)
  \/ WriteInode(w)
  \/ AddEntry(w)
  \/ DeleteEntry(w)
  \/ FinishHim(w)

LEMMA LockTypes ==
  ASSUME TypeOK, NEW w \in Worker, NEW p \in Path, Rdlock(w, p) \/ Wrlock(w, p)
  PROVE  readers' \in [Path -> Int] /\ writer' \in [Path -> Worker \cup {NoWorker}]
<1>1. readers \in [Path -> Int] /\ writer \in [Path -> Worker \cup {NoWorker}]
  BY DEF TypeOK
<1>2. CASE Rdlock(w, p)
  <2>1. readers[p] \in Int /\ readers[p] + 1 \in Int BY <1>1
  <2>2. \E n \in Int : readers' = [readers EXCEPT ![p] = n]
    <3>1. CASE writer[p] = w BY <1>2, <2>1, <3>1 DEF Rdlock
    <3>2. CASE writer[p] # w BY <1>2, <2>1, <3>2 DEF Rdlock
    <3>3. QED BY <3>1, <3>2
  <2>3. QED BY <1>1, <1>2, <2>2 DEF Rdlock
<1>3. CASE Wrlock(w, p) BY <1>1, <1>3 DEF Wrlock
<1>4. QED BY <1>2, <1>3

LEMMA QuietPreserves == ASSUME IInv, NEW w \in Worker, Quiet(w) PROVE IInv'
<1> USE DEF tableVars, lockVars, diskVars, localVars
<1>1. CountInv'
  <2>1. UNCHANGED <<table, count, ref, leaked>>
    BY DEF Quiet, Take, WalkFault, OutOfBlocks, CheckNew, LookupUnlocked, TestRegular, Lock, TakeLock, Wrlock, Rdlock, DataBody, InBody, UntouchedByBody, ListBody, Result, WriteInode, AddEntry, Grow, DeleteEntry, FinishHim
  <2>2. QED BY <2>1, CountUntouched DEF IInv, CountInv
<1>2. TypeOK /\ LocalInv(w) BY DEF IInv, FollowsControl, LocalInv
<1>3. CASE Take(w)
  <2> USE <1>3, <1>2 DEF At, Goto, Open, Answer, Here, FramePath, Take
  <2>1. TypeOK'
    BY ConfigAssumption DEF TypeOK, Labels, Frames, Outcomes, Kinds, CreateOps, RemoveOps, FileOps, ReadOps, LockedReads, Ops
  <2>2. PointersOf(w)'
    BY ConfigAssumption DEF TypeOK, LocalInv, PointersOf, FlowOf, HeldFrames, Frames, CreateOps, RemoveOps, FileOps, ReadOps, LockedReads, Ops
  <2>3. FlowOf(w)' BY ConfigAssumption DEF TypeOK, LocalInv, FlowOf, CreateOps, RemoveOps, FileOps, ReadOps, LockedReads, Ops
  <2>4. MutexOf(w)' BY ConfigAssumption DEF TypeOK, LocalInv, MutexOf
  <2>5. Moves(w) BY DEF TypeOK, Moves
  <2>6. QED BY <1>1, <2>1, <2>2, <2>3, <2>4, <2>5, StepKeeps DEF LocalInv
<1>4. CASE CheckNew(w)
  <2> USE <1>4, <1>2 DEF At, Goto, Open, Answer, Here, FramePath, CheckNew
  <2>1. TypeOK'
    BY ConfigAssumption DEF TypeOK, Labels, Frames, Outcomes, Kinds, CreateOps, RemoveOps
  <2>2. PointersOf(w)'
    BY ConfigAssumption DEF TypeOK, LocalInv, PointersOf, FlowOf, HeldFrames, Frames, CreateOps, RemoveOps
  <2>3. FlowOf(w)' BY ConfigAssumption DEF TypeOK, LocalInv, FlowOf, CreateOps, RemoveOps
  <2>4. MutexOf(w)' BY ConfigAssumption DEF TypeOK, LocalInv, MutexOf
  <2>5. Moves(w) BY DEF TypeOK, Moves
  <2>6. QED BY <1>1, <2>1, <2>2, <2>3, <2>4, <2>5, StepKeeps DEF LocalInv
<1>5. CASE LookupUnlocked(w)
  <2> USE <1>5, <1>2 DEF At, Goto, Open, Answer, Here, FramePath, LookupUnlocked
  <2>1. TypeOK'
    BY ConfigAssumption DEF TypeOK, Labels, Frames, Outcomes, Kinds, CreateOps, RemoveOps
  <2>2. PointersOf(w)'
    BY ConfigAssumption DEF TypeOK, LocalInv, PointersOf, FlowOf, HeldFrames, Frames, CreateOps, RemoveOps
  <2>3. FlowOf(w)' BY ConfigAssumption DEF TypeOK, LocalInv, FlowOf, CreateOps, RemoveOps
  <2>4. MutexOf(w)' BY ConfigAssumption DEF TypeOK, LocalInv, MutexOf
  <2>5. Moves(w) BY DEF TypeOK, Moves
  <2>6. QED BY <1>1, <2>1, <2>2, <2>3, <2>4, <2>5, StepKeeps DEF LocalInv
<1>6. CASE TestRegular(w)
  <2> USE <1>6, <1>2 DEF At, Goto, Open, Answer, Here, FramePath, TestRegular
  <2>1. TypeOK'
    BY ConfigAssumption DEF TypeOK, Labels, Frames, Outcomes, Kinds, CreateOps, RemoveOps
  <2>2. PointersOf(w)'
    BY ConfigAssumption DEF TypeOK, LocalInv, PointersOf, FlowOf, HeldFrames, Frames, CreateOps, RemoveOps
  <2>3. FlowOf(w)' BY ConfigAssumption DEF TypeOK, LocalInv, FlowOf, CreateOps, RemoveOps
  <2>4. MutexOf(w)' BY ConfigAssumption DEF TypeOK, LocalInv, MutexOf
  <2>5. Moves(w) BY DEF TypeOK, Moves
  <2>6. QED BY <1>1, <2>1, <2>2, <2>3, <2>4, <2>5, StepKeeps DEF LocalInv
<1>7. CASE Lock(w)
  <2> USE <1>7, <1>2 DEF At, Goto, Open, Answer, Here, FramePath, Lock, TakeLock, Wrlock, Rdlock
  <2>1. TypeOK'
    <3>1. readers' \in [Path -> Int] /\ writer' \in [Path -> Worker \cup {NoWorker}]
      <4>1. Here(w) \in Path BY ConfigAssumption DEF TypeOK
      <4>2. Rdlock(w, Here(w)) \/ Wrlock(w, Here(w)) BY <1>7 DEF Lock, TakeLock
      <4>3. QED BY ONLY <1>2, <4>1, <4>2, LockTypes
    <3>2. pc' \in [Worker -> Labels] /\ frame' \in [Worker -> Frames]
      BY DEF TypeOK, Labels, Frames
    <3>3. UNCHANGED <<tableVars, diskVars, op, path, out, ref, leaked, served, crashed>>
      OBVIOUS
    <3>4. QED BY ONLY <1>2, <3>1, <3>2, <3>3
          DEF TypeOK, tableVars, diskVars
  <2>2. PointersOf(w)'
    BY ConfigAssumption DEF TypeOK, LocalInv, PointersOf, FlowOf, HeldFrames, Frames, CreateOps, RemoveOps
  <2>3. FlowOf(w)' BY ConfigAssumption DEF TypeOK, LocalInv, FlowOf, CreateOps, RemoveOps
  <2>4. MutexOf(w)' BY ConfigAssumption DEF TypeOK, LocalInv, MutexOf
  <2>5. Moves(w) BY DEF TypeOK, Moves
  <2>6. QED BY <1>1, <2>1, <2>2, <2>3, <2>4, <2>5, StepKeeps DEF LocalInv
<1>8. CASE DataBody(w)
  <2> USE <1>8, <1>2 DEF At, Goto, Open, Answer, Here, FramePath, DataBody, InBody, UntouchedByBody
  <2>1. TypeOK'
    BY ConfigAssumption DEF TypeOK, Labels, Frames, Outcomes, Kinds, CreateOps, RemoveOps
  <2>2. PointersOf(w)'
    BY ConfigAssumption DEF TypeOK, LocalInv, PointersOf, FlowOf, HeldFrames, Frames, CreateOps, RemoveOps
  <2>3. FlowOf(w)' BY ConfigAssumption DEF TypeOK, LocalInv, FlowOf, CreateOps, RemoveOps
  <2>4. MutexOf(w)' BY ConfigAssumption DEF TypeOK, LocalInv, MutexOf
  <2>5. Moves(w) BY DEF TypeOK, Moves
  <2>6. QED BY <1>1, <2>1, <2>2, <2>3, <2>4, <2>5, StepKeeps DEF LocalInv
<1>9. CASE ListBody(w)
  <2> USE <1>9, <1>2 DEF At, Goto, Open, Answer, Here, FramePath, ListBody, InBody, Result, UntouchedByBody
  <2>1. TypeOK'
    BY ConfigAssumption DEF TypeOK, Labels, Frames, Outcomes, Kinds, CreateOps, RemoveOps
  <2>2. PointersOf(w)'
    BY ConfigAssumption DEF TypeOK, LocalInv, PointersOf, FlowOf, HeldFrames, Frames, CreateOps, RemoveOps
  <2>3. FlowOf(w)' BY ConfigAssumption DEF TypeOK, LocalInv, FlowOf, CreateOps, RemoveOps
  <2>4. MutexOf(w)' BY ConfigAssumption DEF TypeOK, LocalInv, MutexOf
  <2>5. Moves(w) BY DEF TypeOK, Moves
  <2>6. QED BY <1>1, <2>1, <2>2, <2>3, <2>4, <2>5, StepKeeps DEF LocalInv
<1>10. CASE WriteInode(w)
  <2> USE <1>10, <1>2 DEF At, Goto, Open, Answer, Here, FramePath, WriteInode, InBody, UntouchedByBody
  <2>1. TypeOK'
    BY ConfigAssumption DEF TypeOK, Labels, Frames, Outcomes, Kinds, CreateOps, RemoveOps
  <2>2. PointersOf(w)'
    BY ConfigAssumption DEF TypeOK, LocalInv, PointersOf, FlowOf, HeldFrames, Frames, CreateOps, RemoveOps
  <2>3. FlowOf(w)' BY ConfigAssumption DEF TypeOK, LocalInv, FlowOf, CreateOps, RemoveOps
  <2>4. MutexOf(w)' BY ConfigAssumption DEF TypeOK, LocalInv, MutexOf
  <2>5. Moves(w) BY DEF TypeOK, Moves
  <2>6. QED BY <1>1, <2>1, <2>2, <2>3, <2>4, <2>5, StepKeeps DEF LocalInv
<1>11. CASE AddEntry(w)
  <2> USE <1>11, <1>2 DEF At, Goto, Open, Answer, Here, FramePath, AddEntry, Grow, InBody, Result, UntouchedByBody
  <2>1. TypeOK'
    <3>1. entries' \in [Path -> Nat]
      <4>1. entries \in [Path -> Nat] BY DEF TypeOK
      <4>2. \/ entries' = entries
            \/ entries' = [entries EXCEPT ![path[w]] = @ + 1]
        OBVIOUS
      <4>3. QED BY ONLY <4>1, <4>2
    <3>2. spare' \in 0..Spare BY ConfigAssumption DEF TypeOK
    <3>3. /\ pc' \in [Worker -> Labels] /\ out' \in [Worker -> Outcomes]
          /\ crashed' \in BOOLEAN
      BY DEF TypeOK, Labels, Outcomes
    <3>4. UNCHANGED <<tableVars, lockVars, op, path, served, inode, frame, ref, leaked>>
      OBVIOUS
    <3>5. QED BY ONLY <1>2, <3>1, <3>2, <3>3, <3>4
          DEF TypeOK, tableVars, lockVars
  <2>2. PointersOf(w)'
    BY ConfigAssumption DEF TypeOK, LocalInv, PointersOf, FlowOf, HeldFrames, Frames, CreateOps, RemoveOps
  <2>3. FlowOf(w)' BY ConfigAssumption DEF TypeOK, LocalInv, FlowOf, CreateOps, RemoveOps
  <2>4. MutexOf(w)' BY ConfigAssumption DEF TypeOK, LocalInv, MutexOf
  <2>5. Moves(w) BY DEF TypeOK, Moves
  <2>6. QED BY <1>1, <2>1, <2>2, <2>3, <2>4, <2>5, StepKeeps DEF LocalInv
<1>12. CASE DeleteEntry(w)
  <2> USE <1>12, <1>2 DEF At, Goto, Open, Answer, Here, FramePath, DeleteEntry, InBody, Result, UntouchedByBody
  <2>1. TypeOK'
    <3>1. entries' \in [Path -> Nat]
      <4>1. entries \in [Path -> Nat] BY DEF TypeOK
      <4>2. \/ entries' = entries
            \/ entries[path[w]] > 0 /\ entries' = [entries EXCEPT ![path[w]] = @ - 1]
        OBVIOUS
      <4>3. QED BY ONLY <4>1, <4>2
    <3>2. /\ pc' \in [Worker -> Labels] /\ out' \in [Worker -> Outcomes]
          /\ crashed' \in BOOLEAN
      BY DEF TypeOK, Labels, Outcomes
    <3>3. UNCHANGED <<tableVars, lockVars, op, path, served, inode, spare, frame, ref, leaked>>
      OBVIOUS
    <3>4. QED BY ONLY <1>2, <3>1, <3>2, <3>3
          DEF TypeOK, tableVars, lockVars
  <2>2. PointersOf(w)'
    BY ConfigAssumption DEF TypeOK, LocalInv, PointersOf, FlowOf, HeldFrames, Frames, CreateOps, RemoveOps
  <2>3. FlowOf(w)' BY ConfigAssumption DEF TypeOK, LocalInv, FlowOf, CreateOps, RemoveOps
  <2>4. MutexOf(w)' BY ConfigAssumption DEF TypeOK, LocalInv, MutexOf
  <2>5. Moves(w) BY DEF TypeOK, Moves
  <2>6. QED BY <1>1, <2>1, <2>2, <2>3, <2>4, <2>5, StepKeeps DEF LocalInv
<1>13. CASE FinishHim(w)
  <2> USE <1>13, <1>2 DEF At, Goto, Open, Answer, Here, FramePath, FinishHim
  <2>1. TypeOK'
    BY ConfigAssumption DEF TypeOK, Labels, Frames, Outcomes, Kinds, CreateOps, RemoveOps
  <2>2. PointersOf(w)'
    BY ConfigAssumption DEF TypeOK, LocalInv, PointersOf, FlowOf, HeldFrames, Frames, CreateOps, RemoveOps
  <2>3. FlowOf(w)' BY ConfigAssumption DEF TypeOK, LocalInv, FlowOf, CreateOps, RemoveOps
  <2>4. MutexOf(w)' BY ConfigAssumption DEF TypeOK, LocalInv, MutexOf
  <2>5. Moves(w) BY DEF TypeOK, Moves
  <2>6. QED BY <1>1, <2>1, <2>2, <2>3, <2>4, <2>5, StepKeeps DEF LocalInv
<1>14. CASE WalkFault(w) \/ OutOfBlocks(w)
  <2> USE <1>14, <1>2 DEF WalkFault, OutOfBlocks
  <2>1. TypeOK' BY DEF TypeOK
  <2>2. PointersOf(w)' BY DEF LocalInv, PointersOf, HeldFrames, FramePath
  <2>3. FlowOf(w)' BY DEF LocalInv, FlowOf
  <2>4. MutexOf(w)' BY DEF LocalInv, MutexOf, Here, FramePath
  <2>5. Moves(w) BY DEF Moves
  <2>6. QED BY <1>1, <2>1, <2>2, <2>3, <2>4, <2>5, StepKeeps DEF LocalInv
<1>15. QED BY <1>3, <1>4, <1>5, <1>6, <1>7, <1>8, <1>9, <1>10, <1>11, <1>12, <1>13, <1>14 DEF Quiet

\* a new element starts with the one user that asked for it
LEMMA FoundOrAddPreserves == ASSUME IInv, NEW w \in Worker, FoundOrAdd(w) PROVE IInv'
<1> USE DEF At, Goto, Open, Answer, Here, FramePath, tableVars, lockVars, diskVars, localVars, FoundOrAdd
<1>1. TypeOK /\ CountInv /\ LocalInv(w) BY DEF IInv, CountInv, FollowsControl, LocalInv
<1>2. Here(w) \in Path /\ path[w] \in Path BY <1>1, ConfigAssumption DEF TypeOK
<1>3. CountInv' /\ count' \in [Path -> Nat] /\ leaked' \in [Path -> Nat]
        /\ ref' \in Pointers /\ table' \subseteq Path
  <2>1. CASE Here(w) \in table
    BY <1>1, <2>1, CountUntouched DEF TypeOK, Pointers
  <2>2. CASE Here(w) \notin table
    <3>1. ref[w][frame[w]] = NoPath /\ frame[w] \in Frames
      BY <1>1 DEF TypeOK, LocalInv, PointersOf, HeldFrames, RemoveOps
    <3>2. count[Here(w)] = 0 BY <1>1, <1>2, <2>2, NobodyOutsideTable
    <3>3. count' = [count EXCEPT ![Here(w)] = @ + 1] BY <2>2, <3>2
    <3>4. QED BY <1>1, <1>2, <2>2, <3>1, <3>3, CountUser DEF TypeOK
  <2>3. QED BY <2>1, <2>2
<1>4. TypeOK'
  <2>1. /\ writer' \in [Path -> Worker \cup {NoWorker}]
        /\ readers' \in [Path -> Int]
    <3>1. \/ UNCHANGED lockVars
          \/ /\ writer' = [writer EXCEPT ![Here(w)] = NoWorker]
             /\ readers' = [readers EXCEPT ![Here(w)] = 0]
      OBVIOUS
    <3>2. QED BY ONLY <1>1, <3>1 DEF TypeOK, lockVars
  <2>2. pc' \in [Worker -> Labels] /\ mutex' \in Worker \cup {NoWorker}
    <3>1. \E label \in {"found_wr", "lookup", "lock"} : Goto(w, label) OBVIOUS
    <3>2. mutex' \in {mutex, w} OBVIOUS
    <3>3. QED BY ONLY <1>1, <3>1, <3>2 DEF TypeOK, Labels, Goto
  <2>3. UNCHANGED <<diskVars, frame, op, path, out, leaked, served, crashed>>
    OBVIOUS
  <2>4. QED BY ONLY <1>1, <1>3, <2>1, <2>2, <2>3 DEF TypeOK, Pointers, diskVars
<1>5. PointersOf(w)'
  BY <1>1, <1>2, ConfigAssumption
     DEF TypeOK, LocalInv, PointersOf, FlowOf, HeldFrames, Frames, FileOps, CreateOps, RemoveOps
<1>6. FlowOf(w)' BY <1>1, ConfigAssumption DEF TypeOK, LocalInv, FlowOf, FileOps, CreateOps, RemoveOps
<1>7. MutexOf(w)' BY <1>1, ConfigAssumption DEF TypeOK, LocalInv, MutexOf
<1>8. Moves(w) BY <1>1, <1>2 DEF TypeOK, LocalInv, MutexOf, Moves
<1>9. QED BY <1>1, <1>3, <1>4, <1>5, <1>6, <1>7, <1>8, StepKeeps DEF LocalInv

\* one more thread uses an element that is in the list
LEMMA FoundCountPreserves == ASSUME IInv, NEW w \in Worker, FoundCount(w) PROVE IInv'
<1> USE DEF At, Goto, Open, Answer, Here, FramePath, tableVars, lockVars, diskVars, localVars, FoundCount, AddUser, WrlockUnlock
<1>1. TypeOK /\ CountInv /\ LocalInv(w) BY DEF IInv, CountInv, FollowsControl, LocalInv
<1>2. Here(w) \in Path /\ path[w] \in Path BY <1>1, ConfigAssumption DEF TypeOK
<1>3. CountInv' /\ count' \in [Path -> Nat] /\ leaked' \in [Path -> Nat]
        /\ ref' \in Pointers /\ table' \subseteq Path
  <2>1. ref[w][frame[w]] = NoPath /\ frame[w] \in Frames
    BY <1>1 DEF TypeOK, LocalInv, PointersOf, HeldFrames, RemoveOps
  <2>2. table' = table \cup {Here(w)} BY <1>1 DEF LocalInv, MutexOf
  <2>3. QED BY <1>1, <1>2, <2>1, <2>2, CountUser DEF TypeOK
<1>4. TypeOK'
  BY <1>1, <1>2, <1>3, ConfigAssumption
     DEF TypeOK, Pointers, Labels, Frames, Outcomes, Kinds, FileOps, CreateOps, RemoveOps
<1>5. PointersOf(w)'
  BY <1>1, <1>2, ConfigAssumption
     DEF TypeOK, LocalInv, PointersOf, FlowOf, HeldFrames, Frames, FileOps, CreateOps, RemoveOps
<1>6. FlowOf(w)' BY <1>1, ConfigAssumption DEF TypeOK, LocalInv, FlowOf, FileOps, CreateOps, RemoveOps
<1>7. MutexOf(w)' BY <1>1, ConfigAssumption DEF TypeOK, LocalInv, MutexOf
<1>8. Moves(w) BY <1>1, <1>2 DEF TypeOK, LocalInv, MutexOf, Moves
<1>9. QED BY <1>1, <1>3, <1>4, <1>5, <1>6, <1>7, <1>8, StepKeeps DEF LocalInv

\* a refused unlink leaks its reference
LEMMA RemoveFileBodyPreserves == ASSUME IInv, NEW w \in Worker, RemoveFileBody(w) PROVE IInv'
<1> USE DEF At, Goto, Open, Answer, Here, FramePath, tableVars, lockVars, diskVars, localVars, RemoveFileBody, ReturnLeaking, InBody, UntouchedByBody
<1>1. TypeOK /\ CountInv /\ LocalInv(w) BY DEF IInv, CountInv, FollowsControl, LocalInv
<1>2. Here(w) \in Path /\ path[w] \in Path BY <1>1, ConfigAssumption DEF TypeOK
<1>3. CountInv' /\ count' \in [Path -> Nat] /\ leaked' \in [Path -> Nat]
        /\ ref' \in Pointers /\ table' \subseteq Path
  <2>1. CASE UNCHANGED <<ref, leaked>>
    BY <1>1, <2>1, CountUntouched DEF TypeOK, Pointers
  <2>2. CASE ReturnLeaking(w)
    <3>1. ref[w]["file"] = path[w]
      BY <1>1, <2>2 DEF TypeOK, LocalInv, PointersOf, FlowOf, HeldFrames, Frames, RemoveOps
    <3>2. QED BY <1>1, <1>2, <2>2, <3>1, LeakUser DEF ReturnLeaking, Frames, TypeOK
  <2>3. QED BY <2>1, <2>2
<1>4. TypeOK'
  BY <1>1, <1>2, <1>3, ConfigAssumption
     DEF TypeOK, Pointers, Labels, Frames, Outcomes, Kinds, RemoveOps
<1>5. PointersOf(w)'
  BY <1>1, <1>2, ConfigAssumption
     DEF TypeOK, LocalInv, PointersOf, FlowOf, HeldFrames, Frames, RemoveOps
<1>6. FlowOf(w)' BY <1>1, ConfigAssumption DEF TypeOK, LocalInv, FlowOf, RemoveOps
<1>7. MutexOf(w)' BY <1>1, ConfigAssumption DEF TypeOK, LocalInv, MutexOf
<1>8. Moves(w) BY <1>1, <1>2 DEF TypeOK, LocalInv, MutexOf, Moves
<1>9. QED BY <1>1, <1>3, <1>4, <1>5, <1>6, <1>7, <1>8, StepKeeps DEF LocalInv

\* getAttr of a missing path leaks its reference
LEMMA UnlockPreserves == ASSUME IInv, NEW w \in Worker, Unlock(w) PROVE IInv'
<1> USE DEF At, Goto, Open, Answer, Here, FramePath, tableVars, lockVars, diskVars, localVars, Unlock, ReleaseLock, RwUnlock, ReturnLeaking
<1>1. TypeOK /\ CountInv /\ LocalInv(w) BY DEF IInv, CountInv, FollowsControl, LocalInv
<1>2. Here(w) \in Path /\ path[w] \in Path BY <1>1, ConfigAssumption DEF TypeOK
<1>3. CountInv' /\ count' \in [Path -> Nat] /\ leaked' \in [Path -> Nat]
        /\ ref' \in Pointers /\ table' \subseteq Path
  <2>1. CASE UNCHANGED <<ref, leaked>>
    BY <1>1, <2>1, CountUntouched DEF TypeOK, Pointers
  <2>2. CASE ReturnLeaking(w)
    <3>1. ref[w]["file"] = path[w]
      BY <1>1, <2>2 DEF TypeOK, LocalInv, PointersOf, FlowOf, HeldFrames, Frames, RemoveOps
    <3>2. QED BY <1>1, <1>2, <2>2, <3>1, LeakUser DEF ReturnLeaking, Frames, TypeOK
  <2>3. QED BY <2>1, <2>2
<1>4. TypeOK'
  <2>1. writer' \in [Path -> Worker \cup {NoWorker}] BY <1>1, <1>2 DEF TypeOK
  <2>2. readers' \in [Path -> Int]
    <3>1. readers \in [Path -> Int] /\ readers[Here(w)] - 1 \in Int
      BY <1>1, <1>2 DEF TypeOK
    <3>2. \/ readers' = readers
          \/ readers' = [readers EXCEPT ![Here(w)] = readers[Here(w)] - 1]
      OBVIOUS
    <3>3. QED BY ONLY <3>1, <3>2
  <2>3. pc' \in [Worker -> Labels]
    <3>1. \E label \in {"found", "fin"} : Goto(w, label) OBVIOUS
    <3>2. QED BY ONLY <1>1, <3>1 DEF TypeOK, Labels, Goto
  <2>4. frame' \in [Worker -> Frames]
    <3>1. \/ UNCHANGED frame
          \/ frame' = [frame EXCEPT ![w] = "reply"]
      OBVIOUS
    <3>2. QED BY ONLY <1>1, <3>1 DEF TypeOK, Frames
  <2>5. UNCHANGED <<tableVars, diskVars, op, path, out, served, crashed>>
    OBVIOUS
  <2>6. QED BY ONLY <1>1, <1>3, <2>1, <2>2, <2>3, <2>4, <2>5
        DEF TypeOK, Pointers, tableVars, diskVars
<1>5. PointersOf(w)'
  BY <1>1, <1>2, ConfigAssumption
     DEF TypeOK, LocalInv, PointersOf, FlowOf, HeldFrames, Frames, CreateOps, RemoveOps
<1>6. FlowOf(w)' BY <1>1, ConfigAssumption DEF TypeOK, LocalInv, FlowOf, CreateOps, RemoveOps
<1>7. MutexOf(w)' BY <1>1, ConfigAssumption DEF TypeOK, LocalInv, MutexOf
<1>8. Moves(w) BY <1>1, <1>2 DEF TypeOK, LocalInv, MutexOf, Moves
<1>9. QED BY <1>1, <1>3, <1>4, <1>5, <1>6, <1>7, <1>8, StepKeeps DEF LocalInv

\* a refused rmdir leaks its reference
LEMMA RecheckDirPreserves == ASSUME IInv, NEW w \in Worker, RecheckDir(w) PROVE IInv'
<1> USE DEF At, Goto, Open, Answer, Here, FramePath, tableVars, lockVars, diskVars, localVars, RecheckDir, ReturnLeaking, UntouchedByBody
<1>1. TypeOK /\ CountInv /\ LocalInv(w) BY DEF IInv, CountInv, FollowsControl, LocalInv
<1>2. Here(w) \in Path /\ path[w] \in Path BY <1>1, ConfigAssumption DEF TypeOK
<1>3. CountInv' /\ count' \in [Path -> Nat] /\ leaked' \in [Path -> Nat]
        /\ ref' \in Pointers /\ table' \subseteq Path
  <2>1. CASE UNCHANGED <<ref, leaked>>
    BY <1>1, <2>1, CountUntouched DEF TypeOK, Pointers
  <2>2. CASE ReturnLeaking(w)
    <3>1. ref[w]["file"] = path[w]
      BY <1>1, <2>2 DEF TypeOK, LocalInv, PointersOf, FlowOf, HeldFrames, Frames, RemoveOps
    <3>2. QED BY <1>1, <1>2, <2>2, <3>1, LeakUser DEF ReturnLeaking, Frames, TypeOK
  <2>3. QED BY <2>1, <2>2
<1>4. TypeOK'
  BY <1>1, <1>2, <1>3, ConfigAssumption
     DEF TypeOK, Pointers, Labels, Frames, Outcomes, Kinds, RemoveOps
<1>5. PointersOf(w)'
  BY <1>1, <1>2, ConfigAssumption
     DEF TypeOK, LocalInv, PointersOf, FlowOf, HeldFrames, Frames, RemoveOps
<1>6. FlowOf(w)' BY <1>1, ConfigAssumption DEF TypeOK, LocalInv, FlowOf, RemoveOps
<1>7. MutexOf(w)' BY <1>1, ConfigAssumption DEF TypeOK, LocalInv, MutexOf
<1>8. Moves(w) BY <1>1, <1>2 DEF TypeOK, LocalInv, MutexOf, Moves
<1>9. QED BY <1>1, <1>3, <1>4, <1>5, <1>6, <1>7, <1>8, StepKeeps DEF LocalInv

\* a removal whose entry was missing leaks its reference
LEMMA ErasePreserves == ASSUME IInv, NEW w \in Worker, Erase(w) PROVE IInv'
<1> USE DEF At, Goto, Open, Answer, Here, FramePath, tableVars, lockVars, diskVars, localVars, Erase, ReturnLeaking, UntouchedByBody
<1>1. TypeOK /\ CountInv /\ LocalInv(w) BY DEF IInv, CountInv, FollowsControl, LocalInv
<1>2. Here(w) \in Path /\ path[w] \in Path BY <1>1, ConfigAssumption DEF TypeOK
<1>3. CountInv' /\ count' \in [Path -> Nat] /\ leaked' \in [Path -> Nat]
        /\ ref' \in Pointers /\ table' \subseteq Path
  <2>1. CASE UNCHANGED <<ref, leaked>>
    BY <1>1, <2>1, CountUntouched DEF TypeOK, Pointers
  <2>2. CASE ReturnLeaking(w)
    <3>1. ref[w]["file"] = path[w]
      BY <1>1, <2>2 DEF TypeOK, LocalInv, PointersOf, FlowOf, HeldFrames, Frames, RemoveOps
    <3>2. QED BY <1>1, <1>2, <2>2, <3>1, LeakUser DEF ReturnLeaking, Frames, TypeOK
  <2>3. QED BY <2>1, <2>2
<1>4. TypeOK'
  BY <1>1, <1>2, <1>3, ConfigAssumption
     DEF TypeOK, Pointers, Labels, Frames, Outcomes, Kinds, RemoveOps
<1>5. PointersOf(w)'
  BY <1>1, <1>2, ConfigAssumption
     DEF TypeOK, LocalInv, PointersOf, FlowOf, HeldFrames, Frames, RemoveOps
<1>6. FlowOf(w)' BY <1>1, ConfigAssumption DEF TypeOK, LocalInv, FlowOf, RemoveOps
<1>7. MutexOf(w)' BY <1>1, ConfigAssumption DEF TypeOK, LocalInv, MutexOf
<1>8. Moves(w) BY <1>1, <1>2 DEF TypeOK, LocalInv, MutexOf, Moves
<1>9. QED BY <1>1, <1>3, <1>4, <1>5, <1>6, <1>7, <1>8, StepKeeps DEF LocalInv

\* the last user takes the element out of the list
LEMMA FinishCountPreserves == ASSUME IInv, NEW w \in Worker, FinishCount(w) PROVE IInv'
<1> USE DEF At, Goto, Open, Answer, Here, FramePath, tableVars, lockVars, diskVars, localVars, FinishCount, Uncount, AfterFinish, WrlockUnlock
<1>1. TypeOK /\ CountInv /\ LocalInv(w) BY DEF IInv, CountInv, FollowsControl, LocalInv
<1>2. Here(w) \in Path /\ path[w] \in Path BY <1>1, ConfigAssumption DEF TypeOK
<1>3. CountInv' /\ count' \in [Path -> Nat] /\ leaked' \in [Path -> Nat]
        /\ ref' \in Pointers /\ table' \subseteq Path
  <2>1. ref[w][frame[w]] = Here(w) /\ frame[w] \in Frames
    BY <1>1 DEF TypeOK, LocalInv, PointersOf, HeldFrames
  <2>2. QED BY <1>1, <1>2, <2>1, DropUser DEF TypeOK
<1>4. TypeOK'
  BY <1>1, <1>2, <1>3, ConfigAssumption
     DEF TypeOK, Pointers, Labels, Frames, Outcomes, Kinds, CreateOps, RemoveOps
<1>5. PointersOf(w)'
  BY <1>1, <1>2, ConfigAssumption
     DEF TypeOK, LocalInv, PointersOf, FlowOf, HeldFrames, Frames, CreateOps, RemoveOps
<1>6. FlowOf(w)' BY <1>1, ConfigAssumption DEF TypeOK, LocalInv, FlowOf, CreateOps, RemoveOps
<1>7. MutexOf(w)' BY <1>1, ConfigAssumption DEF TypeOK, LocalInv, MutexOf
<1>8. Moves(w) BY <1>1, <1>2 DEF TypeOK, LocalInv, MutexOf, Moves
<1>9. QED BY <1>1, <1>3, <1>4, <1>5, <1>6, <1>7, <1>8, StepKeeps DEF LocalInv

-----------------------------------------------------------------------------
(* The theorems *)

LEMMA NoPointers ==
  ASSUME NEW r, r = [w \in Worker |-> [f \in Frames |-> NoPath]], NEW p \in Path
  PROVE  Cardinality(PointersTo(r, p)) = 0
<1>1. PointersTo(r, p) = {} BY ConfigAssumption DEF PointersTo
<1>2. QED BY <1>1, FS_EmptySet

LEMMA InitInv == Init => IInv
<1> SUFFICES ASSUME Init PROVE IInv OBVIOUS
<1> USE ConfigAssumption DEF Init
<1>1. TypeOK
  <2>1. /\ mutex = NoWorker /\ table = {} /\ crashed = FALSE
        /\ spare = Spare /\ Spare \in Nat /\ served = 0 /\ MaxRequests \in Nat
    OBVIOUS
  <2>2. /\ count \in [Path -> Nat] /\ readers \in [Path -> Int]
        /\ entries \in [Path -> Nat] /\ leaked \in [Path -> Nat]
    OBVIOUS
  <2>3. /\ writer \in [Path -> Worker \cup {NoWorker}] /\ inode \in [Path -> Kinds]
        /\ path \in [Worker -> Path]
        /\ ref \in [Worker -> [Frames -> Path \cup {NoPath}]]
    OBVIOUS
  <2>4. /\ pc \in [Worker -> Labels] /\ frame \in [Worker -> Frames]
        /\ op \in [Worker -> Ops] /\ out \in [Worker -> Outcomes]
    BY DEF Labels, Frames, Ops, LockedReads, Outcomes
  <2>5. spare \in 0..Spare /\ served \in 0..MaxRequests BY ONLY <2>1
  <2>6. /\ mutex \in Worker \cup {NoWorker} /\ table \subseteq Path
        /\ crashed \in BOOLEAN
    BY ONLY <2>1
  <2>7. QED BY ONLY <2>2, <2>3, <2>4, <2>5, <2>6 DEF TypeOK
<1>2. FollowsControl
  BY DEF FollowsControl, PointersOf, FlowOf, MutexOf, HeldFrames, Frames
<1>3. CountIsExact BY NoPointers DEF CountIsExact
<1>4. TableIsTheCounted BY DEF TableIsTheCounted
<1>5. QED BY <1>1, <1>2, <1>3, <1>4 DEF IInv

LEMMA StutterPreserves == ASSUME IInv, UNCHANGED vars PROVE IInv'
<1> USE DEF vars, tableVars, lockVars, diskVars, localVars
<1>1. TypeOK' BY DEF IInv, TypeOK
<1>2. FollowsControl'
  BY DEF IInv, FollowsControl, PointersOf, FlowOf, MutexOf, HeldFrames, FramePath, Here
<1>3. CountInv' BY CountUntouched DEF IInv, CountInv
<1>4. QED BY <1>1, <1>2, <1>3 DEF IInv, CountInv

LEMMA NextInv == IInv /\ [Next]_vars => IInv'
<1> SUFFICES ASSUME IInv, [Next]_vars PROVE IInv' OBVIOUS
<1>1. ASSUME NEW w \in Worker, Take(w) \/ Step(w) PROVE IInv'
  BY <1>1, QuietPreserves, FoundOrAddPreserves, FoundCountPreserves,
     RemoveFileBodyPreserves, UnlockPreserves, RecheckDirPreserves, ErasePreserves,
     FinishCountPreserves
     DEF Step, Quiet
<1>2. CASE UNCHANGED vars BY <1>2, StutterPreserves
<1>3. QED BY <1>1, <1>2 DEF Next, Over

\* The invariant that carries the argument: a thread's pointers and the mutex follow its
\* control state in synchronizer.c and ext2_operations.c, and the user counts are exact.
THEOREM Invariance == Spec => []IInv
<1>1. Init => IInv BY InitInv
<1>2. IInv /\ [Next]_vars => IInv' BY NextInv
<1>3. QED BY <1>1, <1>2, PTL DEF Spec

\* Every variable keeps its type; in particular file->count never goes below zero.
THEOREM TypeCorrect == Spec => []TypeOK
<1>1. IInv => TypeOK BY DEF IInv
<1>2. QED BY <1>1, Invariance, PTL

\* For any number of threads and paths, file->count is at every moment the number of
\* pointers the threads hold plus the references the error returns dropped.
THEOREM CountsAreExact == Spec => []CountIsExact
<1>1. IInv => CountIsExact BY DEF IInv
<1>2. QED BY <1>1, Invariance, PTL

\* The list holds exactly the elements with users, so the element a thread destroys in
\* open_file_finishHim is the one whose last user it is.
THEOREM TableHoldsTheCounted == Spec => []TableIsTheCounted
<1>1. IInv => TableIsTheCounted BY DEF IInv
<1>2. QED BY <1>1, Invariance, PTL

\* a pointer makes the count positive, and the counted are in the list
LEMMA PointersAreInTable ==
  ASSUME IInv, NEW w \in Worker, NEW f \in Frames, ref[w][f] # NoPath
  PROVE  ref[w][f] \in table
<1> DEFINE p == ref[w][f]
<1>1. p \in Path BY DEF IInv, TypeOK
<1>2. <<w, f>> \in PointersTo(ref, p) BY DEF PointersTo
<1>3. /\ Cardinality(PointersTo(ref, p)) \in Nat
      /\ Cardinality(PointersTo(ref, p)) # 0
  BY <1>2, PointersFinite, FS_CardinalityType, FS_EmptySet
<1>4. QED BY <1>1, <1>3, NobodyOutsideTable DEF IInv, CountInv

\* No thread holds a pointer to an element that was destroyed: the free in
\* openFileListRemoveAndDestroy is never followed by a use.
THEOREM NoUseAfterDestroy == Spec => []NoDanglingReference
<1>1. IInv => NoDanglingReference BY PointersAreInTable DEF NoDanglingReference
<1>2. QED BY <1>1, Invariance, PTL

=============================================================================
