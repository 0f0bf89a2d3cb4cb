------------------------- MODULE OpenFileLocks_proofs -------------------------
(***************************************************************************)
(* Proofs about the read-write locks of OpenFileTable.  For any threads,   *)
(* paths and requests: no lock outlives the thread that took it or the     *)
(* element it guards, although removals take it in one function and leave  *)
(* it, after a refusal, for the look-up of another to give back; and when  *)
(* threads wait for each other, a removal is one of them or an unlock took *)
(* a reader that was not there.  While no request takes away what another  *)
(* writes: every lock is what the threads inside its element say.  Without *)
(* removals: what is half made has its maker at work.                      *)
(***************************************************************************)
EXTENDS OpenFileTable_proofs

-----------------------------------------------------------------------------
(* Owners *)

\* a step of w leaves the control of the other threads alone
OnlyMoves(w) ==
  \A v \in Worker \ {w} :
    pc'[v] = pc[v] /\ frame'[v] = frame[v] /\ op'[v] = op[v] /\ path'[v] = path[v]

\* no step makes another thread an owner
LEMMA OthersOwn ==
  ASSUME LockInv, NEW w \in Worker, OnlyMoves(w),
         \A p \in Path : \A v \in Worker \ {w} : writer'[p] = v => writer[p] = v,
         \A p \in Path : writer'[p] = w => p \in MayOwn(w)'
  PROVE  OwnersFollow'
<1> SUFFICES ASSUME NEW v \in Worker, NEW p \in Path, writer'[p] = v PROVE p \in MayOwn(v)'
  BY DEF OwnersFollow
<1>1. CASE v = w BY <1>1
<1>2. CASE v # w
  <2>1. p \in MayOwn(v) BY <1>2 DEF LockInv, OwnersFollow
  <2>2. QED BY <1>2, <2>1 DEF OnlyMoves, MayOwn, KeepsPath, Here, FramePath
<1>3. QED BY <1>1, <1>2

\* the steps that touch no lock and not the table
LEMMA NoLockStep ==
  ASSUME LockInv, NEW w \in Worker, OnlyMoves(w), UNCHANGED <<writer, readers, table>>,
         MayOwn(w) \subseteq MayOwn(w)', path'[w] = Root => op'[w] \in LockedReads
  PROVE  LockInv'
<1>1. OwnersFollow' BY OthersOwn DEF LockInv, OwnersFollow
<1>2. DestroyedUnlocked' BY DEF LockInv, DestroyedUnlocked
<1>3. RootIsOnlyRead' BY DEF LockInv, RootIsOnlyRead, OnlyMoves
<1>4. QED BY <1>1, <1>2, <1>3 DEF LockInv

\* the path of the current frame
LEMMA HereIsPath == ASSUME TypeOK, NEW w \in Worker PROVE Here(w) \in Path
BY ConfigAssumption DEF TypeOK, Here, FramePath

\* the element whose lock a thread asks for or gives back is in the list
LEMMA HereInTable ==
  ASSUME IInv, NEW w \in Worker, pc[w] \in {"lock", "body", "unlock", "fin", "fin_wr", "found_wr"}
  PROVE  Here(w) \in table /\ (pc[w] = "fin_wr" => ref[w][frame[w]] = Here(w))
<1>1. PointersOf(w) /\ MutexOf(w) /\ frame[w] \in Frames /\ Here(w) \in Path
  BY HereIsPath DEF IInv, FollowsControl, TypeOK
<1>2. CASE pc[w] = "found_wr" BY <1>1, <1>2 DEF MutexOf
<1>3. CASE pc[w] # "found_wr"
  <2>1. ref[w][frame[w]] = Here(w) BY <1>1, <1>3 DEF PointersOf, HeldFrames, Here
  <2>2. QED BY <1>1, <2>1, PointersAreInTable, ConfigAssumption
<1>4. QED BY <1>2, <1>3

\* the actions that touch no lock, but for those that follow below
LEMMA QuietLocks ==
  ASSUME IInv, LockInv, NEW w \in Worker,
         \/ Take(w) \/ WalkFault(w) \/ OutOfBlocks(w) \/ CheckNew(w) \/ LookupUnlocked(w) \/ TestRegular(w)
         \/ DataBody(w) \/ ListBody(w) \/ WriteInode(w) \/ RemoveFileBody(w) \/ AddEntry(w)
         \/ DeleteEntry(w) \/ FinishHim(w) \/ RecheckDir(w) \/ Erase(w)
  PROVE  LockInv'
<1> USE DEF tableVars, lockVars, diskVars, localVars, UntouchedByBody, At, Goto, Open, Answer,
        ReturnLeaking, Result, InBody
<1>1. TypeOK /\ FlowOf(w) /\ RootIsOnlyRead BY DEF IInv, FollowsControl, LockInv
<1> DEFINE Ok == /\ OnlyMoves(w) /\ UNCHANGED <<writer, readers, table>>
                 /\ MayOwn(w) \subseteq MayOwn(w)'
                 /\ path'[w] = Root => op'[w] \in LockedReads
<1>2. CASE Take(w)
  <2>1. OnlyMoves(w) /\ UNCHANGED <<writer, readers, table>>
    BY <1>1, <1>2 DEF Take, TypeOK, OnlyMoves
  <2>2. MayOwn(w) = {} BY <1>1, <1>2 DEF Take, FlowOf, MayOwn, KeepsPath
  <2>3. path'[w] = Root => op'[w] \in LockedReads
    BY <1>1, <1>2, ConfigAssumption DEF Take, TypeOK
  <2>4. QED BY <2>1, <2>2, <2>3, NoLockStep
<1>3. CASE WalkFault(w) \/ OutOfBlocks(w)
  <2>1. Ok BY <1>1, <1>3
        DEF WalkFault, OutOfBlocks, OnlyMoves, RootIsOnlyRead, MayOwn, KeepsPath, Here, FramePath
  <2>2. QED BY <2>1, NoLockStep
<1>4. CASE CheckNew(w) \/ LookupUnlocked(w) \/ TestRegular(w)
  <2>1. OnlyMoves(w) /\ UNCHANGED <<writer, readers, table>>
    BY <1>1, <1>4 DEF CheckNew, LookupUnlocked, TestRegular, TypeOK, OnlyMoves
  <2>2. MayOwn(w) = {}
    BY <1>1, <1>4 DEF CheckNew, LookupUnlocked, TestRegular, FlowOf, MayOwn, KeepsPath
  <2>3. path'[w] = Root => op'[w] \in LockedReads
    BY <1>1, <1>4 DEF CheckNew, LookupUnlocked, TestRegular, RootIsOnlyRead
  <2>4. QED BY <2>1, <2>2, <2>3, NoLockStep
<1>5. CASE DataBody(w) \/ ListBody(w) \/ WriteInode(w)
  <2>1. /\ OnlyMoves(w) /\ UNCHANGED <<writer, readers, table, op, path, frame>>
        /\ pc[w] = "body" /\ pc'[w] = "unlock"
    BY <1>1, <1>5 DEF DataBody, ListBody, WriteInode, TypeOK, OnlyMoves
  <2>2. Ok BY <1>1, <2>1 DEF RootIsOnlyRead, MayOwn, KeepsPath, Here, FramePath
  <2>3. QED BY <2>2, NoLockStep
<1>6. CASE AddEntry(w) \/ DeleteEntry(w)
  <2>1. /\ OnlyMoves(w) /\ UNCHANGED <<writer, readers, table, op, path, frame>>
        /\ pc[w] = "body" /\ pc'[w] \in {"body", "unlock"}
    BY <1>1, <1>6 DEF AddEntry, DeleteEntry, TypeOK, OnlyMoves
  <2>2. Ok BY <1>1, <2>1 DEF RootIsOnlyRead, MayOwn, KeepsPath, Here, FramePath
  <2>3. QED BY <2>2, NoLockStep
<1>7. CASE RemoveFileBody(w)
  <2>1. /\ OnlyMoves(w) /\ UNCHANGED <<writer, readers, table, op, path>>
        /\ pc[w] = "body" /\ frame[w] = "file" /\ op[w] = "removefile"
        /\ \/ pc'[w] = "body" /\ frame'[w] = "file"
           \/ pc'[w] = "found" /\ frame'[w] \in {"reply", "father"}
    BY <1>1, <1>7 DEF RemoveFileBody, TypeOK, OnlyMoves
  <2>2. Ok BY <1>1, <2>1 DEF RootIsOnlyRead, MayOwn, KeepsPath, Here, FramePath, RemoveOps
  <2>3. QED BY <2>2, NoLockStep
<1>8. CASE FinishHim(w)
  <2>1. /\ OnlyMoves(w) /\ UNCHANGED <<writer, readers, table, op, path, frame>>
        /\ pc[w] = "fin" /\ pc'[w] = "fin_wr"
    BY <1>1, <1>8 DEF FinishHim, TypeOK, OnlyMoves
  <2>2. Ok BY <1>1, <2>1 DEF RootIsOnlyRead, MayOwn, KeepsPath, Here, FramePath
  <2>3. QED BY <2>2, NoLockStep
<1>9. CASE RecheckDir(w)
  <2>1. OnlyMoves(w) /\ UNCHANGED <<writer, readers, table, op, path>>
    BY <1>1, <1>9 DEF RecheckDir, TypeOK, OnlyMoves
  <2>2. MayOwn(w) = {} BY <1>1, <1>9 DEF RecheckDir, FlowOf, MayOwn, KeepsPath
  <2>3. Ok BY <1>1, <2>1, <2>2 DEF RootIsOnlyRead
  <2>4. QED BY <2>3, NoLockStep
<1>10. CASE Erase(w)
  <2>1. /\ OnlyMoves(w) /\ UNCHANGED <<writer, readers, table, op, path>>
        /\ pc[w] = "erase" /\ frame[w] = "file" /\ op[w] \in RemoveOps
        /\ \/ pc'[w] = "found" /\ frame'[w] = "reply"
           \/ op[w] = "removefile" /\ pc'[w] = "unlock" /\ frame'[w] = "file"
           \/ op[w] # "removefile"
    BY <1>1, <1>10 DEF Erase, TypeOK, OnlyMoves, FlowOf
  <2>2. Ok
    BY <1>1, <2>1 DEF RootIsOnlyRead, MayOwn, KeepsPath, Here, FramePath, RemoveOps, ReadOps, LockedReads
  <2>3. QED BY <2>2, NoLockStep
<1>11. QED BY <1>2, <1>3, <1>4, <1>5, <1>6, <1>7, <1>8, <1>9, <1>10

\* a new element has a free lock
LEMMA FoundOrAddLocks ==
  ASSUME IInv, LockInv, NEW w \in Worker, FoundOrAdd(w) PROVE LockInv'
<1> DEFINE p == Here(w)
<1>1. TypeOK /\ FlowOf(w) /\ p \in Path BY HereIsPath DEF IInv, FollowsControl
<1>2. /\ pc[w] = "found" /\ OnlyMoves(w) /\ UNCHANGED <<op, path, frame>>
  BY <1>1 DEF FoundOrAdd, At, Goto, TypeOK, OnlyMoves
<1>3. RootIsOnlyRead' BY <1>2 DEF LockInv, RootIsOnlyRead
<1>4. CASE p \in table /\ pc'[w] = "found_wr" /\ UNCHANGED <<writer, readers, table>>
  <2>1. MayOwn(w) \subseteq MayOwn(w)' BY <1>2, <1>4 DEF MayOwn, KeepsPath, Here, FramePath
  <2>2. path'[w] = Root => op'[w] \in LockedReads BY <1>3 DEF RootIsOnlyRead
  <2>3. QED BY <2>1, <2>2, <1>2, <1>4, NoLockStep
<1>5. CASE /\ p \notin table /\ table' = table \cup {p}
           /\ writer' = [writer EXCEPT ![p] = NoWorker]
           /\ readers' = [readers EXCEPT ![p] = 0]
           /\ pc'[w] \in {"lookup", "lock"}
  <2>1. \A q \in Path : writer'[q] = IF q = p THEN NoWorker ELSE writer[q]
    BY <1>1, <1>5 DEF TypeOK
  <2>2. \A q \in Path : readers'[q] = IF q = p THEN 0 ELSE readers[q]
    BY <1>1, <1>5 DEF TypeOK
  <2>3. DestroyedUnlocked' BY <2>1, <2>2, <1>5 DEF LockInv, DestroyedUnlocked
  <2>4. ASSUME NEW q \in Path, writer'[q] = w PROVE q \in MayOwn(w)'
    <3>1. q # p /\ writer[q] = w BY <2>1, <2>4, ConfigAssumption
    <3>2. q \in MayOwn(w) BY <3>1 DEF LockInv, OwnersFollow
    <3>3. QED BY <3>1, <3>2, <1>2 DEF MayOwn, KeepsPath, Here, FramePath
  <2>5. \A q \in Path : \A v \in Worker \ {w} : writer'[q] = v => writer[q] = v
    BY <2>1, ConfigAssumption
  <2>6. QED BY <2>3, <2>4, <2>5, <1>2, <1>3, OthersOwn DEF LockInv
<1>6. QED BY <1>1, <1>4, <1>5 DEF FoundOrAdd, At, Goto, lockVars, TypeOK

\* wrlock and unlock around the count: whoever does it owns the element no longer
LEMMA FoundCountLocks ==
  ASSUME IInv, LockInv, NEW w \in Worker, FoundCount(w) PROVE LockInv'
<1> DEFINE p == Here(w)
<1>1. TypeOK /\ FlowOf(w) /\ p \in Path BY HereIsPath DEF IInv, FollowsControl
<1>2. /\ pc[w] = "found_wr" /\ pc'[w] \in {"lookup", "lock"} /\ OnlyMoves(w)
      /\ UNCHANGED <<table, readers, op, path, frame>>
      /\ writer' = [writer EXCEPT ![p] = NoWorker]
  BY <1>1 DEF FoundCount, WrlockUnlock, At, Goto, TypeOK, OnlyMoves
<1>3. \A q \in Path : writer'[q] = IF q = p THEN NoWorker ELSE writer[q]
  BY <1>1, <1>2 DEF TypeOK
<1>4. RootIsOnlyRead' BY <1>2 DEF LockInv, RootIsOnlyRead
<1>5. DestroyedUnlocked' BY <1>2, <1>3 DEF LockInv, DestroyedUnlocked
<1>6. ASSUME NEW q \in Path, writer'[q] = w PROVE q \in MayOwn(w)'
  <2>1. q # p /\ writer[q] = w BY <1>3, <1>6, ConfigAssumption
  <2>2. q \in MayOwn(w) BY <2>1 DEF LockInv, OwnersFollow
  <2>3. QED BY <2>1, <2>2, <1>2 DEF MayOwn, KeepsPath, Here, FramePath
<1>7. \A q \in Path : \A v \in Worker \ {w} : writer'[q] = v => writer[q] = v
  BY <1>3, ConfigAssumption
<1>8. QED BY <1>2, <1>4, <1>5, <1>6, <1>7, OthersOwn DEF LockInv

\* the operation's own lock; the reading ones own nothing
LEMMA LockLocks ==
  ASSUME IInv, LockInv, NEW w \in Worker, Lock(w) PROVE LockInv'
<1> DEFINE p == Here(w)
<1>1. TypeOK /\ FlowOf(w) /\ p \in Path BY HereIsPath DEF IInv, FollowsControl
<1>2. /\ pc[w] = "lock" /\ OnlyMoves(w) /\ UNCHANGED <<table, op, path>>
      /\ IF op[w] = "removedir" /\ frame[w] = "file"
         THEN pc'[w] = "found" /\ frame'[w] = "list"
         ELSE pc'[w] = (IF frame[w] = "reply" THEN "unlock" ELSE "body") /\ frame' = frame
  BY <1>1 DEF Lock, At, Goto, Open, TypeOK, OnlyMoves, tableVars
<1>3. \/ /\ op[w] \in ReadOps \/ frame[w] \in {"list", "reply"}
         /\ Rdlock(w, p)
      \/ /\ op[w] \notin ReadOps /\ frame[w] \in {"file", "father"}
         /\ Wrlock(w, p)
  BY <1>1 DEF Lock, TakeLock, TypeOK, Frames
<1>4. \A q \in Path \ {p} : writer'[q] = writer[q] /\ readers'[q] = readers[q]
  BY <1>1, <1>3 DEF Rdlock, Wrlock, TypeOK
<1>5. writer'[p] = writer[p] \/ (Wrlock(w, p) /\ writer'[p] = w)
  BY <1>1, <1>3 DEF Rdlock, Wrlock, TypeOK
<1>6. RootIsOnlyRead' BY <1>2 DEF LockInv, RootIsOnlyRead
<1>7. DestroyedUnlocked'
  <2>1. p \in table BY <1>2, HereInTable
  <2>2. QED BY <2>1, <1>2, <1>4 DEF LockInv, DestroyedUnlocked
<1>8. MayOwn(w) \subseteq {path[w]} /\ (MayOwn(w) # {} => op[w] = "removefile" /\ frame[w] = "father")
  BY <1>2 DEF MayOwn, KeepsPath
<1>9. ASSUME NEW q \in Path, writer'[q] = w PROVE q \in MayOwn(w)'
  <2>1. CASE writer[q] = w
    <3>1. q \in MayOwn(w) BY <2>1 DEF LockInv, OwnersFollow
    <3>2. QED BY <3>1, <1>2, <1>8 DEF MayOwn, KeepsPath, Here, FramePath, RemoveOps
  <2>2. CASE writer[q] # w
    <3>1. q = p /\ Wrlock(w, p) BY <2>2, <1>4, <1>5, <1>9
    <3>2. op[w] \notin ReadOps /\ frame[w] \in {"file", "father"}
      <4>1. ~(Rdlock(w, p) /\ UNCHANGED writer) BY <2>2, <3>1, <1>9
      <4>2. QED BY <4>1, <1>3 DEF Rdlock
    <3>3. QED BY <3>1, <3>2, <1>2 DEF MayOwn, KeepsPath, Here, FramePath, RemoveOps
  <2>3. QED BY <2>1, <2>2
<1>10. \A q \in Path : \A v \in Worker \ {w} : writer'[q] = v => writer[q] = v
  BY <1>4, <1>5
<1>11. QED BY <1>2, <1>6, <1>7, <1>9, <1>10, OthersOwn DEF LockInv

\* pthread_rwlock_unlock: after it the thread owns at most the path that a removal keeps,
\* whatever an unlock of somebody else's lock may do
LEMMA UnlockLocks ==
  ASSUME IInv, LockInv, NEW w \in Worker, Unlock(w) PROVE LockInv'
<1> DEFINE p == Here(w)
<1>1. TypeOK /\ FlowOf(w) /\ p \in Path BY HereIsPath DEF IInv, FollowsControl
<1>2. /\ pc[w] = "unlock" /\ OnlyMoves(w) /\ UNCHANGED <<table, op, path>>
      /\ \/ pc'[w] = "found" /\ frame'[w] = "reply" /\ op[w] = "getattr"
         \/ pc'[w] = "fin" /\ frame' = frame
  BY <1>1 DEF Unlock, At, Goto, Open, Answer, ReturnLeaking, TypeOK, OnlyMoves, tableVars
<1>3. RwUnlock(w, p) BY DEF Unlock, ReleaseLock
<1>4. \A q \in Path \ {p} : writer'[q] = writer[q] /\ readers'[q] = readers[q]
  BY <1>1, <1>3 DEF RwUnlock, TypeOK
<1>5. writer'[p] # w /\ writer'[p] \in {writer[p], NoWorker}
  BY <1>1, <1>3, ConfigAssumption DEF RwUnlock, TypeOK
<1>6. RootIsOnlyRead' BY <1>2 DEF LockInv, RootIsOnlyRead
<1>7. DestroyedUnlocked'
  <2>1. p \in table BY <1>2, HereInTable
  <2>2. QED BY <2>1, <1>2, <1>4 DEF LockInv, DestroyedUnlocked
<1>8. ASSUME NEW q \in Path, writer'[q] = w PROVE q \in MayOwn(w)'
  <2>1. q # p /\ writer[q] = w BY <1>4, <1>5, <1>8
  <2>2. q \in MayOwn(w) BY <2>1 DEF LockInv, OwnersFollow
  <2>3. QED BY <2>1, <2>2, <1>2 DEF MayOwn, KeepsPath, Here, FramePath, RemoveOps
<1>9. \A q \in Path : \A v \in Worker \ {w} : writer'[q] = v => writer[q] = v
  BY <1>4, <1>5, ConfigAssumption
<1>10. QED BY <1>2, <1>6, <1>7, <1>8, <1>9, OthersOwn DEF LockInv

\* open_file_finishHim: nobody reads the element that it may destroy, and the thread that
\* got its write lock did not own it before, so the lock was free
LEMMA FinishCountLocks ==
  ASSUME IInv, LockInv, NEW w \in Worker, FinishCount(w) PROVE LockInv'
<1> DEFINE p == Here(w)
<1>1. TypeOK /\ FlowOf(w) /\ p \in Path /\ p \in table BY HereIsPath, HereInTable DEF IInv, FollowsControl, FinishCount, At
<1>2. ref[w][frame[w]] = p BY HereInTable DEF FinishCount, At
<1>3. /\ pc[w] = "fin_wr" /\ UNCHANGED <<readers, op, path>> /\ WriteReturns(w, p)
      /\ writer' = [writer EXCEPT ![p] = NoWorker]
      /\ table' = IF count[p] = 1 THEN table \ {p} ELSE table
  BY <1>2 DEF FinishCount, WrlockUnlock, Uncount, At
<1>4. \/ pc'[w] = "found" /\ frame[w] = "file" /\ frame'[w] = "reply"
      \/ frame[w] = "list"
      \/ frame[w] = "father" /\ op[w] \in CreateOps
      \/ frame[w] = "father" /\ pc'[w] = "erase" /\ frame'[w] = "file"
      \/ frame[w] = "reply"
  BY <1>1, <1>3 DEF FinishCount, AfterFinish, FlowOf, Open, Answer, Goto, TypeOK, Frames
<1>5. OnlyMoves(w) BY <1>1 DEF FinishCount, AfterFinish, Open, Answer, Goto, TypeOK, OnlyMoves
<1>6. \A q \in Path : writer'[q] = IF q = p THEN NoWorker ELSE writer[q]
  BY <1>1, <1>3 DEF TypeOK
<1>7. MayOwn(w) \subseteq (IF op[w] = "removefile" /\ frame[w] = "father" THEN {path[w]} ELSE {})
  BY <1>3 DEF MayOwn, KeepsPath
<1>8. RootIsOnlyRead' BY <1>3 DEF LockInv, RootIsOnlyRead
<1>9. readers[p] = 0
  <2>1. p \notin MayOwn(w)
    <3>1. ASSUME op[w] = "removefile", frame[w] = "father" PROVE path[w] # p
      <4>1. path[w] # Root /\ path[w] \in Path
        BY <3>1, <1>1 DEF LockInv, RootIsOnlyRead, LockedReads, TypeOK
      <4>2. QED BY <3>1, <4>1, ConfigAssumption DEF Here, FramePath
    <3>2. QED BY <3>1, <1>7
  <2>2. writer[p] # w BY <2>1, <1>1 DEF LockInv, OwnersFollow
  <2>3. QED BY <2>2, <1>3 DEF WriteReturns
<1>10. DestroyedUnlocked' BY <1>3, <1>6, <1>9 DEF LockInv, DestroyedUnlocked
<1>11. ASSUME NEW q \in Path, writer'[q] = w PROVE q \in MayOwn(w)'
  <2>1. q # p /\ writer[q] = w BY <1>6, <1>11, ConfigAssumption
  <2>2. q = path[w] /\ op[w] = "removefile" /\ frame[w] = "father"
    BY <2>1, <1>7 DEF LockInv, OwnersFollow
  <2>3. pc'[w] = "erase" BY <2>2, <1>4 DEF CreateOps
  <2>4. QED BY <2>2, <2>3, <1>3 DEF MayOwn, KeepsPath, RemoveOps
<1>12. \A q \in Path : \A v \in Worker \ {w} : writer'[q] = v => writer[q] = v
  BY <1>6, ConfigAssumption
<1>13. QED BY <1>5, <1>8, <1>10, <1>11, <1>12, OthersOwn DEF LockInv

LEMMA InitLocks == Init => LockInv
<1> SUFFICES ASSUME Init PROVE LockInv OBVIOUS
<1>1. OwnersFollow BY ConfigAssumption DEF Init, OwnersFollow
<1>2. DestroyedUnlocked BY DEF Init, DestroyedUnlocked
<1>3. RootIsOnlyRead BY DEF Init, RootIsOnlyRead, LockedReads
<1>4. QED BY <1>1, <1>2, <1>3 DEF LockInv

LEMMA NextLocks == IInv /\ LockInv /\ [Next]_vars => LockInv'
<1> SUFFICES ASSUME IInv, LockInv, [Next]_vars PROVE LockInv' OBVIOUS
<1>1. ASSUME NEW w \in Worker, Take(w) \/ Step(w) PROVE LockInv'
  BY <1>1, QuietLocks, FoundOrAddLocks, FoundCountLocks, LockLocks, UnlockLocks,
     FinishCountLocks DEF Step
<1>2. CASE UNCHANGED vars
  BY <1>2 DEF vars, tableVars, lockVars, localVars, LockInv, OwnersFollow, DestroyedUnlocked,
              RootIsOnlyRead, MayOwn, KeepsPath, Here, FramePath
<1>3. QED BY <1>1, <1>2 DEF Next, Over

\* Who owns which lock for writing follows from where a thread is in ext2_operations.c.
THEOREM LocksFollow == Spec => []LockInv
<1>1. Init => LockInv BY InitLocks
<1>2. IInv /\ LockInv /\ [Next]_vars => LockInv' BY NextLocks
<1>3. QED BY <1>1, <1>2, Invariance, PTL DEF Spec

\* No lock outlives the one who took it or the element it guards, whatever is created and
\* removed under one name and whichever operations are refused: pthread_rwlock_destroy is
\* never called on a lock in use, and a worker that is back at the queue owns nothing.
THEOREM NoLockIsLeftBehind == Spec => []LocksAreGivenBack
<1>1. ASSUME IInv, LockInv PROVE LocksAreGivenBack
  <2>1. DestroyedUnlocked BY <1>1 DEF LockInv
  <2>2. ASSUME NEW w \in Worker, pc[w] = "idle"
        PROVE  /\ mutex # w
               /\ \A p \in Path : writer[p] # w
               /\ \A f \in Frames : ref[w][f] = NoPath
    <3>1. PointersOf(w) /\ FlowOf(w) /\ MutexOf(w) BY <1>1 DEF IInv, FollowsControl
    <3>2. mutex # w BY <2>2, <3>1 DEF MutexOf
    <3>3. MayOwn(w) = {} BY <2>2, <3>1 DEF FlowOf, MayOwn, KeepsPath
    <3>4. \A p \in Path : writer[p] # w BY <1>1, <3>3 DEF LockInv, OwnersFollow
    <3>5. \A f \in Frames : ref[w][f] = NoPath
      BY <2>2, <3>1 DEF FlowOf, PointersOf, HeldFrames
    <3>6. QED BY <3>2, <3>4, <3>5
  <2>3. QED BY <2>1, <2>2 DEF LocksAreGivenBack, IdleOwnsNothing
<1>2. QED BY <1>1, Invariance, LocksFollow, PTL

-----------------------------------------------------------------------------
(* Readers *)

\* w crosses the lock of its element: the others are where they were
LEMMA InsideMoved ==
  ASSUME TypeOK, NEW w \in Worker, OnlyMoves(w), NEW q \in Path
  PROVE  /\ \A v \in Worker \ {w} : v \in ReadersIn(q)' <=> v \in ReadersIn(q)
         /\ ReadersIn(q) \subseteq Worker /\ ReadersIn(q)' \subseteq Worker
         /\ w \in ReadersIn(q) <=> pc[w] \in {"body", "unlock"} /\ q = Here(w) /\ Shares(w)
BY DEF OnlyMoves, ReadersIn, Inside, Shares, Here, FramePath, TypeOK

\* no lock is taken, and w is inside as a reader after the step where it was before
LEMMA BoundKept ==
  ASSUME TypeOK, ReadersBound, NEW w \in Worker, OnlyMoves(w),
         \A p \in Path : readers'[p] = readers[p] /\ writer'[p] \in {writer[p], NoWorker},
         \A p \in Path : w \in ReadersIn(p)' <=> w \in ReadersIn(p)
  PROVE  ReadersBound'
<1>1. ASSUME NEW p \in Path PROVE ReadersIn(p)' = ReadersIn(p)
  <2>1. /\ \A v \in Worker \ {w} : v \in ReadersIn(p)' <=> v \in ReadersIn(p)
        /\ ReadersIn(p) \subseteq Worker /\ ReadersIn(p)' \subseteq Worker
    BY InsideMoved
  <2>2. w \in ReadersIn(p)' <=> w \in ReadersIn(p) OBVIOUS
  <2>3. QED BY <2>1, <2>2
<1>2. \A p \in Path : /\ readers[p] <= Cardinality(ReadersIn(p))
                      /\ writer[p] # NoWorker => readers[p] <= 0
  BY DEF ReadersBound
<1>3. \A p \in Path : /\ readers'[p] <= Cardinality(ReadersIn(p)')
                      /\ writer'[p] # NoWorker => readers'[p] <= 0
  BY <1>1, <1>2
<1>4. QED BY <1>3 DEF ReadersBound

\* the steps that take no lock and give none back; those that leave an element without the
\* unlock, or reach the unlock without the lock, are not readers
LEMMA QuietBound ==
  ASSUME IInv, ReadersBound, NEW w \in Worker,
         \/ Take(w) \/ WalkFault(w) \/ OutOfBlocks(w) \/ CheckNew(w) \/ LookupUnlocked(w) \/ TestRegular(w)
         \/ DataBody(w) \/ ListBody(w) \/ WriteInode(w) \/ RemoveFileBody(w) \/ AddEntry(w)
         \/ DeleteEntry(w) \/ FinishHim(w) \/ RecheckDir(w) \/ Erase(w)
  PROVE  ReadersBound'
<1> USE DEF tableVars, lockVars, diskVars, localVars, UntouchedByBody, At, Goto, Open, Answer,
        ReturnLeaking, Result, InBody
<1>1. TypeOK /\ FlowOf(w) BY DEF IInv, FollowsControl
<1>2. OnlyMoves(w) /\ UNCHANGED <<writer, readers>>
  BY <1>1 DEF Take, WalkFault, OutOfBlocks, CheckNew, LookupUnlocked, TestRegular, DataBody, ListBody, WriteInode,
     RemoveFileBody, AddEntry, DeleteEntry, FinishHim, RecheckDir, Erase, TypeOK, OnlyMoves
<1> DEFINE Reads == pc[w] \in {"body", "unlock"} /\ Shares(w)
<1>3. \/ ~Reads /\ ~Reads'
      \/ /\ pc[w] \in {"body", "unlock"} /\ pc'[w] \in {"body", "unlock"}
         /\ UNCHANGED <<frame, op, path>>
  <2>1. CASE Take(w) \/ CheckNew(w) \/ LookupUnlocked(w) \/ FinishHim(w) \/ RecheckDir(w)
    BY <1>1, <2>1 DEF Take, CheckNew, LookupUnlocked, FinishHim, RecheckDir, TypeOK
  <2>2. CASE WalkFault(w) \/ OutOfBlocks(w) BY <2>2 DEF WalkFault, OutOfBlocks, Shares
  <2>3. CASE DataBody(w) \/ ListBody(w) \/ WriteInode(w) \/ AddEntry(w) \/ DeleteEntry(w)
    BY <1>1, <2>3 DEF DataBody, ListBody, WriteInode, AddEntry, DeleteEntry, TypeOK
  <2>4. CASE TestRegular(w)
    <3>1. pc[w] = "test" /\ frame[w] = "file" /\ UNCHANGED <<frame, op>>
          /\ (pc'[w] = "unlock" => op[w] = "write") /\ pc'[w] # "body"
      BY <1>1, <2>4 DEF TestRegular, FlowOf, TypeOK
    <3>2. QED BY <3>1 DEF Shares, ReadOps, LockedReads
  <2>5. CASE RemoveFileBody(w)
    <3>1. /\ op[w] = "removefile" /\ frame[w] = "file" /\ UNCHANGED op
          /\ pc'[w] \in {"body", "unlock"} => UNCHANGED frame
      BY <1>1, <2>5 DEF RemoveFileBody, TypeOK
    <3>2. QED BY <3>1 DEF Shares, ReadOps, LockedReads
  <2>6. CASE Erase(w)
    <3>1. /\ pc[w] = "erase" /\ frame[w] = "file" /\ op[w] \in RemoveOps /\ UNCHANGED op
          /\ pc'[w] \in {"body", "unlock"} => UNCHANGED frame
      BY <1>1, <2>6 DEF Erase, FlowOf, TypeOK
    <3>2. QED BY <3>1 DEF Shares, ReadOps, LockedReads, RemoveOps
  <2>7. QED BY <2>1, <2>2, <2>3, <2>4, <2>5, <2>6
<1>4. \A p \in Path : w \in ReadersIn(p)' <=> w \in ReadersIn(p)
  BY <1>3 DEF ReadersIn, Inside, Shares, Here, FramePath
<1>5. QED BY <1>1, <1>2, <1>4, BoundKept

\* the table's own wrlock and unlock, and the lock of a new element, leave the readers
LEMMA TableBound ==
  ASSUME IInv, LockInv, ReadersBound, NEW w \in Worker,
         FoundOrAdd(w) \/ FoundCount(w) \/ FinishCount(w)
  PROVE  ReadersBound'
<1> USE DEF tableVars, lockVars, diskVars, localVars, At, Goto, Open, Answer
<1>1. TypeOK /\ Here(w) \in Path BY HereIsPath DEF IInv
<1>2. CASE FoundOrAdd(w)
  <2>1. OnlyMoves(w) /\ pc[w] = "found" /\ pc'[w] \notin {"body", "unlock"}
    BY <1>1, <1>2 DEF FoundOrAdd, TypeOK, OnlyMoves
  <2>2. \/ UNCHANGED <<writer, readers>>
        \/ /\ Here(w) \notin table
           /\ writer' = [writer EXCEPT ![Here(w)] = NoWorker]
           /\ readers' = [readers EXCEPT ![Here(w)] = 0]
    BY <1>2 DEF FoundOrAdd
  <2>3. \A p \in Path : writer'[p] = writer[p] /\ readers'[p] = readers[p]
    BY <1>1, <2>2 DEF TypeOK, LockInv, DestroyedUnlocked
  <2>4. \A p \in Path : w \notin ReadersIn(p) /\ w \notin ReadersIn(p)'
    BY <2>1 DEF ReadersIn, Inside
  <2>5. QED BY <1>1, <2>1, <2>3, <2>4, BoundKept
<1>3. CASE FoundCount(w) \/ FinishCount(w)
  <2>1. OnlyMoves(w) /\ pc[w] \in {"found_wr", "fin_wr"} /\ pc'[w] \notin {"body", "unlock"}
    BY <1>1, <1>3 DEF FoundCount, FinishCount, AfterFinish, TypeOK, OnlyMoves
  <2>2. WrlockUnlock(w, Here(w))
    <3>1. pc[w] = "fin_wr" => ref[w][frame[w]] = Here(w) BY HereInTable
    <3>2. QED BY <1>3, <3>1 DEF FoundCount, FinishCount
  <2>3. \A p \in Path : readers'[p] = readers[p] /\ writer'[p] \in {writer[p], NoWorker}
    BY <1>1, <2>2 DEF WrlockUnlock, TypeOK
  <2>4. \A p \in Path : w \notin ReadersIn(p) /\ w \notin ReadersIn(p)'
    BY <2>1 DEF ReadersIn, Inside
  <2>5. QED BY <1>1, <2>1, <2>3, <2>4, BoundKept
<1>4. QED BY <1>2, <1>3

\* a reader is inside once it is counted, and the writer comes when nobody is counted
LEMMA LockBound ==
  ASSUME IInv, ReadersBound, NEW w \in Worker, Lock(w) PROVE ReadersBound'
<1> DEFINE p == Here(w)
<1>1. TypeOK /\ p \in Path /\ op[w] \in Ops BY HereIsPath DEF IInv, TypeOK
<1>2. /\ pc[w] = "lock" /\ OnlyMoves(w) /\ UNCHANGED <<op, path>>
      /\ \/ ~Shares(w) /\ pc'[w] = "found"
         \/ frame' = frame /\ pc'[w] \in {"body", "unlock"}
  BY <1>1 DEF Lock, At, Goto, Open, TypeOK, OnlyMoves, Shares, ReadOps, LockedReads
<1>3. ASSUME NEW q \in Path
      PROVE  /\ ReadersIn(q)' = IF q = p /\ Shares(w) THEN ReadersIn(q) \cup {w} ELSE ReadersIn(q)
             /\ w \notin ReadersIn(q) /\ IsFiniteSet(ReadersIn(q))
             /\ readers[q] <= Cardinality(ReadersIn(q)) /\ readers[q] \in Int
             /\ writer[q] # NoWorker => readers[q] <= 0
             /\ Cardinality(ReadersIn(q)) \in Nat
  <2>1. w \notin ReadersIn(q) BY <1>2 DEF ReadersIn, Inside
  <2>2. w \in ReadersIn(q)' <=> q = p /\ Shares(w)
    BY <1>1, <1>2 DEF ReadersIn, Inside, Shares, Here, FramePath
  <2>3. /\ \A v \in Worker \ {w} : v \in ReadersIn(q)' <=> v \in ReadersIn(q)
        /\ ReadersIn(q) \subseteq Worker /\ ReadersIn(q)' \subseteq Worker
    BY <1>1, <1>2, InsideMoved
  <2>4. IsFiniteSet(ReadersIn(q)) BY <2>3, ConfigAssumption, FS_Subset
  <2>5. Cardinality(ReadersIn(q)) \in Nat BY <2>4, FS_CardinalityType
  <2>6. ReadersIn(q)' = IF q = p /\ Shares(w) THEN ReadersIn(q) \cup {w} ELSE ReadersIn(q)
    BY <2>1, <2>2, <2>3
  <2>7. /\ readers[q] <= Cardinality(ReadersIn(q)) /\ readers[q] \in Int
        /\ writer[q] # NoWorker => readers[q] <= 0
    BY <1>1 DEF ReadersBound, TypeOK
  <2>8. QED BY <2>1, <2>4, <2>5, <2>6, <2>7
<1>4. CASE Shares(w)
  <2>1. Rdlock(w, p) BY <1>4 DEF Lock, TakeLock, Shares
  <2>2. /\ writer' = writer
        /\ \A q \in Path : readers'[q] = IF q = p /\ writer[p] # w THEN readers[q] + 1 ELSE readers[q]
        /\ writer[p] \in {w, NoWorker}
    BY <2>1, <1>1 DEF Rdlock, TypeOK
  <2>3. Cardinality(ReadersIn(p) \cup {w}) = Cardinality(ReadersIn(p)) + 1
    BY <1>1, <1>3, FS_AddElement
  <2>4. ASSUME NEW q \in Path
        PROVE  readers'[q] <= Cardinality(ReadersIn(q)') /\ (writer'[q] # NoWorker => readers'[q] <= 0)
    <3>1. CASE q = p
      <4>1. Cardinality(ReadersIn(q)') = Cardinality(ReadersIn(q)) + 1 BY <1>3, <1>4, <2>3, <3>1
      <4>2. QED BY <1>3, <2>2, <3>1, <4>1
    <3>2. CASE q # p BY <1>3, <2>2, <3>2
    <3>3. QED BY <3>1, <3>2
  <2>5. QED BY <2>4 DEF ReadersBound
<1>5. CASE ~Shares(w)
  <2>1. Wrlock(w, p) BY <1>5 DEF Lock, TakeLock, Shares
  <2>2. /\ readers' = readers /\ (writer[p] = w \/ readers[p] = 0)
        /\ \A q \in Path : writer'[q] = IF q = p THEN w ELSE writer[q]
    BY <2>1, <1>1 DEF Wrlock, WriteReturns, TypeOK
  <2>3. ASSUME NEW q \in Path
        PROVE  readers'[q] <= Cardinality(ReadersIn(q)') /\ (writer'[q] # NoWorker => readers'[q] <= 0)
    <3>1. ReadersIn(q)' = ReadersIn(q) BY <1>3, <1>5
    <3>2. readers'[q] <= Cardinality(ReadersIn(q)') BY <1>3, <2>2, <3>1
    <3>3. writer'[q] # NoWorker => readers'[q] <= 0 BY <1>3, <2>2, ConfigAssumption
    <3>4. QED BY <3>2, <3>3
  <2>4. QED BY <2>3 DEF ReadersBound
<1>6. QED BY <1>4, <1>5

\* a reader that leaves does not own the lock for writing: it takes itself off the count, or
\* drops a writer when nobody is counted
LEMMA UnlockBound ==
  ASSUME IInv, LockInv, ReadersBound, NEW w \in Worker, Unlock(w) PROVE ReadersBound'
<1> PICK p : p = Here(w) OBVIOUS
<1>1. TypeOK /\ FlowOf(w) /\ p \in Path /\ op[w] \in Ops
  BY HereIsPath DEF IInv, FollowsControl, TypeOK
<1>2. pc[w] = "unlock" /\ RwUnlock(w, p) BY DEF Unlock, At, ReleaseLock
<1>3. OnlyMoves(w) /\ pc'[w] \notin {"body", "unlock"}
  BY <1>1 DEF Unlock, At, Goto, Open, Answer, ReturnLeaking, TypeOK, OnlyMoves
<1>4. ASSUME NEW q \in Path
      PROVE  /\ ReadersIn(q)' = ReadersIn(q) \ {w}
             /\ w \in ReadersIn(q) <=> q = p /\ Shares(w)
             /\ IsFiniteSet(ReadersIn(q)) /\ Cardinality(ReadersIn(q)) \in Nat
             /\ readers[q] <= Cardinality(ReadersIn(q)) /\ readers[q] \in Int
             /\ writer[q] # NoWorker => readers[q] <= 0
  <2>1. w \notin ReadersIn(q)' BY <1>3 DEF ReadersIn, Inside
  <2>2. /\ \A v \in Worker \ {w} : v \in ReadersIn(q)' <=> v \in ReadersIn(q)
        /\ ReadersIn(q) \subseteq Worker /\ ReadersIn(q)' \subseteq Worker
        /\ w \in ReadersIn(q) <=> q = p /\ Shares(w)
    BY <1>1, <1>2, <1>3, InsideMoved
  <2>3. IsFiniteSet(ReadersIn(q)) BY <2>2, ConfigAssumption, FS_Subset
  <2>4. Cardinality(ReadersIn(q)) \in Nat BY <2>3, FS_CardinalityType
  <2>5. ReadersIn(q)' = ReadersIn(q) \ {w} BY <2>1, <2>2
  <2>6. /\ readers[q] <= Cardinality(ReadersIn(q)) /\ readers[q] \in Int
        /\ writer[q] # NoWorker => readers[q] <= 0
    BY <1>1 DEF ReadersBound, TypeOK
  <2>7. QED BY <2>2, <2>3, <2>4, <2>5, <2>6
<1>5. ASSUME NEW q \in Path, q # p
      PROVE  /\ writer'[q] = writer[q] /\ readers'[q] = readers[q]
             /\ ReadersIn(q)' = ReadersIn(q)
  <2>1. writer'[q] = writer[q] /\ readers'[q] = readers[q]
    BY <1>1, <1>2, <1>5 DEF RwUnlock, TypeOK
  <2>2. ReadersIn(q)' = ReadersIn(q) BY <1>4, <1>5
  <2>3. QED BY <2>1, <2>2
<1>6. readers'[p] <= Cardinality(ReadersIn(p)') /\ (writer'[p] # NoWorker => readers'[p] <= 0)
  <2>1. CASE Shares(w)
    <3>1. p \notin MayOwn(w)
      BY <1>1, <1>2, <2>1 DEF MayOwn, KeepsPath, Shares, RemoveOps, ReadOps, LockedReads
    <3>2. writer[p] # w BY <1>1, <3>1 DEF LockInv, OwnersFollow
    <3>3. w \in ReadersIn(p) /\ IsFiniteSet(ReadersIn(p)) /\ ReadersIn(p)' = ReadersIn(p) \ {w}
      BY <1>1, <1>4, <2>1
    <3>4. /\ Cardinality(ReadersIn(p)') = Cardinality(ReadersIn(p)) - 1
          /\ Cardinality(ReadersIn(p)') \in Nat
      <4>1. Cardinality(ReadersIn(p) \ {w}) = Cardinality(ReadersIn(p)) - 1
        BY <3>3, FS_RemoveElement
      <4>2. Cardinality(ReadersIn(p) \ {w}) \in Nat BY <3>3, FS_RemoveElement, FS_CardinalityType
      <4>3. QED BY <3>3, <4>1, <4>2
    <3>5. CASE readers'[p] = readers[p] - 1 /\ writer'[p] = writer[p]
      BY <1>1, <1>4, <3>4, <3>5
    <3>6. CASE /\ readers'[p] = readers[p] /\ writer'[p] = NoWorker /\ writer[p] # NoWorker
      BY <1>1, <1>4, <3>4, <3>6
    <3>7. QED BY <1>1, <1>2, <3>2, <3>5, <3>6 DEF RwUnlock, TypeOK
  <2>2. CASE ~Shares(w)
    <3>1. ReadersIn(p)' = ReadersIn(p) \ {w} /\ w \notin ReadersIn(p) BY <1>1, <1>4, <2>2
    <3>2. /\ readers'[p] \in {readers[p], readers[p] - 1}
          /\ writer'[p] \in {writer[p], NoWorker}
      BY <1>1, <1>2 DEF RwUnlock, TypeOK
    <3>3. ReadersIn(p)' = ReadersIn(p) BY <3>1
    <3>4. QED BY <1>1, <1>4, <3>2, <3>3
  <2>3. QED BY <2>1, <2>2
<1>7. ASSUME NEW q \in Path
      PROVE  readers'[q] <= Cardinality(ReadersIn(q)') /\ (writer'[q] # NoWorker => readers'[q] <= 0)
  <2>1. CASE q = p BY <1>6, <2>1
  <2>2. CASE q # p BY <1>4, <1>5, <2>2
  <2>3. QED BY <2>1, <2>2
<1>8. QED BY <1>7 DEF ReadersBound

LEMMA BoundNext == IInv /\ LockInv /\ ReadersBound /\ [Next]_vars => ReadersBound'
<1> SUFFICES ASSUME IInv, LockInv, ReadersBound, [Next]_vars PROVE ReadersBound' OBVIOUS
<1>1. ASSUME NEW w \in Worker, Take(w) \/ Step(w) PROVE ReadersBound'
  BY <1>1, QuietBound, TableBound, LockBound, UnlockBound DEF Step
<1>2. CASE UNCHANGED vars
  BY <1>2 DEF vars, lockVars, localVars, ReadersBound, ReadersIn, Inside, Shares, Here, FramePath
<1>3. QED BY <1>1, <1>2 DEF Next, Over

\* The lock of an element counts no reader who is not inside it, and none while somebody owns
\* it for writing, although a write and an unlink may give back what they did not take.
THEOREM ReadersAreInside == Spec => []ReadersBound
<1>1. Init => ReadersBound
  <2> SUFFICES ASSUME Init, NEW p \in Path
               PROVE  readers[p] <= Cardinality(ReadersIn(p)) /\ (writer[p] # NoWorker => readers[p] <= 0)
    BY DEF ReadersBound
  <2>1. ReadersIn(p) = {} BY DEF Init, ReadersIn, Inside
  <2>2. readers[p] = 0 BY DEF Init
  <2>3. QED BY <2>1, <2>2, FS_EmptySet
<1>2. QED BY <1>1, BoundNext, Invariance, LocksFollow, PTL DEF Spec

\* When every busy thread is blocked, a removal asks for the list mutex while it owns its
\* path's lock, or an unlock took away a reader that was not there; nothing else can close a
\* cycle.  Otherwise whoever is waited for would be an unlink that waits for the lock of its
\* father, whose owner is an unlink that waits for the father of the father, up to the root,
\* which no removal owns.
THEOREM CyclesNeedRemovals == Spec => []StuckOnlyThroughRemovals
<1>1. ASSUME IInv, LockInv, ReadersBound, Stuck,
             \A w \in Worker : op[w] \in RemoveOps /\ pc[w] \in {"found", "fin"}
                               /\ frame[w] # "file" => writer[path[w]] # w,
             \A p \in Path : ~(readers[p] < 0)
      PROVE  FALSE
  <2>1. /\ TypeOK
        /\ \A w \in Worker : FlowOf(w) /\ MutexOf(w) /\ Here(w) \in Path
    BY <1>1, HereIsPath DEF IInv, FollowsControl
  <2>2. \A w \in Worker : pc[w] # "idle" =>
          Blocked(w) /\ pc[w] \in {"found", "fin", "found_wr", "fin_wr", "lock"}
    BY <1>1 DEF Stuck, Blocked
  <2>3. \A p \in Path : readers[p] = 0
    <3> SUFFICES ASSUME NEW p \in Path PROVE readers[p] = 0 OBVIOUS
    <3>1. ReadersIn(p) = {} BY <2>2 DEF ReadersIn, Inside
    <3>2. readers[p] <= 0 BY <1>1, <3>1, FS_EmptySet DEF ReadersBound
    <3>3. readers[p] \in Int BY <2>1 DEF TypeOK
    <3>4. QED BY <1>1, <3>2, <3>3
  <2>4. \A w \in Worker : pc[w] \in {"found_wr", "fin_wr", "lock"} => writer[Here(w)] \notin {w, NoWorker}
    BY <2>1, <2>2, <2>3 DEF Blocked, WriteReturns
  <2>5. ASSUME NEW v \in Worker, NEW p \in Path, writer[p] = v
        PROVE  /\ p = path[v] /\ op[v] = "removefile" /\ frame[v] = "father"
               /\ pc[v] \in {"found_wr", "fin_wr", "lock"}
    <3>1. p \in MayOwn(v) BY <1>1, <2>5 DEF LockInv, OwnersFollow
    <3>2. pc[v] \in {"idle", "found", "fin", "found_wr", "fin_wr", "lock"} BY <2>2
    <3>3. KeepsPath(v) /\ p = path[v] BY <3>1, <3>2 DEF MayOwn
    <3>4. pc[v] # "idle" BY <2>1, <3>3 DEF FlowOf, KeepsPath
    <3>5. frame[v] # "file" /\ op[v] \in RemoveOps BY <3>2, <3>3 DEF KeepsPath
    <3>6. pc[v] \in {"found_wr", "fin_wr", "lock"} BY <1>1, <2>5, <3>2, <3>3, <3>4, <3>5
    <3>7. ~(frame[v] \in {"list", "reply"} /\ pc[v] = "found_wr")
      BY <2>4, <2>5, <3>3 DEF Here, FramePath
    <3>8. QED BY <3>2, <3>3, <3>6, <3>7 DEF KeepsPath
  <2> DEFINE Owned == {p \in Path : writer[p] # NoWorker}
  <2>6. ASSUME NEW p \in Owned PROVE p # Root /\ Father[p] \in Owned
    <3>1. PICK v \in Worker : writer[p] = v BY <2>1, <2>6 DEF TypeOK
    <3>2. p = path[v] /\ op[v] = "removefile" /\ Here(v) = Father[p] /\ writer[Here(v)] # NoWorker
      BY <2>4, <2>5, <3>1 DEF Here, FramePath
    <3>3. p # Root BY <1>1, <3>2 DEF LockInv, RootIsOnlyRead, LockedReads
    <3>4. QED BY <2>1, <3>2, <3>3
  <2>7. Owned = {}
    <3>1. Owned \in SUBSET (Path \ {Root}) BY <2>6
    <3>2. QED BY <2>6, <3>1, PathsAssumption
  <2>8. PICK w \in Worker : pc[w] # "idle" BY <1>1 DEF Stuck
  <2>9. \A v \in Worker : pc[v] \notin {"found_wr", "fin_wr", "lock"} BY <2>1, <2>4, <2>7
  <2>10. mutex # NoWorker BY <2>2, <2>8, <2>9 DEF Blocked
  <2>11. mutex \in Worker BY <2>1, <2>10 DEF TypeOK
  <2>12. pc[mutex] \in {"found_wr", "fin_wr"} BY <2>1, <2>11 DEF MutexOf
  <2>13. QED BY <2>9, <2>11, <2>12
<1>2. IInv /\ LockInv /\ ReadersBound => StuckOnlyThroughRemovals
  BY <1>1 DEF StuckOnlyThroughRemovals
<1>3. QED BY <1>2, Invariance, LocksFollow, ReadersAreInside, PTL

-----------------------------------------------------------------------------
(* What is written stays *)

\* a request in work is one that was taken
LEMMA TakenNext ==
  ASSUME TypeOK, TakenFromRequests, [Next]_vars PROVE TakenFromRequests'
<1> USE DEF tableVars, lockVars, diskVars, localVars, UntouchedByBody, At, Goto, Open, Answer,
        ReturnLeaking, Result, InBody
<1>1. ASSUME NEW w \in Worker, Take(w) PROVE TakenFromRequests'
  <2>1. PICK r \in Requests : /\ op' = [op EXCEPT ![w] = r.op] /\ path' = [path EXCEPT ![w] = r.path]
    BY <1>1 DEF Take
  <2>2. r = [op |-> r.op, path |-> r.path] BY ConfigAssumption
  <2>3. op'[w] = r.op /\ path'[w] = r.path BY <2>1 DEF TypeOK
  <2>4. \A v \in Worker \ {w} : pc'[v] = pc[v] /\ op'[v] = op[v] /\ path'[v] = path[v]
    BY <1>1 DEF Take, TypeOK
  <2>5. QED BY <2>2, <2>3, <2>4 DEF TakenFromRequests
<1>2. ASSUME NEW w \in Worker, Step(w) PROVE TakenFromRequests'
  <2>1. op' = op /\ path' = path /\ pc[w] # "idle" /\ \A v \in Worker \ {w} : pc'[v] = pc[v]
    <3>1. CASE \/ CheckNew(w) \/ FoundOrAdd(w) \/ FoundCount(w) \/ LookupUnlocked(w)
               \/ TestRegular(w) \/ Lock(w)
      BY <3>1 DEF CheckNew, FoundOrAdd, FoundCount, LookupUnlocked, TestRegular, Lock, TypeOK
    <3>2. CASE \/ DataBody(w) \/ ListBody(w) \/ WriteInode(w) \/ RemoveFileBody(w)
               \/ AddEntry(w) \/ DeleteEntry(w)
      BY <3>2 DEF DataBody, ListBody, WriteInode, RemoveFileBody, AddEntry, DeleteEntry, TypeOK
    <3>3. CASE Unlock(w) \/ FinishHim(w) \/ RecheckDir(w) \/ Erase(w)
      BY <3>3 DEF Unlock, FinishHim, RecheckDir, Erase, TypeOK
    <3>4. CASE FinishCount(w) BY <3>4 DEF FinishCount, AfterFinish, TypeOK
    <3>5. CASE WalkFault(w) \/ OutOfBlocks(w) BY <3>5 DEF WalkFault, OutOfBlocks, LooksUp
    <3>6. QED BY <1>2, <3>1, <3>2, <3>3, <3>4, <3>5 DEF Step
  <2>2. QED BY <2>1 DEF TakenFromRequests
<1>3. CASE UNCHANGED vars BY <1>3 DEF vars, TakenFromRequests
<1>4. QED BY <1>1, <1>2, <1>3 DEF Next, Over

\* the files to be written stay regular files
LEMMA RegularNext ==
  ASSUME WrittenStay, IInv, TakenFromRequests, WrittenAreRegular, [Next]_vars
  PROVE  WrittenAreRegular'
<1> USE DEF tableVars, lockVars, diskVars, localVars, UntouchedByBody, At, Goto, Open, Answer,
        ReturnLeaking, Result, InBody
<1> TypeOK BY DEF IInv
<1>1. ASSUME NEW w \in Worker, Take(w) \/ Step(w) PROVE WrittenAreRegular'
  <2>1. FlowOf(w) BY DEF IInv, FollowsControl
  <2>2. CASE inode' = inode BY <2>2 DEF WrittenAreRegular
  <2>3. CASE WriteInode(w) \/ Erase(w)
    <3>1. pc[w] # "idle" BY <2>3 DEF WriteInode, Erase
    <3>2. [op |-> op[w], path |-> path[w]] \in Requests BY <3>1 DEF TakenFromRequests
    <3>3. inode' = inode \/ \E k \in Kinds : /\ inode' = [inode EXCEPT ![path[w]] = k]
                                             /\ k = "reg" \/ op[w] \in RemoveOps \cup {"mkdir"}
      BY <2>1, <2>3 DEF WriteInode, Erase, FlowOf, Kinds, CreateOps
    <3>4. ASSUME NEW r \in Requests, r.op = "write" PROVE inode'[r.path] = "reg"
      <4>1. r.path \in Path /\ inode[r.path] = "reg" BY <3>4, ConfigAssumption DEF WrittenAreRegular
      <4>2. path[w] = r.path => op[w] \notin RemoveOps \cup {"mkdir"}
        BY <3>2, <3>4 DEF WrittenStay
      <4>3. QED BY <3>3, <4>1, <4>2 DEF TypeOK
    <3>5. QED BY <3>4 DEF WrittenAreRegular
  <2>4. inode' = inode \/ WriteInode(w) \/ Erase(w)
    <3>1. CASE FinishCount(w) BY <3>1 DEF FinishCount
    <3>2. QED BY <1>1, <3>1
          DEF Step, Take, WalkFault, OutOfBlocks, CheckNew, FoundOrAdd, FoundCount, LookupUnlocked, TestRegular,
              Lock, DataBody, ListBody, RemoveFileBody, AddEntry, DeleteEntry, Unlock, FinishHim,
              RecheckDir
  <2>5. QED BY <2>2, <2>3, <2>4
<1>2. CASE UNCHANGED vars BY <1>2 DEF vars, WrittenAreRegular
<1>3. QED BY <1>1, <1>2 DEF Next, Over

\* what the others must own is what it was
LEMMA OthersMustOwn ==
  ASSUME NEW w \in Worker, OnlyMoves(w) PROVE \A v \in Worker \ {w} : MustOwn(v)' = MustOwn(v)
BY DEF OnlyMoves, MustOwn, Shares, Here, FramePath

\* what a thread must own it may own, and it is not the father of a file that is removed
LEMMA MustIsMay ==
  ASSUME TypeOK, RootIsOnlyRead, NEW w \in Worker
  PROVE  /\ MustOwn(w) \subseteq MayOwn(w)
         /\ op[w] = "removefile" /\ frame[w] = "father" => path[w] # Here(w)
<1>1. MustOwn(w) \subseteq MayOwn(w)
  BY DEF MustOwn, MayOwn, KeepsPath, Shares, RemoveOps, TypeOK, Frames
<1>2. ASSUME op[w] = "removefile", frame[w] = "father" PROVE path[w] # Here(w)
  <2>1. path[w] # Root /\ path[w] \in Path BY <1>2 DEF RootIsOnlyRead, LockedReads, TypeOK
  <2>2. QED BY <1>2, <2>1, ConfigAssumption DEF Here, FramePath
<1>3. QED BY <1>1, <1>2

\* no lock changes hands, and w must own no more than before
LEMMA ExactKept ==
  ASSUME TypeOK, LocksExact, NEW w \in Worker, OnlyMoves(w),
         \A p \in Path : writer'[p] = writer[p] /\ readers'[p] = readers[p],
         \A p \in Path : w \in ReadersIn(p)' <=> w \in ReadersIn(p),
         MustOwn(w)' \subseteq MustOwn(w)
  PROVE  LocksExact'
<1>1. ASSUME NEW p \in Path PROVE ReadersIn(p)' = ReadersIn(p)
  <2>1. /\ \A v \in Worker \ {w} : v \in ReadersIn(p)' <=> v \in ReadersIn(p)
        /\ ReadersIn(p) \subseteq Worker /\ ReadersIn(p)' \subseteq Worker
    BY InsideMoved
  <2>2. w \in ReadersIn(p)' <=> w \in ReadersIn(p) OBVIOUS
  <2>3. QED BY <2>1, <2>2
<1>2. \A v \in Worker : MustOwn(v)' \subseteq MustOwn(v) BY OthersMustOwn
<1>3. \A p \in Path : /\ readers[p] = Cardinality(ReadersIn(p))
                      /\ \A v \in Worker : p \in MustOwn(v) => writer[p] = v
                      /\ writer[p] # NoWorker => readers[p] = 0
  BY DEF LocksExact
<1>4. \A p \in Path : /\ readers'[p] = Cardinality(ReadersIn(p)')
                      /\ \A v \in Worker : p \in MustOwn(v)' => writer'[p] = v
                      /\ writer'[p] # NoWorker => readers'[p] = 0
  BY <1>1, <1>2, <1>3
<1>5. QED BY <1>4 DEF LocksExact

\* the steps that take no lock and give none back: since what is written is a regular file,
\* no write goes to its unlock without the lock
LEMMA QuietExact ==
  ASSUME IInv, LockInv, TakenFromRequests, WrittenAreRegular, LocksExact, NEW w \in Worker,
         \/ Take(w) \/ WalkFault(w) \/ OutOfBlocks(w) \/ CheckNew(w) \/ LookupUnlocked(w) \/ TestRegular(w)
         \/ DataBody(w) \/ ListBody(w) \/ WriteInode(w) \/ RemoveFileBody(w) \/ AddEntry(w)
         \/ DeleteEntry(w) \/ FinishHim(w) \/ RecheckDir(w) \/ Erase(w)
  PROVE  LocksExact'
<1> USE DEF tableVars, lockVars, diskVars, localVars, UntouchedByBody, At, Goto, Open, Answer,
        ReturnLeaking, Result, InBody
<1>1. TypeOK /\ FlowOf(w) BY DEF IInv, FollowsControl
<1>2. OnlyMoves(w) /\ UNCHANGED <<writer, readers>>
  BY <1>1 DEF Take, WalkFault, OutOfBlocks, CheckNew, LookupUnlocked, TestRegular, DataBody, ListBody, WriteInode,
     RemoveFileBody, AddEntry, DeleteEntry, FinishHim, RecheckDir, Erase, TypeOK, OnlyMoves
<1> DEFINE Inner == {"body", "unlock"}
           Reads == pc[w] \in Inner /\ Shares(w)
<1>3. \/ pc[w] = "idle" /\ pc'[w] \notin Inner \cup {"erase"} /\ frame'[w] = "file"
      \/ /\ pc[w] \notin Inner \cup {"erase"} /\ pc'[w] \notin Inner \cup {"erase"} /\ UNCHANGED <<op, path>>
         /\ UNCHANGED frame \/ op[w] # "removefile"
      \/ pc[w] \in Inner /\ pc'[w] \in Inner /\ UNCHANGED <<frame, op, path>>
      \/ UNCHANGED <<pc, frame, op, path>>
      \/ /\ op[w] = "removefile" /\ frame[w] = "file" /\ pc[w] = "body"
         /\ UNCHANGED <<op, path>> /\ pc'[w] = "found" /\ frame'[w] \in {"father", "reply"}
      \/ /\ op[w] \in RemoveOps /\ frame[w] = "file" /\ pc[w] = "erase" /\ UNCHANGED <<op, path>>
         /\ \/ pc'[w] = "found" /\ frame'[w] = "reply"
            \/ pc'[w] = "unlock" /\ frame'[w] = "file" /\ op[w] = "removefile"
            \/ pc'[w] = "fin" /\ frame'[w] = "file"
  <2>1. CASE Take(w) BY <1>1, <2>1 DEF Take, TypeOK
  <2>2. CASE CheckNew(w) \/ LookupUnlocked(w) \/ FinishHim(w) \/ RecheckDir(w)
    BY <1>1, <2>2 DEF CheckNew, LookupUnlocked, FinishHim, RecheckDir, FlowOf, CreateOps, TypeOK
  <2>3. CASE WalkFault(w) \/ OutOfBlocks(w) BY <2>3 DEF WalkFault, OutOfBlocks
  <2>4. CASE DataBody(w) \/ ListBody(w) \/ WriteInode(w) \/ AddEntry(w) \/ DeleteEntry(w)
    BY <1>1, <2>4 DEF DataBody, ListBody, WriteInode, AddEntry, DeleteEntry, TypeOK
  <2>5. CASE TestRegular(w)
    <3>1. op[w] = "write" => inode[path[w]] = "reg"
      BY <2>5 DEF TestRegular, TakenFromRequests, WrittenAreRegular
    <3>2. QED BY <1>1, <2>5, <3>1 DEF TestRegular, TypeOK
  <2>6. CASE RemoveFileBody(w) BY <1>1, <2>6 DEF RemoveFileBody, TypeOK
  <2>7. CASE Erase(w) BY <1>1, <2>7 DEF Erase, FlowOf, TypeOK
  <2>8. QED BY <2>1, <2>2, <2>3, <2>4, <2>5, <2>6, <2>7
<1>4. \A p \in Path : w \in ReadersIn(p)' <=> w \in ReadersIn(p)
  BY <1>3 DEF ReadersIn, Inside, Shares, Here, FramePath, ReadOps, LockedReads, RemoveOps
<1>5. MustOwn(w)' \subseteq MustOwn(w)
  BY <1>1, <1>3 DEF MustOwn, FlowOf, Shares, Here, FramePath, ReadOps, LockedReads, RemoveOps
<1>6. QED BY <1>1, <1>2, <1>4, <1>5, ExactKept

\* the table's own wrlock and unlock find the lock free, and a new element has the lock that
\* the destroyed one had
LEMMA TableExact ==
  ASSUME IInv, LockInv, LocksExact, NEW w \in Worker, FoundOrAdd(w) \/ FoundCount(w) \/ FinishCount(w)
  PROVE  LocksExact'
<1> USE DEF tableVars, lockVars, diskVars, localVars, At, Goto, Open, Answer
<1>1. TypeOK /\ FlowOf(w) /\ RootIsOnlyRead /\ Here(w) \in Path
  BY HereIsPath DEF IInv, FollowsControl, LockInv
<1>2. CASE FoundOrAdd(w)
  <2>1. /\ OnlyMoves(w) /\ pc[w] = "found" /\ pc'[w] \notin {"body", "unlock", "erase"}
        /\ UNCHANGED <<frame, op, path>>
    BY <1>1, <1>2 DEF FoundOrAdd, TypeOK, OnlyMoves
  <2>2. \/ UNCHANGED <<writer, readers>>
        \/ /\ Here(w) \notin table
           /\ writer' = [writer EXCEPT ![Here(w)] = NoWorker]
           /\ readers' = [readers EXCEPT ![Here(w)] = 0]
    BY <1>2 DEF FoundOrAdd
  <2>3. \A p \in Path : writer'[p] = writer[p] /\ readers'[p] = readers[p]
    BY <1>1, <2>2 DEF TypeOK, LockInv, DestroyedUnlocked
  <2>4. \A p \in Path : w \notin ReadersIn(p) /\ w \notin ReadersIn(p)'
    BY <2>1 DEF ReadersIn, Inside
  <2>5. MustOwn(w)' \subseteq MustOwn(w) BY <2>1 DEF MustOwn
  <2>6. QED BY <1>1, <2>1, <2>3, <2>4, <2>5, ExactKept
<1>3. CASE FoundCount(w) \/ FinishCount(w)
  <2>1. /\ OnlyMoves(w) /\ pc[w] \in {"found_wr", "fin_wr"} /\ pc'[w] \notin {"body", "unlock"}
        /\ UNCHANGED <<op, path>>
        /\ \/ UNCHANGED frame /\ pc'[w] # "erase"
           \/ frame[w] = "father" /\ frame'[w] = "father" /\ pc'[w] # "erase"
           \/ frame[w] = "father" /\ op[w] \in CreateOps
           \/ frame[w] = "father" /\ frame'[w] = "file" /\ pc'[w] = "erase"
           \/ frame[w] = "file" /\ frame'[w] = "reply" /\ pc'[w] # "erase"
    <3>1. CASE FoundCount(w) BY <1>1, <3>1 DEF FoundCount, TypeOK, OnlyMoves
    <3>2. CASE FinishCount(w)
      BY <1>1, <3>2 DEF FinishCount, AfterFinish, FlowOf, CreateOps, RemoveOps, TypeOK, OnlyMoves
    <3>3. QED BY <1>3, <3>1, <3>2
  <2>2. WrlockUnlock(w, Here(w))
    <3>1. pc[w] = "fin_wr" => ref[w][frame[w]] = Here(w) BY HereInTable
    <3>2. QED BY <1>3, <3>1 DEF FoundCount, FinishCount
  <2>3. \A p \in Path : readers'[p] = readers[p] /\ writer'[p] = IF p = Here(w) THEN NoWorker ELSE writer[p]
    BY <1>1, <2>2 DEF WrlockUnlock, TypeOK
  <2>4. \A p \in Path : w \notin ReadersIn(p) /\ w \notin ReadersIn(p)'
    BY <2>1 DEF ReadersIn, Inside
  <2>5. MustOwn(w)' \subseteq MustOwn(w) BY <2>1 DEF MustOwn, CreateOps
  <2>6. \A v \in Worker : Here(w) \notin MustOwn(v)
    <3>1. Here(w) \notin MustOwn(w) BY <1>1, <2>1, MustIsMay DEF MustOwn
    <3>2. writer[Here(w)] \in {w, NoWorker} BY <2>2 DEF WrlockUnlock, WriteReturns
    <3>3. QED BY <1>1, <3>1, <3>2, ConfigAssumption DEF LocksExact
  <2>7. \A v \in Worker : MustOwn(v)' \subseteq MustOwn(v) BY <2>1, <2>5, OthersMustOwn
  <2>8. ASSUME NEW p \in Path PROVE ReadersIn(p)' = ReadersIn(p)
    <3>1. /\ \A v \in Worker \ {w} : v \in ReadersIn(p)' <=> v \in ReadersIn(p)
          /\ ReadersIn(p) \subseteq Worker /\ ReadersIn(p)' \subseteq Worker
      BY <1>1, <2>1, InsideMoved
    <3>2. QED BY <2>4, <3>1
  <2>9. \A p \in Path : /\ readers[p] = Cardinality(ReadersIn(p))
                        /\ \A v \in Worker : p \in MustOwn(v) => writer[p] = v
                        /\ writer[p] # NoWorker => readers[p] = 0
    BY DEF LocksExact
  <2>10. \A p \in Path : readers'[p] = Cardinality(ReadersIn(p)') BY <2>3, <2>8, <2>9
  <2> PICK here : here = Here(w) OBVIOUS
  <2>11. ASSUME NEW p \in Path, NEW v \in Worker, p \in MustOwn(v)' PROVE writer'[p] = v
    <3>1. p \in MustOwn(v) BY <2>7, <2>11
    <3>2. p # here BY <2>6, <3>1
    <3>3. QED BY <2>3, <2>9, <3>1, <3>2
  <2>12. \A p \in Path : writer'[p] # NoWorker => readers'[p] = 0 BY <2>3, <2>9
  <2>13. QED BY <2>10, <2>11, <2>12 DEF LocksExact
<1>4. QED BY <1>2, <1>3

\* pthread_rwlock_rdlock and wrlock let w in when the lock says so
LEMMA LockExact ==
  ASSUME IInv, LockInv, LocksExact, NEW w \in Worker, Lock(w) PROVE LocksExact'
<1> PICK p : p = Here(w) OBVIOUS
<1>1. TypeOK /\ FlowOf(w) /\ RootIsOnlyRead /\ p \in Path /\ op[w] \in Ops /\ frame[w] \in Frames
  BY HereIsPath DEF IInv, FollowsControl, LockInv, TypeOK
<1>2. /\ pc[w] = "lock" /\ OnlyMoves(w) /\ UNCHANGED <<op, path>>
      /\ \/ ~Shares(w) /\ op[w] = "removedir" /\ pc'[w] = "found"
         \/ frame' = frame /\ pc'[w] \in {"body", "unlock"}
  BY <1>1 DEF Lock, At, Goto, Open, TypeOK, OnlyMoves, Shares, ReadOps, LockedReads
<1>3. writer[p] # w
  <2>1. p \notin MayOwn(w) BY <1>1, <1>2, MustIsMay DEF MayOwn, KeepsPath
  <2>2. QED BY <1>1, <2>1 DEF LockInv, OwnersFollow
<1>4. ASSUME NEW q \in Path
      PROVE  /\ ReadersIn(q)' = IF q = p /\ Shares(w) THEN ReadersIn(q) \cup {w} ELSE ReadersIn(q)
             /\ w \notin ReadersIn(q) /\ IsFiniteSet(ReadersIn(q))
  <2>1. w \notin ReadersIn(q) BY <1>2 DEF ReadersIn, Inside
  <2>2. w \in ReadersIn(q)' <=> q = p /\ Shares(w)
    BY <1>1, <1>2 DEF ReadersIn, Inside, Shares, Here, FramePath
  <2>3. /\ \A v \in Worker \ {w} : v \in ReadersIn(q)' <=> v \in ReadersIn(q)
        /\ ReadersIn(q) \subseteq Worker /\ ReadersIn(q)' \subseteq Worker
    BY <1>1, <1>2, InsideMoved
  <2>4. IsFiniteSet(ReadersIn(q)) BY <2>3, ConfigAssumption, FS_Subset
  <2>5. ReadersIn(q)' = IF q = p /\ Shares(w) THEN ReadersIn(q) \cup {w} ELSE ReadersIn(q)
    BY <2>1, <2>2, <2>3
  <2>6. QED BY <2>1, <2>4, <2>5
<1>5. MustOwn(w)' \subseteq MustOwn(w) \cup (IF Shares(w) THEN {} ELSE {p})
  BY <1>1, <1>2 DEF MustOwn, Shares, Here, FramePath
<1>6. /\ \A q \in Path : /\ readers[q] = Cardinality(ReadersIn(q)) /\ readers[q] \in Int
                         /\ writer[q] # NoWorker => readers[q] = 0
      /\ \A q \in Path, v \in Worker : q \in MustOwn(v) => writer[q] = v
  BY <1>1 DEF LocksExact, TypeOK
<1>7. CASE Shares(w)
  <2>1. Rdlock(w, p) BY <1>7 DEF Lock, TakeLock, Shares
  <2>2. /\ writer[p] = NoWorker /\ writer' = writer
        /\ \A q \in Path : readers'[q] = IF q = p THEN readers[q] + 1 ELSE readers[q]
    BY <2>1, <1>1, <1>3 DEF Rdlock, TypeOK
  <2>3. Cardinality(ReadersIn(p) \cup {w}) = Cardinality(ReadersIn(p)) + 1
    BY <1>1, <1>4, FS_AddElement
  <2>4. ASSUME NEW q \in Path PROVE readers'[q] = Cardinality(ReadersIn(q)')
    <3>1. CASE q = p BY <1>4, <1>6, <1>7, <2>2, <2>3, <3>1
    <3>2. CASE q # p BY <1>4, <1>6, <2>2, <3>2
    <3>3. QED BY <3>1, <3>2
  <2>5. \A v \in Worker : MustOwn(v)' \subseteq MustOwn(v) BY <1>2, <1>5, <1>7, OthersMustOwn
  <2>6. \A q \in Path : \A v \in Worker : q \in MustOwn(v)' => writer'[q] = v BY <1>6, <2>2, <2>5
  <2>7. \A q \in Path : writer'[q] # NoWorker => readers'[q] = 0 BY <1>6, <2>2
  <2>8. QED BY <2>4, <2>6, <2>7 DEF LocksExact
<1>8. CASE ~Shares(w)
  <2>1. Wrlock(w, p) BY <1>8 DEF Lock, TakeLock, Shares
  <2>2. /\ writer[p] = NoWorker /\ readers[p] = 0 /\ readers' = readers
        /\ \A q \in Path : writer'[q] = IF q = p THEN w ELSE writer[q]
    BY <2>1, <1>1, <1>3 DEF Wrlock, WriteReturns, TypeOK
  <2>3. \A q \in Path : readers'[q] = Cardinality(ReadersIn(q)') BY <1>4, <1>6, <1>8, <2>2
  <2>4. ASSUME NEW q \in Path, NEW v \in Worker, q \in MustOwn(v)' PROVE writer'[q] = v
    <3>1. CASE v = w BY <1>5, <1>6, <1>8, <2>2, <2>4, <3>1
    <3>2. CASE v # w
      <4>1. q \in MustOwn(v) BY <1>2, <2>4, <3>2, OthersMustOwn
      <4>2. QED BY <1>6, <2>2, <4>1, ConfigAssumption
    <3>3. QED BY <3>1, <3>2
  <2>5. \A q \in Path : writer'[q] # NoWorker => readers'[q] = 0 BY <1>6, <2>2
  <2>6. QED BY <2>3, <2>4, <2>5 DEF LocksExact
<1>9. QED BY <1>7, <1>8

\* pthread_rwlock_unlock gives back what w took
LEMMA UnlockExact ==
  ASSUME IInv, LockInv, LocksExact, NEW w \in Worker, Unlock(w) PROVE LocksExact'
<1> PICK p : p = Here(w) OBVIOUS
<1>1. TypeOK /\ FlowOf(w) /\ RootIsOnlyRead /\ p \in Path /\ op[w] \in Ops
  BY HereIsPath DEF IInv, FollowsControl, LockInv, TypeOK
<1>2. pc[w] = "unlock" /\ RwUnlock(w, p) BY DEF Unlock, At, ReleaseLock
<1>3. /\ OnlyMoves(w) /\ UNCHANGED <<op, path>> /\ pc'[w] \notin {"body", "unlock", "erase"}
      /\ frame'[w] = "father" => frame[w] = "father"
  BY <1>1 DEF Unlock, At, Goto, Open, Answer, ReturnLeaking, TypeOK, OnlyMoves
<1>4. ASSUME NEW q \in Path
      PROVE  /\ ReadersIn(q)' = ReadersIn(q) \ {w}
             /\ w \in ReadersIn(q) <=> q = p /\ Shares(w)
             /\ IsFiniteSet(ReadersIn(q))
  <2>1. w \notin ReadersIn(q)' BY <1>3 DEF ReadersIn, Inside
  <2>2. /\ \A v \in Worker \ {w} : v \in ReadersIn(q)' <=> v \in ReadersIn(q)
        /\ ReadersIn(q) \subseteq Worker /\ ReadersIn(q)' \subseteq Worker
        /\ w \in ReadersIn(q) <=> q = p /\ Shares(w)
    BY <1>1, <1>2, <1>3, InsideMoved
  <2>3. IsFiniteSet(ReadersIn(q)) BY <2>2, ConfigAssumption, FS_Subset
  <2>4. ReadersIn(q)' = ReadersIn(q) \ {w} BY <2>1, <2>2
  <2>5. QED BY <2>2, <2>3, <2>4
<1>5. /\ \A q \in Path : /\ readers[q] = Cardinality(ReadersIn(q)) /\ readers[q] \in Int
                         /\ writer[q] # NoWorker => readers[q] = 0
      /\ \A q \in Path, v \in Worker : q \in MustOwn(v) => writer[q] = v
  BY <1>1 DEF LocksExact, TypeOK
<1>6. MustOwn(w)' \subseteq MustOwn(w) \ {p} BY <1>1, <1>3, MustIsMay DEF MustOwn
<1>7. \A v \in Worker : MustOwn(v)' \subseteq MustOwn(v)
  BY <1>3, <1>6, OthersMustOwn
<1>8. CASE Shares(w)
  <2>1. w \in ReadersIn(p) /\ IsFiniteSet(ReadersIn(p)) /\ ReadersIn(p)' = ReadersIn(p) \ {w}
    BY <1>1, <1>4, <1>8
  <2>2. readers[p] # 0 BY <2>1, <1>1, <1>5, FS_EmptySet
  <2>3. writer[p] = NoWorker BY <2>2, <1>1, <1>5
  <2>4. /\ writer' = writer
        /\ \A q \in Path : readers'[q] = IF q = p THEN readers[q] - 1 ELSE readers[q]
    BY <1>1, <1>2, <2>3, ConfigAssumption DEF RwUnlock, TypeOK
  <2>5. Cardinality(ReadersIn(p) \ {w}) = Cardinality(ReadersIn(p)) - 1 BY <2>1, FS_RemoveElement
  <2>6. ASSUME NEW q \in Path, q # p PROVE ReadersIn(q)' = ReadersIn(q) BY <1>4, <2>6
  <2>7. \A q \in Path : readers'[q] = Cardinality(ReadersIn(q)')
    BY <1>1, <1>5, <2>1, <2>4, <2>5, <2>6
  <2>8. \A q \in Path : \A v \in Worker : q \in MustOwn(v)' => writer'[q] = v BY <1>5, <1>7, <2>4
  <2>9. \A q \in Path : writer'[q] # NoWorker => readers'[q] = 0 BY <1>5, <2>3, <2>4
  <2>10. QED BY <2>7, <2>8, <2>9 DEF LocksExact
<1>9. CASE ~Shares(w)
  <2>1. writer[p] = w
    <3>1. p \in MustOwn(w) BY <1>2, <1>9 DEF MustOwn
    <3>2. QED BY <1>1, <1>5, <3>1
  <2>2. /\ readers' = readers
        /\ \A q \in Path : writer'[q] = IF q = p THEN NoWorker ELSE writer[q]
    BY <1>1, <1>2, <2>1 DEF RwUnlock, TypeOK
  <2>3. ASSUME NEW q \in Path PROVE readers'[q] = Cardinality(ReadersIn(q)')
    <3>1. ReadersIn(q)' = ReadersIn(q) \ {w} /\ w \notin ReadersIn(q) BY <1>4, <1>9
    <3>2. QED BY <1>5, <2>2, <3>1
  <2>4. ASSUME NEW q \in Path, NEW v \in Worker, q \in MustOwn(v)' PROVE writer'[q] = v
    <3>1. writer[q] = v BY <1>5, <1>7, <2>4
    <3>2. CASE q = p BY <1>6, <2>1, <2>4, <3>1, <3>2
    <3>3. CASE q # p BY <2>2, <3>1, <3>3
    <3>4. QED BY <3>2, <3>3
  <2>5. \A q \in Path : writer'[q] # NoWorker => readers'[q] = 0 BY <1>5, <2>2
  <2>6. QED BY <2>3, <2>4, <2>5 DEF LocksExact
<1>10. QED BY <1>8, <1>9

LEMMA WrittenNext ==
  ASSUME WrittenStay PROVE IInv /\ LockInv /\ WrittenInv /\ [Next]_vars => WrittenInv'
<1> SUFFICES ASSUME IInv, LockInv, WrittenInv, [Next]_vars PROVE WrittenInv' OBVIOUS
<1> TypeOK /\ LocksExact /\ TakenFromRequests /\ WrittenAreRegular BY DEF IInv, WrittenInv
<1>1. TakenFromRequests' BY TakenNext
<1>2. WrittenAreRegular' BY RegularNext
<1>3. ASSUME NEW w \in Worker, Take(w) \/ Step(w) PROVE LocksExact'
  BY <1>3, QuietExact, TableExact, LockExact, UnlockExact DEF Step
<1>4. ASSUME UNCHANGED vars PROVE LocksExact'
  <2>1. UNCHANGED <<writer, readers, pc, frame, op, path>> BY <1>4 DEF vars, lockVars, localVars
  <2>2. \A p \in Path : ReadersIn(p)' = ReadersIn(p)
    BY <2>1 DEF ReadersIn, Inside, Shares, Here, FramePath
  <2>3. \A w \in Worker : MustOwn(w)' = MustOwn(w)
    BY <2>1 DEF MustOwn, Shares, Here, FramePath
  <2>4. QED BY <2>1, <2>2, <2>3 DEF LocksExact
<1>5. QED BY <1>1, <1>2, <1>3, <1>4 DEF Next, Over, WrittenInv

LEMMA InitWritten == ASSUME WrittenStay PROVE Init => WrittenInv
<1> SUFFICES ASSUME Init PROVE WrittenInv OBVIOUS
<1>1. LocksExact
  <2>1. \A p \in Path : ReadersIn(p) = {} BY DEF Init, ReadersIn, Inside
  <2>2. \A w \in Worker : MustOwn(w) = {} BY DEF Init, MustOwn
  <2>3. \A p \in Path : readers[p] = 0 /\ writer[p] = NoWorker BY DEF Init
  <2>4. QED BY <2>1, <2>2, <2>3, FS_EmptySet DEF LocksExact
<1>2. TakenFromRequests BY DEF Init, TakenFromRequests
<1>3. WrittenAreRegular BY DEF Init, WrittenAreRegular, WrittenStay
<1>4. QED BY <1>1, <1>2, <1>3 DEF WrittenInv

\* While no request takes away what another writes, every lock is what the threads inside its
\* element say: EDEADLK is met in the look-ups only, and no thread gives back another's lock.
THEOREM WrittenInvariance == ASSUME WrittenStay PROVE Spec => []WrittenInv
<1>1. QED BY InitWritten, WrittenNext, Invariance, LocksFollow, PTL DEF Spec

\* While no request takes away what another writes, an operation that changes a file or a
\* directory is alone on it, for any number of threads and requests, removals included.
THEOREM WritersAreAlone == ASSUME WrittenStay PROVE Spec => []WritersExclude
<1>1. ASSUME LocksExact, IInv PROVE WritersExclude
  <2> SUFFICES ASSUME NEW p \in Path, NEW w \in Inserting(p) PROVE Inside(p, Ops) = {w}
    BY DEF WritersExclude
  <2>1. w \in Worker /\ w \in Inside(p, Ops) /\ p \in MustOwn(w)
    <3>1. w \in Worker /\ w \in Inside(p, Ops) /\ op[w] \in CreateOps \cup {"truncate", "write"}
          /\ frame[w] # "reply"
      BY DEF Inserting, Inside, CreateOps, FileOps, Ops
    <3>2. FlowOf(w) BY <1>1, <3>1 DEF IInv, FollowsControl
    <3>3. frame[w] # "list" BY <3>1, <3>2 DEF FlowOf, CreateOps
    <3>4. QED BY <3>1, <3>3 DEF MustOwn, Inside, Shares, ReadOps, LockedReads, CreateOps
  <2>2. writer[p] = w /\ readers[p] = 0 BY <1>1, <2>1, ConfigAssumption DEF LocksExact
  <2>3. ReadersIn(p) = {}
    <3>1. ReadersIn(p) \subseteq Worker BY DEF ReadersIn, Inside
    <3>2. IsFiniteSet(ReadersIn(p)) BY <3>1, ConfigAssumption, FS_Subset
    <3>3. Cardinality(ReadersIn(p)) = 0 BY <1>1, <2>2 DEF LocksExact
    <3>4. QED BY <3>2, <3>3, FS_EmptySet
  <2>4. ASSUME NEW v \in Inside(p, Ops) PROVE v = w
    <3>1. v \in Worker /\ p \in MustOwn(v) BY <2>3, <2>4 DEF ReadersIn, Inside, MustOwn
    <3>2. QED BY <1>1, <2>2, <3>1 DEF LocksExact
  <2>5. QED BY <2>1, <2>4
<1>2. IInv /\ WrittenInv => WritersExclude BY <1>1 DEF WrittenInv
<1>3. QED BY <1>2, Invariance, WrittenInvariance, PTL

-----------------------------------------------------------------------------
(* Without removals *)

\* no thread runs a removal
LEMMA NobodyRemoves ==
  ASSUME NoRemovals, TakenFromRequests, NEW w \in Worker, pc[w] # "idle" PROVE op[w] \notin RemoveOps
BY DEF NoRemovals, TakenFromRequests

\* whoever is on the way from an entry to its inode stays on it until the inode is there
LEMMA MakingNext ==
  ASSUME NoRemovals, IInv, TakenFromRequests, HalfMadeIsMade, [Next]_vars
  PROVE  HalfMadeIsMade'
<1> USE DEF tableVars, lockVars, diskVars, localVars, UntouchedByBody, At, Goto, Open, Answer,
        ReturnLeaking, Result, InBody
<1> TypeOK BY DEF IInv
<1>1. ASSUME NEW w \in Worker, Take(w) \/ Step(w) PROVE HalfMadeIsMade'
  <2>1. FlowOf(w) BY DEF IInv, FollowsControl
  <2>2. pc[w] # "idle" => op[w] \notin RemoveOps BY NobodyRemoves
  <2>3. \A v \in Worker \ {w} : path'[v] = path[v] /\ (IsMaking(v) => IsMaking(v)')
    <3>1. \A v \in Worker \ {w} : /\ pc'[v] = pc[v] /\ frame'[v] = frame[v] /\ op'[v] = op[v]
                                  /\ path'[v] = path[v] /\ out'[v] = out[v]
      <4>1. CASE Take(w) BY <4>1 DEF Take, TypeOK
      <4>2. CASE \/ CheckNew(w) \/ FoundOrAdd(w) \/ FoundCount(w) \/ LookupUnlocked(w)
                 \/ TestRegular(w) \/ Lock(w)
        BY <4>2 DEF CheckNew, FoundOrAdd, FoundCount, LookupUnlocked, TestRegular, Lock, TypeOK
      <4>3. CASE \/ DataBody(w) \/ ListBody(w) \/ WriteInode(w) \/ RemoveFileBody(w)
                 \/ AddEntry(w) \/ DeleteEntry(w)
        BY <4>3 DEF DataBody, ListBody, WriteInode, RemoveFileBody, AddEntry, DeleteEntry, TypeOK
      <4>4. CASE Unlock(w) \/ FinishHim(w) \/ RecheckDir(w) \/ Erase(w)
        BY <4>4 DEF Unlock, FinishHim, RecheckDir, Erase, TypeOK
      <4>5. CASE FinishCount(w) BY <4>5 DEF FinishCount, AfterFinish, TypeOK
      <4>6. CASE WalkFault(w) \/ OutOfBlocks(w) BY <4>6 DEF WalkFault, OutOfBlocks
      <4>7. QED BY <1>1, <4>1, <4>2, <4>3, <4>4, <4>5, <4>6 DEF Step
    <3>2. QED BY <3>1 DEF IsMaking
  <2>4. ASSUME IsMaking(w)
        PROVE  \/ path'[w] = path[w] /\ IsMaking(w)'
               \/ WriteInode(w)
    <3>1. op[w] \in CreateOps /\ pc[w] # "idle" BY <2>4 DEF IsMaking
    <3>2. CASE \/ CheckNew(w) \/ LookupUnlocked(w) \/ TestRegular(w) \/ DataBody(w) \/ ListBody(w)
               \/ RemoveFileBody(w) \/ AddEntry(w) \/ DeleteEntry(w) \/ RecheckDir(w) \/ Erase(w)
      BY <2>1, <2>4, <3>2 DEF IsMaking, CheckNew, LookupUnlocked, TestRegular, DataBody, ListBody,
         RemoveFileBody, AddEntry, DeleteEntry, RecheckDir, Erase, FlowOf, CreateOps, RemoveOps,
         FileOps, LockedReads
    <3>3. CASE FoundOrAdd(w) \/ FoundCount(w)
      BY <2>4, <3>1, <3>3 DEF IsMaking, FoundOrAdd, FoundCount, CreateOps, FileOps, TypeOK
    <3>4. CASE Lock(w) BY <2>4, <3>1, <3>4 DEF IsMaking, Lock, CreateOps, TypeOK
    <3>5. CASE Unlock(w) BY <2>4, <3>1, <3>5 DEF IsMaking, Unlock, CreateOps, TypeOK
    <3>6. CASE FinishHim(w) BY <2>4, <3>1, <3>6 DEF IsMaking, FinishHim, TypeOK
    <3>7. CASE FinishCount(w)
      BY <2>4, <3>1, <3>7 DEF IsMaking, FinishCount, AfterFinish, TypeOK
    <3>8. CASE WalkFault(w) \/ OutOfBlocks(w) BY <2>4, <3>8 DEF IsMaking, WalkFault, OutOfBlocks
    <3>9. ~Take(w) BY <3>1 DEF Take
    <3>10. QED BY <1>1, <3>2, <3>3, <3>4, <3>5, <3>6, <3>7, <3>8, <3>9 DEF Step
  <2>5. \/ UNCHANGED <<entries, inode>>
        \/ WriteInode(w)
        \/ /\ inode' = inode /\ entries' = [entries EXCEPT ![path[w]] = @ + 1]
           /\ path' = path /\ IsMaking(w)'
    <3>1. CASE AddEntry(w) BY <3>1 DEF AddEntry, Grow, IsMaking, TypeOK
    <3>2. CASE Erase(w) \/ DeleteEntry(w) BY <3>2, <2>1, <2>2 DEF Erase, DeleteEntry, FlowOf
    <3>3. CASE FinishCount(w) BY <3>3 DEF FinishCount
    <3>4. QED BY <1>1, <3>1, <3>2, <3>3
          DEF Step, Take, WalkFault, OutOfBlocks, CheckNew, FoundOrAdd, FoundCount, LookupUnlocked, TestRegular,
              Lock, DataBody, ListBody, RemoveFileBody, Unlock, FinishHim, RecheckDir
  <2>6. ASSUME NEW p \in Path, entries'[p] > 0, inode'[p] = "zero"
        PROVE  \E v \in Worker : path'[v] = p /\ IsMaking(v)'
    <3>1. CASE UNCHANGED <<entries, inode>> /\ ~WriteInode(w)
      <4>1. PICK v \in Worker : path[v] = p /\ IsMaking(v) BY <2>6, <3>1 DEF HalfMadeIsMade
      <4>2. path'[v] = p /\ IsMaking(v)' BY <4>1, <2>3, <2>4, <3>1
      <4>3. QED BY <4>2
    <3>2. CASE WriteInode(w)
      <4>1. /\ entries' = entries /\ path' = path
            /\ inode' = [inode EXCEPT ![path[w]] = IF op[w] = "mkdir" THEN "dir" ELSE "reg"]
        BY <3>2 DEF WriteInode
      <4>2. p # path[w] /\ inode[p] = "zero" BY <2>6, <4>1 DEF TypeOK
      <4>3. PICK v \in Worker : path[v] = p /\ IsMaking(v) BY <2>6, <4>1, <4>2 DEF HalfMadeIsMade
      <4>4. v # w BY <4>2, <4>3
      <4>5. path'[v] = p /\ IsMaking(v)' BY <4>3, <4>4, <2>3
      <4>6. QED BY <4>5
    <3>3. CASE /\ inode' = inode /\ entries' = [entries EXCEPT ![path[w]] = @ + 1]
               /\ path' = path /\ IsMaking(w)'
      <4>1. CASE p = path[w] BY <3>3, <4>1
      <4>2. CASE p # path[w]
        <5>1. PICK v \in Worker : path[v] = p /\ IsMaking(v)
          BY <2>6, <3>3, <4>2 DEF HalfMadeIsMade, TypeOK
        <5>2. v # w BY <4>2, <5>1
        <5>3. path'[v] = p /\ IsMaking(v)' BY <5>1, <5>2, <2>3
        <5>4. QED BY <5>3
      <4>3. QED BY <4>1, <4>2
    <3>4. QED BY <2>5, <3>1, <3>2, <3>3
  <2>7. QED BY <2>6 DEF HalfMadeIsMade
<1>2. CASE UNCHANGED vars BY <1>2 DEF vars, HalfMadeIsMade, IsMaking
<1>3. QED BY <1>1, <1>2 DEF Next, Over

\* Without removals every entry without an inode is somebody's work in progress.
THEOREM MakingInvariance == ASSUME NoRemovals PROVE Spec => []MakingInv
<1>1. Init => MakingInv BY DEF Init, MakingInv, HalfMadeIsMade, TakenFromRequests
<1>2. IInv /\ MakingInv /\ [Next]_vars => MakingInv'
  BY TakenNext, MakingNext DEF MakingInv, IInv
<1>3. QED BY <1>1, <1>2, Invariance, PTL DEF Spec

\* Without removals whoever owns a lock for writing is inside its element and leaves it
\* without asking for the list mutex: mutex and locks cannot close a cycle.
THEOREM OwnersLeaveAlone == ASSUME NoRemovals PROVE Spec => []LockOwnersNeedNoMutex
<1>1. ASSUME IInv, LockInv, MakingInv PROVE LockOwnersNeedNoMutex
  <2> SUFFICES ASSUME NEW w \in Worker, NEW p \in Path, writer[p] = w
               PROVE  pc[w] \in {"body", "unlock"}
    BY DEF LockOwnersNeedNoMutex
  <2>1. p \in MayOwn(w) /\ FlowOf(w) BY <1>1 DEF LockInv, OwnersFollow, IInv, FollowsControl
  <2>2. ~KeepsPath(w)
    <3>1. KeepsPath(w) => pc[w] # "idle" /\ op[w] \in RemoveOps BY <2>1 DEF FlowOf, KeepsPath
    <3>2. QED BY <1>1, <3>1, NobodyRemoves DEF MakingInv
  <2>3. QED BY <2>1, <2>2 DEF MayOwn
<1>2. QED BY <1>1, Invariance, LocksFollow, MakingInvariance, PTL

\* Without removals, and while what is written is a file from the start, some thread goes on
\* whenever threads are busy: the protocol of synchronizer.c has no deadlock then.
THEOREM SomebodyGoesOn == ASSUME NoRemovals, WrittenStay PROVE Spec => []~Stuck
<1>1. ASSUME TypeOK, StuckOnlyThroughRemovals, WrittenInv PROVE ~Stuck
  <2>1. ASSUME NEW w \in Worker, op[w] \in RemoveOps, pc[w] \in {"found", "fin"} PROVE FALSE
    BY <1>1, <2>1, NobodyRemoves DEF WrittenInv
  <2>2. ASSUME NEW p \in Path PROVE ~(readers[p] < 0)
    <3>1. ReadersIn(p) \subseteq Worker BY DEF ReadersIn, Inside
    <3>2. Cardinality(ReadersIn(p)) \in Nat
      BY <3>1, ConfigAssumption, FS_Subset, FS_CardinalityType
    <3>3. readers[p] = Cardinality(ReadersIn(p)) BY <1>1 DEF WrittenInv, LocksExact
    <3>4. QED BY <3>2, <3>3
  <2>3. QED BY <1>1, <2>1, <2>2 DEF StuckOnlyThroughRemovals
<1>2. QED BY <1>1, TypeCorrect, CyclesNeedRemovals, WrittenInvariance, PTL

\* Without removals a path whose entry is visible before its inode is written has a creator
\* at work on it.
THEOREM HalfMadeIsInWork == ASSUME NoRemovals PROVE Spec => []HalfMadeHasCreator
<1>1. MakingInv => HalfMadeHasCreator
  BY DEF MakingInv, HalfMadeIsMade, IsMaking, HalfMadeHasCreator
<1>2. QED BY <1>1, MakingInvariance, PTL

=============================================================================
