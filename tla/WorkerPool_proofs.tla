-------------------------- MODULE WorkerPool_proofs --------------------------
(***************************************************************************)
(* Proofs about WorkerPool, for any number of clients and requests.  With  *)
(* any number of workers: semaphore, count and links of the job queue      *)
(* agree, no worker pops an empty list, and the queue implements a FIFO    *)
(* channel.  With one worker: each client's requests are answered, each    *)
(* once and in their order.  That hypothesis is needed: with two workers   *)
(* one writes to the arguments that the other is about to read (the run    *)
(* WorkerPool_args).                                                       *)
(***************************************************************************)
EXTENDS WorkerPool, FiniteSetTheorems, SequenceTheorems, TLAPS

-----------------------------------------------------------------------------
(* Claims: workers that took a unit of the semaphore and not yet an element *)

LEMMA ClaimsFinite ==
  IsFiniteSet(Claims) /\ Cardinality(Claims) \in Nat
<1>1. Claims \in SUBSET Worker BY DEF Claims
<1>2. IsFiniteSet(Claims) BY <1>1, PoolAssumption, FS_Subset
<1>3. QED BY <1>2, FS_CardinalityType

\* sem_wait: one claim more
LEMMA ClaimAdded ==
  ASSUME NEW w \in Worker, pc \in [Worker -> WorkerLabels], pc[w] = "wait",
         pc' = [pc EXCEPT ![w] = "lock"]
  PROVE  Cardinality(Claims') = Cardinality(Claims) + 1
<1>1. Claims' = Claims \cup {w} BY DEF Claims
<1>2. w \notin Claims BY DEF Claims
<1>3. QED BY <1>1, <1>2, ClaimsFinite, FS_AddElement

\* queue_pop: one claim less
LEMMA ClaimDropped ==
  ASSUME NEW w \in Worker, pc \in [Worker -> WorkerLabels], pc[w] = "head",
         pc' = [pc EXCEPT ![w] = "size"]
  PROVE  Cardinality(Claims') = Cardinality(Claims) - 1
<1>1. Claims' = Claims \ {w} BY DEF Claims
<1>2. w \in Claims BY DEF Claims
<1>3. QED BY <1>1, <1>2, ClaimsFinite, FS_RemoveElement

\* every other step of a worker keeps the claims
LEMMA ClaimsKept ==
  ASSUME NEW w \in Worker, NEW l, pc \in [Worker -> WorkerLabels],
         pc' = [pc EXCEPT ![w] = l],
         pc[w] \in {"lock", "head"} <=> l \in {"lock", "head"}
  PROVE  Claims' = Claims
BY DEF Claims

\* between its sem_wait and its pop a worker has an element to pop
LEMMA ClaimHasElement ==
  ASSUME TypeOK, SemCountsList, NEW w \in Worker, pc[w] = "head"
  PROVE  Len(list) > 0
<1>1. w \in Claims BY DEF Claims
<1>2. Cardinality(Claims) # 0 BY <1>1, ClaimsFinite, FS_EmptySet
<1>3. \E b \in {0, 1} : sem + Cardinality(Claims) + b = Len(list) BY DEF SemCountsList
<1>4. sem \in Nat BY DEF TypeOK
<1>5. QED BY <1>2, <1>3, <1>4, ClaimsFinite

-----------------------------------------------------------------------------
(* Steps outside the queue *)

\* a worker that builds its arguments, runs its handler or answers, and a client that
\* sends, leave the queue as it is
LEMMA QueueUntouched ==
  ASSUME TypeOK, QueueInv,
         UNCHANGED <<access, list, size, sem, epc, arrived, taken>>,
         \/ UNCHANGED pc
         \/ \E w \in Worker, l \in WorkerLabels \ {"lock", "head", "size"} :
              pc[w] \notin {"lock", "head", "size"} /\ pc' = [pc EXCEPT ![w] = l]
  PROVE  QueueInv'
<1>1. pc \in [Worker -> WorkerLabels] BY DEF TypeOK
<1>2. ListIsNext' BY DEF QueueInv, ListIsNext
<1>3. CASE UNCHANGED pc
  BY <1>3, <1>2 DEF QueueInv, MutexOf, SemCountsList, SizeTracksList, Claims
<1>4. ASSUME NEW w \in Worker, NEW l \in WorkerLabels \ {"lock", "head", "size"},
             pc[w] \notin {"lock", "head", "size"}, pc' = [pc EXCEPT ![w] = l]
      PROVE  QueueInv'
  <2>1. Claims' = Claims BY <1>1, <1>4, ClaimsKept
  <2>2. SemCountsList' BY <2>1 DEF QueueInv, SemCountsList
  <2>3. \A v \in Worker : /\ pc'[v] \in {"head", "size"} <=> pc[v] \in {"head", "size"}
                          /\ pc'[v] = "size" <=> pc[v] = "size"
    BY <1>1, <1>4
  <2>4. MutexOf' BY <2>3 DEF QueueInv, MutexOf
  <2>5. SizeTracksList'
    <3>1. (\E v \in Worker : pc'[v] = "size") <=> (\E v \in Worker : pc[v] = "size")
      BY <2>3
    <3>2. QED BY <3>1 DEF QueueInv, SizeTracksList, Bit
  <2>6. QED BY <1>2, <2>2, <2>4, <2>5 DEF QueueInv
<1>5. QED BY <1>3, <1>4

\* a client sends a request
LEMMA SendStep ==
  ASSUME IInv, NEW c \in Client, Send(c) PROVE IInv'
<1> USE DEF IInv
<1>1. TypeOK' BY DEF Send, TypeOK, queueVars, workerVars, argsVars
<1>2. QueueInv' BY QueueUntouched DEF Send, queueVars, workerVars
<1>3. InboxBounded'
  <2>1. /\ IsFiniteSet(inbox') /\ Cardinality(inbox') = Cardinality(inbox) + 1
    BY FS_AddElement DEF Send, InboxBounded
  <2>2. Cardinality(inbox) \in Nat BY FS_CardinalityType DEF InboxBounded
  <2>3. Len(arrived) \in Nat BY LenProperties DEF TypeOK
  <2>4. QED BY <2>1, <2>2, <2>3, PoolAssumption DEF Send, InboxBounded
<1>4. WorkersFollow' BY DEF WorkersFollow, Send, workerVars, argsVars
<1>5. QED BY <1>1, <1>2, <1>3, <1>4

\* the statements of workerJ after the extraction, and the handler
LEMMA JobStep ==
  ASSUME IInv, NEW w \in Worker,
         Alloc(w) \/ SetPed(w) \/ SetClient(w) \/ Call(w) \/ Run(w) \/ Reply(w) \/ Free(w)
  PROVE  IInv'
<1> USE DEF IInv
<1>1. /\ UNCHANGED <<access, list, size, sem, epc, inbox, arrived, taken>>
      /\ pc[w] \in {"alloc", "ped", "client", "call", "run", "reply", "free"}
      /\ \/ UNCHANGED pc
         \/ \E l \in WorkerLabels \ {"lock", "head", "size"} : pc' = [pc EXCEPT ![w] = l]
  BY DEF Alloc, SetPed, SetClient, Call, Run, Reply, Free, At, Goto, queueVars, clientVars,
         argsVars, WorkerLabels
<1>2. QueueInv' BY <1>1, QueueUntouched
<1>3. InboxBounded' BY <1>1 DEF InboxBounded
<1>4. Id \subseteq Nat /\ 0 \notin Id BY PoolAssumption DEF Id
<1>5. 1..Len(arrived) \subseteq Id
  <2>1. Len(arrived) \in Nat BY LenProperties DEF TypeOK
  <2>2. Len(arrived) <= MaxRequests BY DEF TypeOK
  <2>3. QED BY <2>1, <2>2, PoolAssumption DEF Id
<1>6. TypeOK'
  <2>1. CASE Alloc(w)
    <3>1. NewArgs \in Fields BY DEF NewArgs, Fields
    <3>2. args' \in {0} \cup Id /\ heap' \in [Id -> Fields]
      BY <2>1, <3>1 DEF Alloc, TypeOK, argsVars
    <3>3. crashed' \in BOOLEAN BY <2>1 DEF Alloc
    <3>4. pc' \in [Worker -> WorkerLabels] BY <2>1 DEF Alloc, Goto, TypeOK, WorkerLabels
    <3>5. QED
      BY <2>1, <3>2, <3>3, <3>4 DEF Alloc, TypeOK, queueVars, clientVars
  <2>2. CASE SetPed(w)
    BY <2>2 DEF SetPed, At, Goto, TypeOK, Fields, WorkerLabels, queueVars, clientVars
  <2>3. CASE SetClient(w)
    <3>1. arrived[job[w]] \in Client
      BY <2>3, ElementOfSeq DEF SetClient, At, WorkersFollow, TypeOK
    <3>2. QED
      BY <2>3, <3>1 DEF SetClient, At, Goto, TypeOK, Fields, WorkerLabels, queueVars, clientVars
  <2>4. CASE Call(w)
    BY <2>4 DEF Call, At, Goto, TypeOK, WorkerLabels, queueVars, clientVars, argsVars
  <2>5. CASE Run(w)
    <3>1. heap[arg[w]].ped \in {0} \cup Id
      BY <2>5 DEF Run, At, WorkersFollow, TypeOK, Fields
    <3>2. QED
      BY <2>5, <3>1 DEF Run, At, Goto, TypeOK, WorkerLabels, queueVars, clientVars, argsVars
  <2>6. CASE Reply(w)
    <3>1. out[w] \in Id BY <2>6 DEF Reply, At, WorkersFollow
    <3>2. heap[arg[w]].client \in Client \cup {NoClient}
      BY <2>6 DEF Reply, At, WorkersFollow, TypeOK, Fields
    <3>3. got' \in [Client -> Seq(Id)]
      <4> DEFINE c == heap[arg[w]].client
      <4>1. got \in [Client -> Seq(Id)] BY DEF TypeOK
      <4>2. CASE c = NoClient BY <2>6, <4>1, <4>2 DEF Reply
      <4>3. CASE c \in Client
        <5>1. Append(got[c], out[w]) \in Seq(Id) BY <3>1, <4>1, <4>3, AppendProperties
        <5>2. got' = [got EXCEPT ![c] = Append(got[c], out[w])]
          BY <2>6, <4>3, PoolAssumption DEF Reply
        <5>3. QED BY ONLY <4>1, <4>3, <5>1, <5>2
      <4>4. QED BY <3>2, <4>2, <4>3
    <3>4. QED
      BY <2>6, <3>3 DEF Reply, At, Goto, TypeOK, WorkerLabels, queueVars, argsVars
  <2>7. CASE Free(w)
    <3>1. heap' \in [Id -> Fields]
      <4>1. heap' = heap \/ heap' = [heap EXCEPT ![arg[w]].state = "freed"]
        BY <2>7 DEF Free
      <4>2. heap \in [Id -> Fields] BY DEF TypeOK
      <4>3. QED BY ONLY <4>1, <4>2 DEF Fields
    <3>2. pc' \in [Worker -> WorkerLabels] BY <2>7 DEF Free, Goto, TypeOK, WorkerLabels
    <3>3. /\ job' \in [Worker -> {0} \cup Id] /\ arg' \in [Worker -> {0} \cup Id]
          /\ out' \in [Worker -> {0} \cup Id]
      BY <2>7 DEF Free, TypeOK
    <3>4. crashed' \in BOOLEAN
      <4>1. crashed' = TRUE \/ crashed' = crashed BY <2>7 DEF Free
      <4>2. crashed \in BOOLEAN BY DEF TypeOK
      <4>3. QED BY ONLY <4>1, <4>2
    <3>5. QED
      BY <2>7, <3>1, <3>2, <3>3, <3>4 DEF Free, TypeOK, queueVars, clientVars
  <2>8. QED BY <2>1, <2>2, <2>3, <2>4, <2>5, <2>6, <2>7
<1>7. WorkersFollow'
  <2>1. CASE Alloc(w)
    BY <1>1, <1>4, <1>5, <2>1 DEF Alloc, At, Goto, TypeOK, WorkersFollow, argsVars
  <2>2. CASE SetPed(w) BY <2>2, <1>1 DEF SetPed, At, Goto, TypeOK, WorkersFollow
  <2>3. CASE SetClient(w) BY <2>3, <1>1 DEF SetClient, At, Goto, TypeOK, WorkersFollow
  <2>4. CASE Call(w) BY <2>4, <1>1 DEF Call, At, Goto, TypeOK, WorkersFollow, argsVars
  <2>5. CASE Run(w)
    <3>1. heap[arg[w]].ped \in {0} \cup Id
      BY <2>5 DEF Run, At, WorkersFollow, TypeOK, Fields
    <3>2. QED
      BY <2>5, <3>1, <1>1 DEF Run, At, Goto, TypeOK, WorkersFollow, argsVars
  <2>6. CASE Reply(w) BY <2>6, <1>1 DEF Reply, At, Goto, TypeOK, WorkersFollow, argsVars
  <2>7. CASE Free(w) BY <2>7, <1>1 DEF Free, At, Goto, TypeOK, WorkersFollow
  <2>8. QED BY <2>1, <2>2, <2>3, <2>4, <2>5, <2>6, <2>7
<1>8. QED BY <1>2, <1>3, <1>6, <1>7

-----------------------------------------------------------------------------
(* Steps of the epoll thread *)

\* the part of IInv that a step of the epoll thread cannot disturb
LEMMA EpollKeepsWorkers ==
  ASSUME IInv, EpollStep PROVE WorkersFollow'
<1>1. Len(arrived) \in Nat /\ Len(arrived') \in Nat /\ Len(arrived') >= Len(arrived)
  <2>1. Len(arrived) \in Nat BY LenProperties DEF IInv, TypeOK
  <2>2. CASE UNCHANGED arrived BY <2>1, <2>2
  <2>3. ASSUME NEW c \in inbox, arrived' = Append(arrived, c)
        PROVE  Len(arrived') = Len(arrived) + 1
    <3>1. c \in Client /\ arrived \in Seq(Client) BY <2>3 DEF IInv, TypeOK
    <3>2. QED BY <2>3, <3>1, AppendProperties
  <2>4. QED
    BY <2>1, <2>2, <2>3
    DEF EpollStep, Receive, DepositLock, DepositLink, DepositCount, DepositPost, clientVars
<1>2. UNCHANGED <<workerVars, argsVars>>
  BY DEF EpollStep, Receive, DepositLock, DepositLink, DepositCount, DepositPost
<1>3. QED BY <1>1, <1>2 DEF IInv, WorkersFollow, workerVars, argsVars

\* one event, one request, one job
LEMMA ReceiveStep ==
  ASSUME IInv, Receive PROVE IInv'
<1> USE DEF IInv
<1>1. PICK c \in inbox : inbox' = inbox \ {c} /\ arrived' = Append(arrived, c)
  BY DEF Receive
<1>2. /\ arrived' \in Seq(Client)
      /\ Len(arrived) \in Nat /\ Len(arrived') = Len(arrived) + 1
  BY <1>1, AppendProperties, LenProperties DEF TypeOK
<1>3. /\ IsFiniteSet(inbox') /\ Cardinality(inbox') = Cardinality(inbox) - 1
      /\ Cardinality(inbox) \in Nat /\ Cardinality(inbox') \in Nat
  BY <1>1, FS_RemoveElement, FS_CardinalityType DEF InboxBounded
<1>4. InboxBounded' BY <1>2, <1>3, PoolAssumption DEF InboxBounded
<1>5. TypeOK'
  <2>1. Len(arrived') <= MaxRequests
    BY <1>2, <1>3, PoolAssumption DEF InboxBounded
  <2>2. QED
    BY <1>1, <1>2, <2>1 DEF Receive, TypeOK, EpollLabels, queueVars, workerVars, argsVars
<1>6. QueueInv'
  <2>1. UNCHANGED <<access, list, size, sem, pc, taken>> /\ epc = "recv" /\ epc' = "lock"
    BY DEF Receive, queueVars, workerVars
  <2>2. MutexOf' BY <2>1 DEF QueueInv, MutexOf
  <2>3. SemCountsList' BY <2>1 DEF QueueInv, SemCountsList, Claims
  <2>4. SizeTracksList' BY <2>1 DEF QueueInv, SizeTracksList, Bit
  <2>5. ListIsNext'
    <3>1. Len(list) \in Nat /\ Len(taken) \in Nat BY LenProperties DEF TypeOK
    <3>2. Len(arrived) = Len(taken) + Len(list)
      BY <2>1, <3>1 DEF QueueInv, ListIsNext, Bit
    <3>3. Len(arrived') = Len(taken') + Len(list') + Bit(epc' \in {"lock", "link"})
      BY <1>2, <2>1, <3>1, <3>2 DEF Bit
    <3>4. QED BY <2>1, <3>3 DEF QueueInv, ListIsNext
  <2>6. QED BY <2>2, <2>3, <2>4, <2>5 DEF QueueInv
<1>7. WorkersFollow' BY EpollKeepsWorkers DEF EpollStep
<1>8. QED BY <1>4, <1>5, <1>6, <1>7

\* pthread_mutex_lock of the depositor
LEMMA DepositLockStep ==
  ASSUME IInv, DepositLock PROVE IInv'
<1> USE DEF IInv
<1>1. /\ UNCHANGED <<list, size, sem, pc, taken, arrived, inbox>>
      /\ epc = "lock" /\ epc' = "link" /\ access = NoWorker /\ access' = Epoll
  BY DEF DepositLock, workerVars, clientVars
<1>2. TypeOK'
  BY <1>1 DEF DepositLock, TypeOK, EpollLabels, workerVars, argsVars, clientVars
<1>3. MutexOf' BY <1>1, PoolAssumption DEF QueueInv, MutexOf
<1>4. SemCountsList' BY <1>1 DEF QueueInv, SemCountsList, Claims
<1>5. SizeTracksList' BY <1>1 DEF QueueInv, SizeTracksList, Bit
<1>6. ListIsNext' BY <1>1 DEF QueueInv, ListIsNext, Bit
<1>7. WorkersFollow' BY EpollKeepsWorkers DEF EpollStep
<1>8. QED BY <1>1, <1>2, <1>3, <1>4, <1>5, <1>6, <1>7 DEF QueueInv, InboxBounded

\* with the mutex held and no update pending, count and links agree, so list_add links
\* the job after the last element
LEMMA LinkedLast ==
  ASSUME IInv, DepositLink
  PROVE  /\ size = Len(list) /\ Len(arrived) \in Id
         /\ Len(arrived) = Len(taken) + Len(list) + 1
         /\ list' = Append(list, Len(arrived))
<1> USE DEF IInv
<1>1. epc = "link" BY DEF DepositLink
<1>2. access = Epoll BY <1>1 DEF QueueInv, MutexOf
<1>3. \A w \in Worker : pc[w] # "size" BY <1>2, PoolAssumption DEF QueueInv, MutexOf
<1>4. Len(list) \in Nat /\ Len(taken) \in Nat /\ Len(arrived) \in Nat
  BY LenProperties DEF TypeOK
<1>5. size = Len(list)
  BY <1>1, <1>3, <1>4 DEF QueueInv, SizeTracksList, Bit, TypeOK
<1>6. Len(arrived) = Len(taken) + Len(list) + 1
  BY <1>1, <1>4 DEF QueueInv, ListIsNext, Bit
<1>7. Len(arrived) \in Id BY <1>4, <1>6, PoolAssumption DEF TypeOK, Id
<1>8. SubSeq(list, 1, size) = list BY <1>5, SubSeqFull DEF TypeOK
<1>9. QED BY <1>5, <1>6, <1>7, <1>8 DEF DepositLink

\* queue_push links the job
LEMMA DepositLinkStep ==
  ASSUME IInv, DepositLink PROVE IInv'
<1> USE DEF IInv
<1>1. /\ UNCHANGED <<access, size, sem, pc, taken, arrived, inbox>>
      /\ epc = "link" /\ epc' = "size"
  BY DEF DepositLink, workerVars, clientVars
<1>2. /\ list' \in Seq(Id) /\ Len(list') = Len(list) + 1 /\ Len(list) \in Nat
      /\ \A i \in 1..Len(list) : list'[i] = list[i]
      /\ list'[Len(list) + 1] = Len(arrived)
  <2>1. list \in Seq(Id) BY DEF TypeOK
  <2>2. Len(arrived) \in Id /\ list' = Append(list, Len(arrived)) BY LinkedLast
  <2>3. QED BY <2>1, <2>2, AppendProperties, LenProperties
<1>3. TypeOK'
  BY <1>1, <1>2 DEF DepositLink, TypeOK, EpollLabels, workerVars, argsVars, clientVars
<1>4. MutexOf' BY <1>1 DEF QueueInv, MutexOf
<1>5. SemCountsList'
  <2>1. Claims' = Claims BY <1>1 DEF Claims
  <2>2. sem + Cardinality(Claims) = Len(list)
    BY <1>1, <1>2, ClaimsFinite DEF QueueInv, SemCountsList, TypeOK
  <2>3. QED BY <1>1, <1>2, <2>1, <2>2 DEF SemCountsList
<1>6. SizeTracksList'
  <2>1. ~(\E w \in Worker : pc[w] = "size")
    BY <1>1, PoolAssumption DEF QueueInv, MutexOf
  <2>2. QED BY <1>1, <1>2, <2>1, LinkedLast DEF SizeTracksList, Bit
<1>7. ListIsNext'
  <2>1. Len(taken) \in Nat BY LenProperties DEF TypeOK
  <2>2. Len(arrived) = Len(taken) + Len(list) + 1 BY LinkedLast
  <2>3. \A i \in 1..Len(list') : list'[i] = Len(taken) + i
    <3>1. \A i \in 1..Len(list) : list[i] = Len(taken) + i BY DEF QueueInv, ListIsNext
    <3>2. ASSUME NEW i \in 1..Len(list') PROVE list'[i] = Len(taken) + i
      <4>1. CASE i = Len(list) + 1 BY <1>2, <2>1, <2>2, <4>1
      <4>2. CASE i # Len(list) + 1
        <5>1. i \in 1..Len(list) BY <1>2, <4>2
        <5>2. QED BY <1>2, <3>1, <5>1
      <4>3. QED BY <4>1, <4>2
    <3>3. QED BY <3>2
  <2>4. QED BY <1>1, <1>2, <2>1, <2>2, <2>3 DEF QueueInv, ListIsNext, Bit
<1>8. WorkersFollow' BY EpollKeepsWorkers DEF EpollStep
<1>9. QED BY <1>1, <1>3, <1>4, <1>5, <1>6, <1>7, <1>8 DEF QueueInv, InboxBounded

\* ... counts it and releases the mutex
LEMMA DepositCountStep ==
  ASSUME IInv, DepositCount PROVE IInv'
<1> USE DEF IInv
<1>1. /\ UNCHANGED <<list, sem, pc, taken, arrived, inbox>>
      /\ epc = "size" /\ epc' = "post" /\ access' = NoWorker /\ size' = size + 1
  BY DEF DepositCount, workerVars, clientVars
<1>2. access = Epoll BY <1>1 DEF QueueInv, MutexOf
<1>3. \A w \in Worker : pc[w] \notin {"head", "size"}
  BY <1>2, PoolAssumption DEF QueueInv, MutexOf
<1>4. TypeOK'
  BY <1>1 DEF DepositCount, TypeOK, EpollLabels, workerVars, argsVars, clientVars
<1>5. MutexOf' BY <1>1, <1>3, PoolAssumption DEF MutexOf
<1>6. SemCountsList' BY <1>1 DEF QueueInv, SemCountsList, Claims
<1>7. SizeTracksList' BY <1>1, <1>3 DEF QueueInv, SizeTracksList, Bit, TypeOK
<1>8. ListIsNext' BY <1>1 DEF QueueInv, ListIsNext, Bit
<1>9. WorkersFollow' BY EpollKeepsWorkers DEF EpollStep
<1>10. QED BY <1>1, <1>4, <1>5, <1>6, <1>7, <1>8, <1>9 DEF QueueInv, InboxBounded

\* sem_post
LEMMA DepositPostStep ==
  ASSUME IInv, DepositPost PROVE IInv'
<1> USE DEF IInv
<1>1. /\ UNCHANGED <<access, list, size, pc, taken, arrived, inbox>>
      /\ epc = "post" /\ epc' = "recv" /\ sem' = sem + 1
  BY DEF DepositPost, workerVars, clientVars
<1>2. TypeOK'
  BY <1>1 DEF DepositPost, TypeOK, EpollLabels, workerVars, argsVars, clientVars
<1>3. MutexOf' BY <1>1 DEF QueueInv, MutexOf
<1>4. SemCountsList'
  <2>1. Claims' = Claims BY <1>1 DEF Claims
  <2>2. sem + Cardinality(Claims) + 1 = Len(list) /\ sem \in Nat
    BY <1>1 DEF QueueInv, SemCountsList, TypeOK
  <2>3. QED BY <1>1, <2>1, <2>2, ClaimsFinite DEF SemCountsList
<1>5. SizeTracksList' BY <1>1 DEF QueueInv, SizeTracksList, Bit
<1>6. ListIsNext' BY <1>1 DEF QueueInv, ListIsNext, Bit
<1>7. WorkersFollow' BY EpollKeepsWorkers DEF EpollStep
<1>8. QED BY <1>1, <1>2, <1>3, <1>4, <1>5, <1>6, <1>7 DEF QueueInv, InboxBounded

-----------------------------------------------------------------------------
(* Steps of a worker in the queue *)

\* sem_wait
LEMMA ExtractWaitStep ==
  ASSUME IInv, NEW w \in Worker, ExtractWait(w) PROVE IInv'
<1> USE DEF IInv
<1>1. /\ UNCHANGED <<access, list, size, epc, taken, arrived, inbox>>
      /\ pc[w] = "wait" /\ pc' = [pc EXCEPT ![w] = "lock"]
      /\ sem \in Nat \ {0} /\ sem' = sem - 1 /\ pc \in [Worker -> WorkerLabels]
  BY DEF ExtractWait, At, Goto, clientVars, TypeOK
<1>2. TypeOK'
  BY <1>1 DEF ExtractWait, TypeOK, WorkerLabels, argsVars, clientVars
<1>3. MutexOf' BY <1>1 DEF QueueInv, MutexOf
<1>4. SemCountsList'
  <2>1. Cardinality(Claims') = Cardinality(Claims) + 1 BY <1>1, ClaimAdded
  <2>2. sem' + Cardinality(Claims') = sem + Cardinality(Claims)
    BY <1>1, <2>1, ClaimsFinite
  <2>3. QED BY <1>1, <2>2 DEF QueueInv, SemCountsList
<1>5. SizeTracksList'
  <2>1. (\E v \in Worker : pc'[v] = "size") <=> (\E v \in Worker : pc[v] = "size")
    BY <1>1
  <2>2. QED BY <1>1, <2>1 DEF QueueInv, SizeTracksList, Bit
<1>6. ListIsNext' BY <1>1 DEF QueueInv, ListIsNext
<1>7. WorkersFollow' BY <1>1 DEF ExtractWait, WorkersFollow, argsVars
<1>8. QED BY <1>1, <1>2, <1>3, <1>4, <1>5, <1>6, <1>7 DEF QueueInv, InboxBounded

\* pthread_mutex_lock
LEMMA ExtractLockStep ==
  ASSUME IInv, NEW w \in Worker, ExtractLock(w) PROVE IInv'
<1> USE DEF IInv
<1>1. /\ UNCHANGED <<list, size, sem, epc, taken, arrived, inbox>>
      /\ pc[w] = "lock" /\ pc' = [pc EXCEPT ![w] = "head"]
      /\ access = NoWorker /\ access' = w /\ pc \in [Worker -> WorkerLabels]
  BY DEF ExtractLock, At, Goto, clientVars, TypeOK
<1>2. TypeOK'
  BY <1>1 DEF ExtractLock, TypeOK, WorkerLabels, argsVars, clientVars
<1>3. MutexOf' BY <1>1, PoolAssumption DEF QueueInv, MutexOf
<1>4. SemCountsList' BY <1>1, ClaimsKept DEF QueueInv, SemCountsList
<1>5. SizeTracksList'
  <2>1. (\E v \in Worker : pc'[v] = "size") <=> (\E v \in Worker : pc[v] = "size")
    BY <1>1
  <2>2. QED BY <1>1, <2>1 DEF QueueInv, SizeTracksList, Bit
<1>6. ListIsNext' BY <1>1 DEF QueueInv, ListIsNext
<1>7. WorkersFollow' BY <1>1 DEF ExtractLock, WorkersFollow, argsVars
<1>8. QED BY <1>1, <1>2, <1>3, <1>4, <1>5, <1>6, <1>7 DEF QueueInv, InboxBounded

\* the first element of a list that is not empty is the job that follows the taken ones
LEMMA PopsNext ==
  ASSUME IInv, NEW w \in Worker, ExtractHead(w)
  PROVE  /\ list # <<>> /\ Head(list) = Len(taken) + 1 /\ Head(list) \in Id
         /\ job' = [job EXCEPT ![w] = Head(list)]
         /\ list' = Tail(list) /\ taken' = Append(taken, Head(list))
<1> USE DEF IInv
<1>1. Len(list) > 0 BY ClaimHasElement DEF QueueInv, ExtractHead, At
<1>2. list # <<>> BY <1>1, EmptySeq
<1>3. Head(list) = list[1] BY <1>2 DEF TypeOK
<1>4. Head(list) \in Id BY <1>2, HeadTailProperties DEF TypeOK
<1>5. Len(list) \in Nat BY LenProperties DEF TypeOK
<1>6. list[1] = Len(taken) + 1 BY <1>1, <1>5 DEF QueueInv, ListIsNext
<1>7. QED BY <1>2, <1>3, <1>4, <1>6 DEF ExtractHead

\* queue_pop unlinks the first element
LEMMA ExtractHeadStep ==
  ASSUME IInv, NEW w \in Worker, ExtractHead(w) PROVE IInv'
<1> USE DEF IInv
<1>1. /\ UNCHANGED <<access, size, sem, epc, arrived, inbox>>
      /\ pc[w] = "head" /\ pc' = [pc EXCEPT ![w] = "size"]
      /\ pc \in [Worker -> WorkerLabels]
  BY DEF ExtractHead, At, Goto, clientVars, TypeOK
<1>2. /\ list' \in Seq(Id) /\ Len(list') = Len(list) - 1
      /\ Len(list) \in Nat /\ Len(list) > 0
      /\ \A i \in 1..Len(list') : list'[i] = list[i + 1]
  <2>1. list \in Seq(Id) BY DEF TypeOK
  <2>2. list # <<>> /\ list' = Tail(list) BY PopsNext
  <2>3. QED BY <2>1, <2>2, HeadTailProperties, LenProperties, EmptySeq
<1>3. /\ taken' \in Seq(Id) /\ Len(taken') = Len(taken) + 1 /\ Len(taken) \in Nat
      /\ \A i \in 1..Len(taken) : taken'[i] = taken[i]
      /\ taken'[Len(taken) + 1] = Len(taken) + 1
  <2>1. taken \in Seq(Id) BY DEF TypeOK
  <2>2. /\ Head(list) \in Id /\ Head(list) = Len(taken) + 1
        /\ taken' = Append(taken, Head(list))
    BY PopsNext
  <2>3. QED BY <2>1, <2>2, AppendProperties, LenProperties
<1>4. job' \in [Worker -> {0} \cup Id] BY PopsNext DEF TypeOK
<1>5. TypeOK'
  BY <1>1, <1>2, <1>3, <1>4 DEF ExtractHead, TypeOK, WorkerLabels, argsVars, clientVars
<1>6. MutexOf' BY <1>1 DEF QueueInv, MutexOf
<1>7. SemCountsList'
  <2>1. Cardinality(Claims') = Cardinality(Claims) - 1 BY <1>1, ClaimDropped
  <2>2. sem \in Nat BY DEF TypeOK
  <2>3. PICK b \in {0, 1} :
          /\ b = IF epc \in {"size", "post"} THEN 1 ELSE 0
          /\ sem + Cardinality(Claims) + b = Len(list)
    BY DEF QueueInv, SemCountsList
  <2>4. sem + Cardinality(Claims') + b = Len(list')
    BY <1>2, <2>1, <2>2, <2>3, ClaimsFinite
  <2>5. QED BY <1>1, <2>3, <2>4 DEF SemCountsList
<1>8. SizeTracksList'
  <2>1. access = w BY <1>1 DEF QueueInv, MutexOf
  <2>2. \A v \in Worker : pc[v] # "size" BY <1>1, <2>1 DEF QueueInv, MutexOf
  <2>3. epc # "size" BY <2>1, PoolAssumption DEF QueueInv, MutexOf
  <2>4. size = Len(list)
    BY <1>2, <2>2, <2>3 DEF QueueInv, SizeTracksList, Bit, TypeOK
  <2>5. pc'[w] = "size" BY <1>1
  <2>6. QED BY <1>1, <1>2, <2>3, <2>4, <2>5 DEF SizeTracksList, Bit
<1>9. ListIsNext'
  <2>1. Len(arrived') = Len(taken') + Len(list') + Bit(epc' \in {"lock", "link"})
    <3>1. Bit(epc \in {"lock", "link"}) \in Nat BY DEF Bit
    <3>2. Len(arrived) = Len(taken) + Len(list) + Bit(epc \in {"lock", "link"})
      BY DEF QueueInv, ListIsNext
    <3>3. QED BY <1>1, <1>2, <1>3, <3>1, <3>2
  <2>2. ASSUME NEW i \in 1..Len(taken') PROVE taken'[i] = i
    <3>1. CASE i = Len(taken) + 1 BY <1>3, <3>1
    <3>2. CASE i # Len(taken) + 1
      <4>1. i \in 1..Len(taken) BY <1>3, <3>2
      <4>2. QED BY <1>3, <4>1 DEF QueueInv, ListIsNext
    <3>3. QED BY <3>1, <3>2
  <2>3. ASSUME NEW i \in 1..Len(list') PROVE list'[i] = Len(taken') + i
    <3>1. i + 1 \in 1..Len(list) BY <1>2
    <3>2. list[i + 1] = Len(taken) + (i + 1) BY <3>1 DEF QueueInv, ListIsNext
    <3>3. QED BY <1>2, <1>3, <3>2
  <2>4. QED BY <2>1, <2>2, <2>3 DEF ListIsNext
<1>10. WorkersFollow'
  <2>1. Len(arrived) \in Nat BY LenProperties DEF TypeOK
  <2>2. Len(taken) + 1 \in 1..Len(arrived)
    <3>1. Bit(epc \in {"lock", "link"}) \in Nat BY DEF Bit
    <3>2. QED BY <1>2, <1>3, <2>1, <3>1 DEF QueueInv, ListIsNext
  <2>3. job'[w] \in 1..Len(arrived) BY <2>2, PopsNext DEF TypeOK
  <2>4. \A v \in Worker \ {w} : job'[v] = job[v] /\ pc'[v] = pc[v]
    BY <1>1, PopsNext DEF TypeOK
  <2>5. UNCHANGED <<args, arg, out>> /\ pc'[w] = "size"
    BY <1>1 DEF ExtractHead, argsVars
  <2>6. QED BY <1>1, <2>3, <2>4, <2>5 DEF WorkersFollow
<1>11. QED BY <1>1, <1>5, <1>6, <1>7, <1>8, <1>9, <1>10 DEF QueueInv, InboxBounded

\* ... uncounts it and releases the mutex
LEMMA ExtractCountStep ==
  ASSUME IInv, NEW w \in Worker, ExtractCount(w) PROVE IInv'
<1> USE DEF IInv
<1>1. /\ UNCHANGED <<list, sem, epc, taken, arrived, inbox, job>>
      /\ pc[w] = "size" /\ pc' = [pc EXCEPT ![w] = "alloc"]
      /\ access' = NoWorker /\ pc \in [Worker -> WorkerLabels]
  BY DEF ExtractCount, At, Goto, clientVars, TypeOK
<1>2. job[w] # 0 BY <1>1 DEF WorkersFollow
<1>3. size' = size - 1 BY <1>2 DEF ExtractCount
<1>4. access = w BY <1>1 DEF QueueInv, MutexOf
<1>5. epc \notin {"link", "size"} BY <1>4, PoolAssumption DEF QueueInv, MutexOf
<1>6. \A v \in Worker \ {w} : pc[v] \notin {"head", "size"} BY <1>4 DEF QueueInv, MutexOf
<1>7. size = Len(list) + 1 /\ Len(list) \in Nat
  <2>1. Len(list) \in Nat BY LenProperties DEF TypeOK
  <2>2. QED BY <1>1, <1>5, <2>1 DEF QueueInv, SizeTracksList, Bit, TypeOK
<1>8. TypeOK'
  BY <1>1, <1>3, <1>7 DEF ExtractCount, TypeOK, WorkerLabels, argsVars, clientVars
<1>9. MutexOf' BY <1>1, <1>5, <1>6, PoolAssumption DEF MutexOf
<1>10. SemCountsList' BY <1>1, ClaimsKept DEF QueueInv, SemCountsList
<1>11. SizeTracksList'
  <2>1. ~(\E v \in Worker : pc'[v] = "size") BY <1>1, <1>6
  <2>2. QED BY <1>1, <1>3, <1>5, <1>7, <2>1 DEF SizeTracksList, Bit
<1>12. ListIsNext' BY <1>1 DEF QueueInv, ListIsNext
<1>13. WorkersFollow' BY <1>1 DEF ExtractCount, WorkersFollow, argsVars
<1>14. QED BY <1>1, <1>8, <1>9, <1>10, <1>11, <1>12, <1>13 DEF QueueInv, InboxBounded

-----------------------------------------------------------------------------
(* Theorems *)

LEMMA InitInv == Init => IInv
<1> SUFFICES ASSUME Init PROVE IInv OBVIOUS
<1>1. TypeOK
  <2>1. heap \in [Id -> Fields] BY DEF Init, Fields
  <2>2. /\ arrived \in Seq(Client) /\ Len(arrived) <= MaxRequests
        /\ list \in Seq(Id) /\ taken \in Seq(Id)
    BY EmptySeq, PoolAssumption DEF Init
  <2>3. got \in [Client -> Seq(Id)] BY EmptySeq DEF Init
  <2>4. QED
    BY <2>1, <2>2, <2>3, PoolAssumption DEF Init, TypeOK, EpollLabels, WorkerLabels
<1>2. MutexOf BY PoolAssumption DEF Init, MutexOf
<1>3. SemCountsList
  <2>1. Claims = {} BY DEF Init, Claims
  <2>2. Cardinality(Claims) = 0 BY <2>1, FS_EmptySet
  <2>3. QED BY <2>2 DEF Init, SemCountsList
<1>4. SizeTracksList BY DEF Init, SizeTracksList, Bit
<1>5. ListIsNext BY DEF Init, ListIsNext, Bit
<1>6. InboxBounded BY PoolAssumption, FS_EmptySet DEF Init, InboxBounded
<1>7. WorkersFollow BY DEF Init, WorkersFollow
<1>8. QED BY <1>1, <1>2, <1>3, <1>4, <1>5, <1>6, <1>7 DEF IInv, QueueInv

LEMMA NextInv == IInv /\ [Next]_vars => IInv'
<1> SUFFICES ASSUME IInv, [Next]_vars PROVE IInv' OBVIOUS
<1>1. CASE UNCHANGED vars
  BY <1>1 DEF IInv, TypeOK, QueueInv, MutexOf, SemCountsList, Claims, SizeTracksList,
              ListIsNext, InboxBounded, WorkersFollow, vars, queueVars, workerVars, argsVars,
              clientVars
<1>2. ASSUME NEW c \in Client, Send(c) PROVE IInv' BY <1>2, SendStep
<1>3. CASE EpollStep
  BY <1>3, ReceiveStep, DepositLockStep, DepositLinkStep, DepositCountStep, DepositPostStep
  DEF EpollStep
<1>4. ASSUME NEW w \in Worker, WorkerStep(w) PROVE IInv'
  BY <1>4, ExtractWaitStep, ExtractLockStep, ExtractHeadStep, ExtractCountStep, JobStep
  DEF WorkerStep
<1>5. CASE Over BY <1>1, <1>5 DEF Over
<1>6. QED BY <1>1, <1>2, <1>3, <1>4, <1>5 DEF Next

\* The state of the queue, of the semaphore and of the workers that use them keeps the
\* inductive invariant, however the threads interleave.
THEOREM Invariance == Spec => []IInv
BY InitInv, NextInv, PTL DEF Spec

\* Every variable of the pool keeps its type.
THEOREM TypeCorrect == Spec => []TypeOK
<1>1. IInv => TypeOK BY DEF IInv
<1>2. QED BY <1>1, Invariance, PTL

\* The semaphore accounts for every element of the list.
THEOREM SemaphoreCounts == Spec => []SemCountsList
<1>1. IInv => SemCountsList BY DEF IInv, QueueInv
<1>2. QED BY <1>1, Invariance, PTL

\* A worker that owns the mutex finds an element in the list: queue_pop never gives a
\* worker NULL for a job.
THEOREM PopsAreSafe == Spec => []NeverPopsEmpty
<1>1. IInv => NeverPopsEmpty
  BY ClaimHasElement, EmptySeq DEF IInv, QueueInv, NeverPopsEmpty
<1>2. QED BY <1>1, Invariance, PTL

\* Nobody inside the list, its elements_count is the number of its elements.
THEOREM CountMatchesLinks == Spec => []SizeIsLength
<1>1. IInv => SizeIsLength
  <2> SUFFICES ASSUME IInv, access = NoWorker PROVE size = Len(list)
    BY DEF SizeIsLength
  <2>1. epc # "size" /\ \A w \in Worker : pc[w] # "size"
    BY PoolAssumption DEF IInv, QueueInv, MutexOf
  <2>2. Len(list) \in Nat BY LenProperties DEF IInv, TypeOK
  <2>3. QED BY <2>1, <2>2 DEF IInv, TypeOK, QueueInv, SizeTracksList, Bit
<1>2. QED BY <1>1, Invariance, PTL

-----------------------------------------------------------------------------
(* The queue implements a FIFO channel *)

\* a job linked to the list is deposited in the channel
LEMMA LinkDeposits ==
  ASSUME IInv, DepositLink PROVE Channel!Deposit
<1>1. /\ list \in Seq(Id) /\ Len(list) \in Nat /\ Len(taken) \in Nat
  BY LenProperties DEF IInv, TypeOK
<1>2. /\ Len(arrived) = Len(taken) + Len(list) + 1 /\ Len(arrived) \in Id
      /\ list' = Append(list, Len(arrived))
  BY LinkedLast
<1>3. Len(list') = Len(list) + 1 BY <1>1, <1>2, AppendProperties
<1>4. UNCHANGED taken BY DEF DepositLink
<1>5. Deposited' = Append(Deposited, Len(arrived))
  <2> DEFINE n == Len(taken) + Len(list)
  <2>1. n \in Nat /\ Deposited = [i \in 1..n |-> i] BY <1>1 DEF Deposited
  <2>2. Deposited' = [i \in 1..(n + 1) |-> i] BY <1>1, <1>3, <1>4 DEF Deposited
  <2>3. Deposited \in Seq(Nat) /\ Len(Deposited) = n BY <2>1
  <2>4. Append(Deposited, n + 1) = [i \in 1..(n + 1) |-> i] BY <2>1, <2>3
  <2>5. QED BY <1>2, <2>2, <2>4
<1>6. QED BY <1>2, <1>4, <1>5 DEF Channel!Deposit

\* the element a worker unlinks is extracted from the channel
LEMMA PopExtracts ==
  ASSUME IInv, NEW w \in Worker, ExtractHead(w) PROVE Channel!Extract
<1>1. /\ list \in Seq(Id) /\ taken \in Seq(Id) /\ Len(list) \in Nat /\ Len(taken) \in Nat
  BY LenProperties DEF IInv, TypeOK
<1>2. /\ list # <<>> /\ Head(list) = Len(taken) + 1 /\ Head(list) \in Id
      /\ list' = Tail(list) /\ taken' = Append(taken, Head(list))
  BY PopsNext
<1>3. /\ Len(list') = Len(list) - 1 /\ Len(taken') = Len(taken) + 1 /\ Len(list) > 0
  BY <1>1, <1>2, HeadTailProperties, AppendProperties, EmptySeq
<1>4. UNCHANGED Deposited BY <1>1, <1>3 DEF Deposited
<1>5. Len(taken) + 1 \in 1..(Len(taken) + Len(list)) BY <1>1, <1>3
<1>6. Len(Deposited) = Len(taken) + Len(list) BY <1>1 DEF Deposited
<1>7. Deposited[Len(taken) + 1] = Len(taken) + 1 BY <1>5 DEF Deposited
<1>8. Len(taken) < Len(Deposited) BY <1>1, <1>3, <1>6
<1>9. QED BY <1>2, <1>4, <1>7, <1>8 DEF Channel!Extract

\* every other step leaves the channel as it is
LEMMA OthersStutter ==
  ASSUME UNCHANGED <<list, taken>> PROVE UNCHANGED <<Deposited, taken>>
BY DEF Deposited

\* A job the epoll thread deposits is handed to exactly one worker, and the jobs are
\* handed out in the order they were deposited.
THEOREM Refinement == Spec => IsFifoChannel
<1>1. Init => Channel!Init BY DEF Init, Channel!Init, Deposited
<1>2. IInv /\ [Next]_vars =>
        [Channel!Deposit \/ Channel!Extract]_<<Deposited, taken>>
  <2> SUFFICES ASSUME IInv, [Next]_vars
               PROVE  Channel!Deposit \/ Channel!Extract \/ UNCHANGED <<Deposited, taken>>
    OBVIOUS
  <2>1. CASE DepositLink BY <2>1, LinkDeposits
  <2>2. ASSUME NEW w \in Worker, ExtractHead(w) PROVE Channel!Extract
    BY <2>2, PopExtracts
  <2>3. CASE UNCHANGED <<list, taken>> BY <2>3, OthersStutter
  <2>4. CASE UNCHANGED vars BY <2>4, <2>3 DEF vars, queueVars
  <2>5. ASSUME NEW c \in Client, Send(c) PROVE UNCHANGED <<list, taken>>
    BY <2>5 DEF Send, queueVars
  <2>6. CASE EpollStep
    BY <2>1, <2>3, <2>6
    DEF EpollStep, Receive, DepositLock, DepositCount, DepositPost, queueVars
  <2>7. ASSUME NEW w \in Worker, WorkerStep(w), ~ExtractHead(w)
        PROVE  UNCHANGED <<list, taken>>
    BY <2>7 DEF WorkerStep, ExtractWait, ExtractLock, ExtractCount, Alloc, SetPed, SetClient,
                Call, Run, Reply, Free, queueVars
  <2>8. CASE Over BY <2>4, <2>8 DEF Over
  <2>9. QED BY <2>1, <2>2, <2>3, <2>4, <2>5, <2>6, <2>7, <2>8 DEF Next
<1>3. QED BY <1>1, <1>2, Invariance, PTL DEF Spec, IsFifoChannel, Channel!Spec

-----------------------------------------------------------------------------
(* How many requests are served *)

LEMMA LengthsAreNat ==
  ASSUME TypeOK
  PROVE  /\ Len(taken) \in Nat /\ Len(arrived) \in Nat
         /\ \A c \in Client : Len(got[c]) \in Nat /\ DOMAIN got[c] = 1..Len(got[c])
BY LenProperties DEF TypeOK

LEMMA TakenHaveArrived ==
  ASSUME IInv PROVE Len(taken) <= Len(arrived)
<1>1. Len(list) \in Nat BY LenProperties DEF IInv, TypeOK
<1>2. QED BY <1>1, LengthsAreNat DEF IInv, QueueInv, ListIsNext, Bit

\* one worker: it has a job or it has not
LEMMA ServedBySingle ==
  ASSUME SingleWorker, NEW w \in Worker
  PROVE  /\ HasJob(w) => Served = Len(taken) - 1
         /\ ~HasJob(w) => Served = Len(taken)
         /\ HasJob(w)' => Served' = Len(taken') - 1
         /\ ~HasJob(w)' => Served' = Len(taken')
<1>1. \A v \in Worker : v = w BY DEF SingleWorker
<1>2. (\E v \in Worker : HasJob(v)) <=> HasJob(w) BY <1>1
<1>3. (\E v \in Worker : HasJob(v)') <=> HasJob(w)' BY <1>1
<1>4. HasJob(w) \in BOOLEAN /\ HasJob(w)' \in BOOLEAN BY DEF HasJob
<1>5. Served = Len(taken) - Bit(HasJob(w)) BY <1>2, <1>4 DEF Served
<1>6. Served' = Len(taken') - Bit(HasJob(w)') BY <1>3, <1>4 DEF Served, Bit
<1>7. QED BY <1>5, <1>6 DEF Bit

LEMMA ServedHaveArrived ==
  ASSUME IInv PROVE Served \in Int /\ Served <= Len(arrived)
BY TakenHaveArrived, LengthsAreNat DEF Served, Bit, IInv

\* a job in work has a number
LEMMA JobHasArrived ==
  ASSUME IInv, ArgumentsAreOwn, NEW w \in Worker, HasJob(w)
  PROVE  job[w] = Len(taken) /\ Len(taken) \in Id /\ Len(taken) \in 1..Len(arrived)
<1>1. job[w] = Len(taken) BY DEF ArgumentsAreOwn
<1>2. job[w] \in Nat \ {0}
  <2>1. CASE pc[w] \in {"run", "reply"}
    BY <2>1, PoolAssumption DEF IInv, WorkersFollow, ArgumentsAreOwn, Id
  <2>2. CASE pc[w] \in {"size", "alloc", "ped", "client", "call"}
    <3>1. job[w] \in 1..Len(arrived) BY <2>2 DEF IInv, WorkersFollow
    <3>2. QED BY <3>1, LengthsAreNat DEF IInv
  <2>3. QED BY <2>1, <2>2 DEF HasJob
<1>3. Len(arrived) <= MaxRequests BY DEF IInv, TypeOK
<1>4. Len(taken) <= Len(arrived) BY TakenHaveArrived
<1>5. QED BY <1>1, <1>2, <1>3, <1>4, LengthsAreNat, PoolAssumption DEF IInv, Id

-----------------------------------------------------------------------------
(* The requests of a client up to a number *)

LEMMA EarlierIsFinite ==
  ASSUME TypeOK, NEW c \in Client, NEW n
  PROVE  IsFiniteSet(Earlier(c, n)) /\ Cardinality(Earlier(c, n)) \in Nat
<1>1. Earlier(c, n) \in SUBSET (1..Len(arrived)) BY DEF Earlier, RequestsOf
<1>2. IsFiniteSet(1..Len(arrived)) BY LengthsAreNat, FS_Interval
<1>3. IsFiniteSet(Earlier(c, n)) BY <1>1, <1>2, FS_Subset
<1>4. QED BY <1>3, FS_CardinalityType

\* the next request belongs to one client
LEMMA EarlierNext ==
  ASSUME TypeOK, NEW c \in Client, NEW n \in Int, n + 1 \in 1..Len(arrived)
  PROVE  /\ arrived[n + 1] = c =>
              /\ Earlier(c, n + 1) = Earlier(c, n) \cup {n + 1}
              /\ Cardinality(Earlier(c, n + 1)) = Cardinality(Earlier(c, n)) + 1
         /\ arrived[n + 1] # c => Earlier(c, n + 1) = Earlier(c, n)
<1>1. \A m \in RequestsOf(c) : m \in Nat BY LengthsAreNat DEF RequestsOf
<1>2. n + 1 \in RequestsOf(c) <=> arrived[n + 1] = c BY DEF RequestsOf
<1>3. \A m \in RequestsOf(c) : m <= n + 1 <=> m <= n \/ m = n + 1 BY <1>1
<1>4. ASSUME arrived[n + 1] = c
      PROVE  Earlier(c, n + 1) = Earlier(c, n) \cup {n + 1}
  BY <1>2, <1>3, <1>4 DEF Earlier
<1>5. n + 1 \notin Earlier(c, n) BY DEF Earlier
<1>6. ASSUME arrived[n + 1] = c
      PROVE  Cardinality(Earlier(c, n + 1)) = Cardinality(Earlier(c, n)) + 1
  BY <1>4, <1>5, <1>6, EarlierIsFinite, FS_AddElement
<1>7. ASSUME arrived[n + 1] # c PROVE Earlier(c, n + 1) = Earlier(c, n)
  BY <1>2, <1>3, <1>7 DEF Earlier
<1>8. QED BY <1>4, <1>6, <1>7

LEMMA AnswersKept ==
  ASSUME AnswersFollow, UNCHANGED <<got, arrived>>, Served' = Served
  PROVE  AnswersFollow'
BY DEF AnswersFollow, Earlier, RequestsOf

-----------------------------------------------------------------------------
(* The steps *)

\* clients and the epoll thread leave the workers alone
LEMMA OutsideStep ==
  ASSUME SingleInv, UNCHANGED <<workerVars, argsVars, got, arrived, taken>>
  PROVE  SingleInv'
<1>1. UNCHANGED <<pc, job, arg, out, args, heap>> BY DEF workerVars, argsVars
<1>2. \A w \in Worker : HasJob(w)' <=> HasJob(w) BY <1>1 DEF HasJob
<1>3. Served' = Served BY <1>1 DEF Served, HasJob
<1>4. ArgumentsAreOwn' BY <1>1, <1>2 DEF SingleInv, ArgumentsAreOwn
<1>5. QED BY <1>3, <1>4, AnswersKept DEF SingleInv

\* a request that arrives is later than all that were served
LEMMA ReceiveAnswers ==
  ASSUME IInv, SingleInv, Receive PROVE SingleInv'
<1>1. PICK c \in Client : arrived' = Append(arrived, c) BY DEF Receive, IInv, TypeOK
<1>2. UNCHANGED <<pc, job, arg, out, args, heap, got, taken>>
  BY DEF Receive, workerVars, argsVars
<1>3. /\ Len(arrived) \in Nat /\ Len(arrived') = Len(arrived) + 1
      /\ \A i \in 1..Len(arrived) : arrived'[i] = arrived[i]
  <2>1. arrived \in Seq(Client) BY DEF IInv, TypeOK
  <2>2. QED BY <1>1, <2>1, AppendProperties, LenProperties
<1>4. Served' = Served BY <1>2 DEF Served, HasJob
<1>5. \A w \in Worker : HasJob(w)' <=> HasJob(w) BY <1>2 DEF HasJob
<1>6. ArgumentsAreOwn'
  <2>1. ASSUME NEW w \in Worker, pc[w] \in {"call", "run", "reply"}
        PROVE  heap'[job'[w]].client = arrived'[job'[w]]
    <3>1. job[w] \in 1..Len(arrived)
      BY <2>1, JobHasArrived DEF SingleInv, HasJob
    <3>2. heap[job[w]].client = arrived[job[w]] BY <2>1 DEF SingleInv, ArgumentsAreOwn
    <3>3. QED BY <1>2, <1>3, <3>1, <3>2
  <2>2. QED BY <1>2, <1>5, <2>1 DEF SingleInv, ArgumentsAreOwn
<1>7. \A d \in Client, n \in Int : n <= Len(arrived) => Earlier(d, n)' = Earlier(d, n)
  <2> SUFFICES ASSUME NEW d \in Client, NEW n \in Int, n <= Len(arrived)
               PROVE  Earlier(d, n)' = Earlier(d, n)
    OBVIOUS
  <2>1. \A m : m \in RequestsOf(d)' /\ m <= n <=> m \in RequestsOf(d) /\ m <= n
    BY <1>3 DEF RequestsOf
  <2>2. QED BY <2>1 DEF Earlier
<1>8. Served \in Int /\ Served <= Len(arrived) BY ServedHaveArrived
<1>9. AnswersFollow'
  <2> SUFFICES ASSUME NEW d \in Client
      PROVE  /\ Len(got[d]) = Cardinality(Earlier(d, Served)')
             /\ \A i \in DOMAIN got[d] :
                  /\ got[d][i] \in Earlier(d, Served)'
                  /\ Cardinality(Earlier(d, got[d][i])') = i
    BY <1>2, <1>4 DEF AnswersFollow
  <2>1. Earlier(d, Served)' = Earlier(d, Served)
    <3>1. Earlier(d, Served)' = {m \in RequestsOf(d)' : m <= Served} BY <1>4 DEF Earlier
    <3>2. QED BY <1>7, <1>8, <3>1 DEF Earlier
  <2>2. ASSUME NEW i \in DOMAIN got[d]
        PROVE  Earlier(d, got[d][i])' = Earlier(d, got[d][i])
    <3>1. got[d][i] \in Earlier(d, Served) BY DEF SingleInv, AnswersFollow
    <3>2. got[d][i] \in 1..Len(arrived) BY <3>1 DEF Earlier, RequestsOf
    <3>3. got[d][i] \in Int /\ got[d][i] <= Len(arrived) BY <1>3, <3>2
    <3>4. Earlier(d, got[d][i])' = {m \in RequestsOf(d)' : m <= got[d][i]}
      BY <1>2 DEF Earlier
    <3>5. QED BY <1>7, <3>3, <3>4 DEF Earlier
  <2>3. QED BY <2>1, <2>2 DEF SingleInv, AnswersFollow
<1>10. QED BY <1>6, <1>9 DEF SingleInv

\* a worker on its way to an element
LEMMA WaitingStep ==
  ASSUME IInv, SingleInv, SingleWorker, NEW w \in Worker, ExtractWait(w) \/ ExtractLock(w)
  PROVE  SingleInv'
<1>1. /\ UNCHANGED <<job, arg, out, args, heap, got, arrived, taken>>
      /\ pc'[w] \in {"lock", "head"} /\ pc[w] \in {"wait", "lock"}
  BY DEF ExtractWait, ExtractLock, At, Goto, argsVars, clientVars, IInv, TypeOK
<1>2. \A v \in Worker : v = w BY DEF SingleWorker
<1>3. ~HasJob(w) /\ ~HasJob(w)' BY <1>1 DEF HasJob
<1>4. Served' = Served BY <1>1, <1>3, ServedBySingle
<1>5. ArgumentsAreOwn' BY <1>1, <1>2, <1>3 DEF ArgumentsAreOwn
<1>6. QED BY <1>1, <1>4, <1>5, AnswersKept DEF SingleInv

\* queue_pop: the job is the last that was taken
LEMMA PopStep ==
  ASSUME IInv, SingleInv, SingleWorker, NEW w \in Worker, ExtractHead(w)
  PROVE  SingleInv'
<1>1. /\ UNCHANGED <<arg, out, args, heap, got, arrived>>
      /\ pc'[w] = "size" /\ pc[w] = "head"
  BY DEF ExtractHead, At, Goto, argsVars, clientVars, IInv, TypeOK
<1>2. \A v \in Worker : v = w BY DEF SingleWorker
<1>3. list # <<>> /\ Head(list) = Len(taken) + 1 /\ taken' = Append(taken, Head(list))
  BY PopsNext
<1>4. job'[w] = Head(list) BY <1>3 DEF ExtractHead, IInv, TypeOK
<1>5. Len(taken') = Len(taken) + 1 /\ Len(taken) \in Nat
  BY <1>3, AppendProperties, LengthsAreNat, HeadTailProperties DEF IInv, TypeOK
<1>6. ~HasJob(w) /\ HasJob(w)' BY <1>1 DEF HasJob
<1>7. Served' = Served BY <1>5, <1>6, ServedBySingle
<1>8. ArgumentsAreOwn' BY <1>1, <1>2, <1>3, <1>4, <1>5 DEF ArgumentsAreOwn
<1>9. QED BY <1>1, <1>7, <1>8, AnswersKept DEF SingleInv

\* queue_pop's count, and workerJ's statements up to the call of the handler
LEMMA PrepareStep ==
  ASSUME IInv, SingleInv, SingleWorker, NEW w \in Worker,
         ExtractCount(w) \/ Alloc(w) \/ SetPed(w) \/ SetClient(w) \/ Call(w) \/ Run(w)
  PROVE  SingleInv'
<1>1. /\ UNCHANGED <<job, got, arrived, taken>> /\ pc \in [Worker -> WorkerLabels]
      /\ heap \in [Id -> Fields] /\ arg \in [Worker -> {0} \cup Id]
      /\ out \in [Worker -> {0} \cup Id]
  BY DEF ExtractCount, Alloc, SetPed, SetClient, Call, Run, clientVars, IInv, TypeOK
<1>2. \A v \in Worker : v = w BY DEF SingleWorker
<1>3. HasJob(w)
  BY DEF ExtractCount, Alloc, SetPed, SetClient, Call, Run, At, HasJob
<1>4. HasJob(w)'
  BY <1>1, <1>3 DEF ExtractCount, Alloc, SetPed, SetClient, Call, Run, Goto, At, HasJob
<1>5. Served' = Served BY <1>1, <1>3, <1>4, ServedBySingle
<1>6. job[w] = Len(taken) /\ job[w] \in Id BY <1>3, JobHasArrived DEF SingleInv
<1>7. 0 \notin Id BY DEF Id
<1>8. ArgumentsAreOwn'
  <2> SUFFICES
        LET n == job[w] IN
        /\ pc'[w] \in {"ped", "client", "call"} => args' = n
        /\ pc'[w] \in {"run", "reply"} => arg'[w] = n
        /\ pc'[w] \in {"client", "call", "run", "reply"} => heap'[n].ped = n
        /\ pc'[w] \in {"call", "run", "reply"} => heap'[n].client = arrived[n]
        /\ pc'[w] = "reply" => out'[w] = n
    BY <1>1, <1>2, <1>6 DEF ArgumentsAreOwn
  <2> USE DEF SingleInv, ArgumentsAreOwn
  <2>1. CASE ExtractCount(w) BY <2>1, <1>1 DEF ExtractCount, At, Goto
  <2>2. CASE Alloc(w) BY <2>2, <1>1, <1>6, <1>7 DEF Alloc, At, Goto
  <2>3. CASE SetPed(w)
    <3>1. args = job[w] /\ pc'[w] = "client" /\ UNCHANGED <<args, arg, out>>
      BY <2>3, <1>1 DEF SetPed, At, Goto
    <3>2. heap'[job[w]].ped = job[w] BY <2>3, <3>1, <1>1, <1>6 DEF SetPed, Fields
    <3>3. QED BY <3>1, <3>2
  <2>4. CASE SetClient(w)
    <3>1. /\ args = job[w] /\ heap[job[w]].ped = job[w]
          /\ pc'[w] = "call" /\ UNCHANGED <<args, arg, out>>
      BY <2>4, <1>1 DEF SetClient, At, Goto
    <3>2. heap'[job[w]].client = arrived[job[w]] /\ heap'[job[w]].ped = job[w]
      BY <2>4, <3>1, <1>1, <1>6 DEF SetClient, Fields
    <3>3. QED BY <3>1, <3>2
  <2>5. CASE Call(w) BY <2>5, <1>1 DEF Call, At, Goto, argsVars
  <2>6. CASE Run(w)
    <3>1. /\ arg[w] = job[w] /\ heap[job[w]].ped = job[w]
          /\ heap[job[w]].client = arrived[job[w]] /\ UNCHANGED <<args, arg, heap>>
      BY <2>6 DEF Run, At, argsVars
    <3>2. pc'[w] = "reply" /\ out'[w] = job[w]
      BY <2>6, <3>1, <1>1, <1>6, <1>7 DEF Run, At, Goto
    <3>3. QED BY <3>1, <3>2
  <2>7. QED BY <2>1, <2>2, <2>3, <2>4, <2>5, <2>6
<1>9. QED BY <1>1, <1>5, <1>8, AnswersKept DEF SingleInv

\* the answer goes to the client of the job, whose next request it is
LEMMA ReplyStep ==
  ASSUME IInv, SingleInv, SingleWorker, NEW w \in Worker, Reply(w) PROVE SingleInv'
<1> DEFINE n == job[w]  c == arrived[n]
<1>1. UNCHANGED <<job, arg, out, args, heap, arrived, taken>> /\ pc[w] = "reply"
      /\ pc'[w] = "free"
  BY DEF Reply, At, Goto, argsVars, IInv, TypeOK
<1>2. \A v \in Worker : v = w BY DEF SingleWorker
<1>3. HasJob(w) /\ ~HasJob(w)' BY <1>1 DEF HasJob
<1>4. n = Len(taken) /\ n \in Id /\ n \in 1..Len(arrived)
  BY <1>3, JobHasArrived DEF SingleInv
<1>5. arg[w] = n /\ out[w] = n /\ heap[n].client = c
  BY <1>1 DEF SingleInv, ArgumentsAreOwn
<1>6. c \in Client BY <1>4, ElementOfSeq DEF IInv, TypeOK
<1>7. got' = [got EXCEPT ![c] = Append(@, n)]
  BY <1>5, <1>6, PoolAssumption DEF Reply
<1>8. Served = n - 1 /\ Served' = n /\ n \in Nat /\ Served + 1 = n
  BY <1>1, <1>3, <1>4, ServedBySingle, LengthsAreNat DEF IInv
<1>9. ArgumentsAreOwn' BY <1>1, <1>2, <1>3 DEF ArgumentsAreOwn
<1>11. ASSUME NEW d \in Client
       PROVE  /\ Len(got'[d]) = Cardinality(Earlier(d, n))
              /\ \A i \in DOMAIN got'[d] :
                   got'[d][i] \in Earlier(d, n) /\ Cardinality(Earlier(d, got'[d][i])) = i
  <2>1. /\ Len(got[d]) = Cardinality(Earlier(d, n - 1))
        /\ \A i \in DOMAIN got[d] :
             got[d][i] \in Earlier(d, n - 1) /\ Cardinality(Earlier(d, got[d][i])) = i
    BY <1>8 DEF SingleInv, AnswersFollow
  <2>2. n - 1 \in Int /\ (n - 1) + 1 = n BY <1>8
  <2>3. CASE d # c
    <3>1. Earlier(d, n) = Earlier(d, n - 1) BY <1>4, <2>2, <2>3, EarlierNext DEF IInv
    <3>2. got'[d] = got[d] BY <1>7, <2>3 DEF IInv, TypeOK
    <3>3. QED BY <2>1, <3>1, <3>2
  <2>4. CASE d = c
    <3>1. /\ Earlier(d, n) = Earlier(d, n - 1) \cup {n}
          /\ Cardinality(Earlier(d, n)) = Cardinality(Earlier(d, n - 1)) + 1
      BY <1>4, <2>2, <2>4, EarlierNext DEF IInv
    <3>2. got'[d] = Append(got[d], n) BY <1>7, <2>4 DEF IInv, TypeOK
    <3>3. got[d] \in Seq(Id) BY DEF IInv, TypeOK
    <3>4. /\ Len(got[d]) \in Nat /\ DOMAIN got[d] = 1..Len(got[d])
          /\ DOMAIN got'[d] = 1..(Len(got[d]) + 1)
          /\ Len(got'[d]) = Len(got[d]) + 1
          /\ got'[d][Len(got[d]) + 1] = n
          /\ \A i \in 1..Len(got[d]) : got'[d][i] = got[d][i]
      BY <1>4, <3>2, <3>3, AppendProperties, LenProperties
    <3>5. \A i \in 1..(Len(got[d]) + 1) : i \in 1..Len(got[d]) \/ i = Len(got[d]) + 1
      BY <3>4
    <3>6. QED BY <2>1, <3>1, <3>4, <3>5
  <2>5. QED BY <2>3, <2>4
<1>12. AnswersFollow'
  <2> SUFFICES ASSUME NEW d \in Client
      PROVE  /\ Len(got'[d]) = Cardinality(Earlier(d, Served)')
             /\ \A i \in DOMAIN got'[d] :
                  /\ got'[d][i] \in Earlier(d, Served)'
                  /\ Cardinality(Earlier(d, got[d][i])') = i
    BY DEF AnswersFollow
  <2>1. Earlier(d, Served)' = Earlier(d, n) BY <1>1, <1>8 DEF Earlier, RequestsOf
  <2>2. \A i \in DOMAIN got'[d] : Earlier(d, got[d][i])' = Earlier(d, got'[d][i])
    BY <1>1 DEF Earlier, RequestsOf
  <2>3. QED BY <1>11, <2>1, <2>2
<1>13. QED BY <1>9, <1>12 DEF SingleInv

\* the handler frees its arguments
LEMMA FreeStep ==
  ASSUME IInv, SingleInv, SingleWorker, NEW w \in Worker, Free(w) PROVE SingleInv'
<1>1. /\ UNCHANGED <<got, arrived, taken>> /\ pc[w] = "free" /\ pc'[w] \in {"free", "wait"}
  BY DEF Free, At, Goto, clientVars, IInv, TypeOK
<1>2. \A v \in Worker : v = w BY DEF SingleWorker
<1>3. ~HasJob(w) /\ ~HasJob(w)' BY <1>1 DEF HasJob
<1>4. Served' = Served BY <1>1, <1>3, ServedBySingle
<1>5. ArgumentsAreOwn' BY <1>1, <1>2, <1>3 DEF ArgumentsAreOwn
<1>6. QED BY <1>1, <1>4, <1>5, AnswersKept DEF SingleInv

-----------------------------------------------------------------------------
(* Theorems *)

LEMMA InitSingle == Init => SingleInv
<1> SUFFICES ASSUME Init PROVE SingleInv OBVIOUS
<1>1. ArgumentsAreOwn BY DEF Init, ArgumentsAreOwn, HasJob
<1>2. AnswersFollow
  <2> SUFFICES ASSUME NEW c \in Client
      PROVE  Len(got[c]) = Cardinality(Earlier(c, Served)) /\ DOMAIN got[c] = {}
    BY DEF AnswersFollow
  <2>1. got[c] = <<>> /\ Len(got[c]) = 0 /\ DOMAIN got[c] = {} BY DEF Init
  <2>2. Earlier(c, Served) = {} BY DEF Init, Earlier, RequestsOf
  <2>3. QED BY <2>1, <2>2, FS_EmptySet
<1>3. QED BY <1>1, <1>2 DEF SingleInv

LEMMA NextSingle ==
  ASSUME SingleWorker PROVE IInv /\ SingleInv /\ [Next]_vars => SingleInv'
<1> SUFFICES ASSUME IInv, SingleInv, [Next]_vars PROVE SingleInv' OBVIOUS
<1>1. CASE UNCHANGED vars
  BY <1>1, OutsideStep DEF vars, clientVars
<1>2. ASSUME NEW c \in Client, Send(c) PROVE SingleInv'
  BY <1>2, OutsideStep DEF Send
<1>3. CASE EpollStep
  BY <1>3, ReceiveAnswers, OutsideStep
  DEF EpollStep, DepositLock, DepositLink, DepositCount, DepositPost, clientVars
<1>4. ASSUME NEW w \in Worker, WorkerStep(w) PROVE SingleInv'
  BY <1>4, WaitingStep, PopStep, PrepareStep, ReplyStep, FreeStep DEF WorkerStep
<1>5. CASE Over BY <1>1, <1>5 DEF Over
<1>6. QED BY <1>1, <1>2, <1>3, <1>4, <1>5 DEF Next

\* One worker finds in the shared arguments what it wrote there, and every client's answers
\* follow its requests.
THEOREM SingleInvariance == ASSUME SingleWorker PROVE Spec => []SingleInv
BY InitSingle, NextSingle, Invariance, PTL DEF Spec

\* With one worker every client reads the results of its own requests, each of them once and
\* in the order it sent them.
THEOREM AnswersAreTheirOwn == ASSUME SingleWorker PROVE Spec => []AnswersMatch
<1>1. SingleInv => AnswersMatch
  BY DEF SingleInv, AnswersFollow, AnswersMatch, Earlier
<1>2. QED BY <1>1, SingleInvariance, PTL
=============================================================================
