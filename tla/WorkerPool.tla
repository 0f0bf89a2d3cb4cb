----------------------------- MODULE WorkerPool -----------------------------
(***************************************************************************)
(* The thread pool of the RFS server: the epoll thread of rfs.c turns what *)
(* the clients send into jobs and deposits them in a list that a mutex and *)
(* a counting semaphore guard (multiThreading.c); each worker extracts a   *)
(* job, builds the arguments of its handler and runs it.                   *)
(*                                                                         *)
(* rfs.c allocates one worker_t and passes it to every pthread_create, and *)
(* the program is built with -O0: each wr->args in workerJ reads the one   *)
(* shared field again.                                                     *)
(***************************************************************************)
EXTENDS Integers, Sequences, FiniteSets

CONSTANTS Client,       \* connections of the clients (one outstanding request each)
          Worker,       \* thPool
          MaxRequests,  \* bound: requests the clients send in all
          NoWorker, NoClient, Epoll

ASSUME PoolAssumption ==
  /\ IsFiniteSet(Worker) /\ NoClient \notin Client
  /\ NoWorker \notin Worker /\ Epoll \notin Worker /\ NoWorker # Epoll
  /\ MaxRequests \in Nat

Id == 1..MaxRequests    \* a request, its job and its pedido_t, in order of arrival

VARIABLES
  inbox,    \* clients whose request is in their socket, unread
  arrived,  \* arrived[n]: the client of request n
  got,      \* got[c]: the requests whose results were sent to c
  access,   \* owner of cola->access
  list,     \* cola->colaDePedidos: its elements
  size,     \* ... and its elements_count
  sem,      \* cola->countOfElements
  epc,      \* control state of the epoll thread
  pc, job,  \* control state of the workers, and their job (0: none)
  arg,      \* the args_t* the worker passed to its handler
  out,      \* the request its handler worked on
  args,     \* wr->args of the shared worker_t (0: NULL)
  heap,     \* the args_t that job n's worker allocates: [ped, client, state]
  taken,    \* history: jobs in the order they left the list
  crashed   \* NULL dereferenced or memory freed twice: the process is gone

queueVars  == <<access, list, size, sem>>
workerVars == <<pc, job, arg, out>>
argsVars   == <<args, heap>>
clientVars == <<inbox, arrived, got>>
vars == <<queueVars, epc, workerVars, argsVars, clientVars, taken, crashed>>

EpollLabels  == {"recv", "lock", "link", "size", "post"}
WorkerLabels == {"wait", "lock", "head", "size", "alloc", "ped", "client", "call",
                 "run", "reply", "free"}
NewArgs == [ped |-> 0, client |-> NoClient, state |-> "live"]   \* calloc
Fields == [ped : {0} \cup Id, client : Client \cup {NoClient}, state : {"none", "live", "freed"}]

TypeOK ==
  /\ inbox \subseteq Client
  /\ arrived \in Seq(Client) /\ Len(arrived) <= MaxRequests
  /\ got \in [Client -> Seq(Id)]
  /\ access \in Worker \cup {NoWorker, Epoll}
  /\ list \in Seq(Id) /\ size \in Nat /\ sem \in Nat
  /\ epc \in EpollLabels
  /\ pc \in [Worker -> WorkerLabels]
  /\ job \in [Worker -> {0} \cup Id]
  /\ arg \in [Worker -> {0} \cup Id] /\ out \in [Worker -> {0} \cup Id]
  /\ args \in {0} \cup Id
  /\ heap \in [Id -> Fields]
  /\ taken \in Seq(Id)
  /\ crashed \in BOOLEAN

Init ==
  /\ inbox = {} /\ arrived = <<>> /\ got = [c \in Client |-> <<>>]
  /\ access = NoWorker /\ list = <<>> /\ size = 0 /\ sem = 0
  /\ epc = "recv" /\ pc = [w \in Worker |-> "wait"]
  /\ job = [w \in Worker |-> 0] /\ arg = [w \in Worker |-> 0]
  /\ out = [w \in Worker |-> 0] /\ args = 0
  /\ heap = [n \in Id |-> [ped |-> 0, client |-> NoClient, state |-> "none"]]
  /\ taken = <<>> /\ crashed = FALSE

-----------------------------------------------------------------------------
(* Clients and the epoll thread *)

RequestsOf(c) == {n \in 1..Len(arrived) : arrived[n] = c}

\* a connection of the file-system client sends the next request when it has read an
\* answer to the one before (fuse.c: enviar_paquete, recibir_paquete)
Send(c) ==
  /\ ~crashed /\ c \notin inbox
  /\ Len(arrived) + Cardinality(inbox) < MaxRequests
  /\ Len(got[c]) >= Cardinality(RequestsOf(c))
  /\ inbox' = inbox \cup {c}
  /\ UNCHANGED <<arrived, got, queueVars, epc, workerVars, argsVars, taken, crashed>>

\* a readable socket: read the request and make its job (functionIdentifyAndOperate)
Receive ==
  /\ ~crashed /\ epc = "recv"
  /\ \E c \in inbox : inbox' = inbox \ {c} /\ arrived' = Append(arrived, c)
  /\ epc' = "lock"
  /\ UNCHANGED <<got, queueVars, workerVars, argsVars, taken, crashed>>

\* (mutant) the deposit without its mutex
DepositUnlocked ==
  /\ ~crashed /\ epc = "lock"
  /\ epc' = "link"
  /\ UNCHANGED <<access, list, size, sem, workerVars, argsVars, clientVars, taken, crashed>>

\* pool_deposite_job_in_queue: pthread_mutex_lock
DepositLock ==
  /\ ~crashed /\ epc = "lock" /\ access = NoWorker
  /\ access' = Epoll /\ epc' = "link"
  /\ UNCHANGED <<list, size, sem, workerVars, argsVars, clientVars, taken, crashed>>

\* (mutant) the push puts the new job first
DepositFirst ==
  /\ ~crashed /\ epc = "link"
  /\ list' = <<Len(arrived)>> \o list
  /\ epc' = "size"
  /\ UNCHANGED <<access, size, sem, workerVars, argsVars, clientVars, taken, crashed>>

\* ... queue_push links the new element after element size - 1, or at the head
DepositLink ==
  /\ ~crashed /\ epc = "link"
  /\ list' = Append(SubSeq(list, 1, size), Len(arrived))
  /\ epc' = "size"
  /\ UNCHANGED <<access, size, sem, workerVars, argsVars, clientVars, taken, crashed>>

\* ... and counts it; pthread_mutex_unlock
DepositCount ==
  /\ ~crashed /\ epc = "size"
  /\ size' = size + 1 /\ access' = NoWorker /\ epc' = "post"
  /\ UNCHANGED <<list, sem, workerVars, argsVars, clientVars, taken, crashed>>

\* (mutant) the sem_post only when the list was empty
DepositPostFirst ==
  /\ ~crashed /\ epc = "post"
  /\ sem' = (IF size = 1 THEN sem + 1 ELSE sem) /\ epc' = "recv"
  /\ UNCHANGED <<access, list, size, workerVars, argsVars, clientVars, taken, crashed>>

\* ... sem_post, after the mutex is released
DepositPost ==
  /\ ~crashed /\ epc = "post"
  /\ sem' = sem + 1 /\ epc' = "recv"
  /\ UNCHANGED <<access, list, size, workerVars, argsVars, clientVars, taken, crashed>>

EpollStep == Receive \/ DepositLock \/ DepositLink \/ DepositCount \/ DepositPost

-----------------------------------------------------------------------------
(* Workers *)

At(w, label) == ~crashed /\ pc[w] = label
Goto(w, label) == pc' = [pc EXCEPT ![w] = label]

\* (mutant) a sem_trywait whose failure is not looked at
ExtractUnchecked(w) ==
  /\ At(w, "wait")
  /\ sem' = (IF sem = 0 THEN 0 ELSE sem - 1) /\ Goto(w, "lock")
  /\ UNCHANGED <<access, list, size, epc, job, arg, out, argsVars, clientVars, taken, crashed>>

\* (mutant) a unit taken without waiting for it
ExtractEager(w) ==
  /\ At(w, "wait")
  /\ sem' = sem - 1 /\ Goto(w, "lock")
  /\ UNCHANGED <<access, list, size, epc, job, arg, out, argsVars, clientVars, taken, crashed>>

\* pool_extract_job_in_queue: sem_wait
ExtractWait(w) ==
  /\ At(w, "wait") /\ sem > 0
  /\ sem' = sem - 1 /\ Goto(w, "lock")
  /\ UNCHANGED <<access, list, size, epc, job, arg, out, argsVars, clientVars, taken, crashed>>

\* ... pthread_mutex_lock
ExtractLock(w) ==
  /\ At(w, "lock") /\ access = NoWorker
  /\ access' = w /\ Goto(w, "head")
  /\ UNCHANGED <<list, size, sem, epc, job, arg, out, argsVars, clientVars, taken, crashed>>

\* ... queue_pop unlinks the first element (NULL, dereferenced later, if there is none)
ExtractHead(w) ==
  /\ At(w, "head")
  /\ IF list = <<>>
       THEN job' = [job EXCEPT ![w] = 0] /\ UNCHANGED <<list, taken>>
       ELSE /\ job' = [job EXCEPT ![w] = Head(list)]
            /\ list' = Tail(list) /\ taken' = Append(taken, Head(list))
  /\ Goto(w, "size")
  /\ UNCHANGED <<access, size, sem, epc, arg, out, argsVars, clientVars, crashed>>

\* ... and uncounts it; pthread_mutex_unlock
ExtractCount(w) ==
  /\ At(w, "size")
  /\ size' = IF job[w] = 0 THEN size ELSE size - 1
  /\ access' = NoWorker /\ Goto(w, "alloc")
  /\ UNCHANGED <<list, sem, epc, job, arg, out, argsVars, clientVars, taken, crashed>>

\* workerJ: wr->args = calloc(1, sizeof(args_t)); freed blocks are not handed out again
Alloc(w) ==
  /\ At(w, "alloc")
  /\ crashed' = (job[w] = 0)
  /\ IF job[w] = 0
       THEN UNCHANGED <<pc, argsVars>>
       ELSE /\ args' = job[w]
            /\ heap' = [heap EXCEPT ![job[w]] = NewArgs]
            /\ Goto(w, "ped")
  /\ UNCHANGED <<queueVars, epc, job, arg, out, clientVars, taken>>

\* ... wr->args->ped = job->ped
SetPed(w) ==
  /\ At(w, "ped")
  /\ heap' = [heap EXCEPT ![args].ped = job[w]]
  /\ Goto(w, "client")
  /\ UNCHANGED <<queueVars, epc, job, arg, out, args, clientVars, taken, crashed>>

\* (mutant) the answer goes to the connection the epoll thread read last
SetLastClient(w) ==
  /\ At(w, "client")
  /\ heap' = [heap EXCEPT ![args].client = arrived[Len(arrived)]]
  /\ Goto(w, "call")
  /\ UNCHANGED <<queueVars, epc, job, arg, out, args, clientVars, taken, crashed>>

\* ... wr->args->client = job->ped->client; lockeos is the same for every job
SetClient(w) ==
  /\ At(w, "client")
  /\ heap' = [heap EXCEPT ![args].client = arrived[job[w]]]
  /\ Goto(w, "call")
  /\ UNCHANGED <<queueVars, epc, job, arg, out, args, clientVars, taken, crashed>>

\* ... job->procesarPedido(wr->args)
Call(w) ==
  /\ At(w, "call")
  /\ arg' = [arg EXCEPT ![w] = args]
  /\ Goto(w, "run")
  /\ UNCHANGED <<queueVars, epc, job, out, argsVars, clientVars, taken, crashed>>

\* the handler works on args->ped (a NULL ped kills the process)
Run(w) ==
  /\ At(w, "run")
  /\ \/ heap[arg[w]].ped = 0 /\ crashed' = TRUE /\ UNCHANGED <<pc, out>>
     \/ /\ heap[arg[w]].ped # 0 /\ UNCHANGED crashed
        /\ out' = [out EXCEPT ![w] = heap[arg[w]].ped]
        /\ Goto(w, "reply")
  /\ UNCHANGED <<queueVars, epc, job, arg, argsVars, clientVars, taken>>

\* ... sends the result to args->client
Reply(w) ==
  LET c == heap[arg[w]].client IN
  /\ At(w, "reply")
  /\ got' = IF c = NoClient THEN got ELSE [got EXCEPT ![c] = Append(@, out[w])]
  /\ Goto(w, "free")
  /\ UNCHANGED <<queueVars, epc, job, arg, out, argsVars, inbox, arrived, taken, crashed>>

\* ... frees its arguments; the second free of a block kills the process
Free(w) ==
  /\ At(w, "free")
  /\ \/ heap[arg[w]].state = "freed" /\ crashed' = TRUE /\ UNCHANGED <<pc, job, arg, out, heap>>
     \/ /\ heap[arg[w]].state = "live" /\ UNCHANGED crashed
        /\ heap' = [heap EXCEPT ![arg[w]].state = "freed"]
        /\ job' = [job EXCEPT ![w] = 0] /\ arg' = [arg EXCEPT ![w] = 0]
        /\ out' = [out EXCEPT ![w] = 0]
        /\ Goto(w, "wait")
  /\ UNCHANGED <<queueVars, epc, args, clientVars, taken>>

WorkerStep(w) ==
  \/ ExtractWait(w) \/ ExtractLock(w) \/ ExtractHead(w) \/ ExtractCount(w)
  \/ Alloc(w) \/ SetPed(w) \/ SetClient(w) \/ Call(w)
  \/ Run(w) \/ Reply(w) \/ Free(w)

\* every request the bound allows was served, or the process died
Over ==
  /\ \/ crashed
     \/ /\ Len(arrived) = MaxRequests /\ epc = "recv" /\ list = <<>>
        /\ \A w \in Worker : pc[w] = "wait"
  /\ UNCHANGED vars

Next ==
  \/ \E c \in Client : Send(c)
  \/ EpollStep
  \/ \E w \in Worker : WorkerStep(w)
  \/ Over

Spec == Init /\ [][Next]_vars

\* every thread that can run does run
FairSpec == Spec /\ WF_vars(EpollStep) /\ \A w \in Worker : WF_vars(WorkerStep(w))

-----------------------------------------------------------------------------
(* Properties *)

\* The semaphore never promises more than the list holds: the elements of the list are
\* the units of the semaphore, the workers that took a unit and not yet an element, and
\* the element whose sem_post is still to come.
Claims == {w \in Worker : pc[w] \in {"lock", "head"}}
SemCountsList ==
  sem + Cardinality(Claims) + (IF epc \in {"size", "post"} THEN 1 ELSE 0) = Len(list)

\* No worker pops an empty list, which would hand it a NULL job.
NeverPopsEmpty == \A w \in Worker : pc[w] = "head" => list # <<>>

\* elements_count and the linked elements agree whenever nobody is inside the list.
SizeIsLength == access = NoWorker => size = Len(list)

\* Every job is handed to exactly one worker, in the order of arrival.
Deposited == [i \in 1..(Len(taken) + Len(list)) |-> i]
Channel == INSTANCE JobChannel WITH Job <- Id, sent <- Deposited, taken <- taken
IsFifoChannel == Channel!Spec

\* Every client reads the results of its own requests, each of them once and in the
\* order it sent them.
AnswersMatch ==
  \A c \in Client : \A i \in DOMAIN got[c] :
    /\ got[c][i] \in RequestsOf(c)
    /\ Cardinality({n \in RequestsOf(c) : n <= got[c][i]}) = i

\* Every request that a client sends is answered to it.
EveryClientIsAnswered ==
  \A c \in Client :
    c \in inbox ~> c \notin inbox /\ Len(got[c]) = Cardinality(RequestsOf(c))
-----------------------------------------------------------------------------
(* The inductive invariant behind TypeOK, SemCountsList, NeverPopsEmpty and   *)
(* IsFifoChannel                                                              *)

Bit(b) == IF b THEN 1 ELSE 0

\* the mutex is owned by whoever is inside the list
MutexOf ==
  /\ access = Epoll <=> epc \in {"link", "size"}
  /\ \A w \in Worker : access = w <=> pc[w] \in {"head", "size"}

\* the count lags behind the links by the owner's pending update
SizeTracksList ==
  size + Bit(epc = "size") = Len(list) + Bit(\E w \in Worker : pc[w] = "size")

\* the list holds the jobs that follow the ones taken, up to the last that arrived
ListIsNext ==
  /\ Len(arrived) = Len(taken) + Len(list) + Bit(epc \in {"lock", "link"})
  /\ \A i \in 1..Len(taken) : taken[i] = i
  /\ \A i \in 1..Len(list) : list[i] = Len(taken) + i

QueueInv == MutexOf /\ SemCountsList /\ SizeTracksList /\ ListIsNext

\* the requests of the bound are the ones that arrived and the ones in the sockets
InboxBounded == IsFiniteSet(inbox) /\ Len(arrived) + Cardinality(inbox) <= MaxRequests

\* what a worker holds once it has a job, allocated its arguments, passed them on, and
\* run its handler
WorkersFollow ==
  \A w \in Worker :
    /\ pc[w] \in {"size", "alloc", "ped", "client", "call"} => job[w] \in 1..Len(arrived)
    /\ pc[w] \in {"ped", "client", "call"} => args \in Id
    /\ pc[w] \in {"run", "reply", "free"} => arg[w] \in Id
    /\ pc[w] = "reply" => out[w] \in Id

IInv == TypeOK /\ QueueInv /\ InboxBounded /\ WorkersFollow
-----------------------------------------------------------------------------
(* ... and, with one worker, behind AnswersMatch *)

SingleWorker == \A v, w \in Worker : v = w

\* a worker has a job whose answer is not sent yet
HasJob(w) == pc[w] \in {"size", "alloc", "ped", "client", "call", "run", "reply"}
Served == Len(taken) - Bit(\E w \in Worker : HasJob(w))

\* nobody else has written to the shared arguments since their worker did
ArgumentsAreOwn ==
  \A w \in Worker :
    LET n == job[w] IN
    /\ HasJob(w) => n = Len(taken)
    /\ pc[w] \in {"ped", "client", "call"} => args = n
    /\ pc[w] \in {"run", "reply"} => arg[w] = n
    /\ pc[w] \in {"client", "call", "run", "reply"} => heap[n].ped = n
    /\ pc[w] \in {"call", "run", "reply"} => heap[n].client = arrived[n]
    /\ pc[w] = "reply" => out[w] = n

\* the requests of c up to the n-th of all
Earlier(c, n) == {m \in RequestsOf(c) : m <= n}
\* what was sent to a client answers its requests up to the last one served
AnswersFollow ==
  \A c \in Client :
    /\ Len(got[c]) = Cardinality(Earlier(c, Served))
    /\ \A i \in DOMAIN got[c] :
         got[c][i] \in Earlier(c, Served) /\ Cardinality(Earlier(c, got[c][i])) = i

SingleInv == ArgumentsAreOwn /\ AnswersFollow
=============================================================================
