------------------------------- MODULE EventLoop -------------------------------
(***************************************************************************)
(* The conversation between the clients' sockets (fsc/sockear.c,           *)
(* fsc/connectionPool.c) and the event loop of the RFS server (rfs/rfs.c,  *)
(* rfs/commons/sockear.c, rfs/socketHandler.c): connection, handshake,     *)
(* request, answer, and the death of a client at any point.                *)
(*                                                                         *)
(* One thread waits in an edge-triggered epoll, accepts one connection per *)
(* event of the listener and reads one request per event of a socket, with *)
(* blocking calls; the threads of the pool answer on the descriptor that   *)
(* the request came from, whoever owns it by then.                         *)
(*                                                                         *)
(* A stream is a sequence of units.  A message is a header of two units,   *)
(* whose first declares the length of the payload modulo Width (the 16 bits*)
(* of the length field), and its payload.                                  *)
(***************************************************************************)
EXTENDS Integers, Sequences, FiniteSets, FiniteSetsExt

CONSTANTS Client,         \* sockets the FSC processes open, numbered as they connect
          NoClient,
          Fd,             \* descriptors the server can have open
          Listener,       \* sfd
          Width,          \* 2^16
          RequestSizes,   \* units of payload of a request ...
          AnswerSizes,    \* ... and of an answer
          MaxRequests,    \* bound: requests sent
          MaxFaults       \* bound: clients that die, and calls of send or recv that move
                          \* less than they could

ASSUME LoopAssumption ==
  /\ Client \subseteq Nat /\ NoClient \notin Client /\ Fd \subseteq Nat /\ Listener \notin Fd
  /\ Width \in Nat \ {0} /\ AnswerSizes \subseteq Nat
  /\ RequestSizes \subseteq 1..(Width - 1)      \* FUSE writes at most a page at a time
  /\ {MaxRequests, MaxFaults} \subseteq Nat

VARIABLES
  conn,         \* state of each client
  up, down,     \* units on their way to and from the server
  heard,        \* units the client has read of the message it reads
  lacks,        \* units of payload it still waits for
  turn,         \* number of its last request
  backlog,      \* connections that wait for accept
  listening,    \* sfd is open
  file,         \* client at the other end of each open descriptor
  watched,      \* descriptors added to the epoll set
  ready,        \* epoll's ready list
  batch,        \* events that epoll_wait returned and the loop has not looked at
  pc, cur, buf, \* control of the loop: the descriptor it reads and what it has read
  jobs,         \* requests deposited and not answered: [fd, by, turn]
  reset,        \* dead clients whose kernel answers with RST
  sent, faults,
  damage,       \* history: what happened to the client's streams
  crowded,      \* history: two connections made one event
  inherited     \* history: clients whose descriptor had another's job pending

streamVars == <<up, down>>
clientVars == <<conn, heard, lacks, turn>>
epollVars  == <<backlog, listening, file, watched, ready, batch>>
loopVars   == <<pc, cur, buf>>
ghostVars  == <<damage, crowded, inherited>>
countVars  == <<sent, faults>>
vars == <<streamVars, clientVars, epollVars, loopVars, jobs, reset, countVars, ghostVars>>

States == {"away", "syn", "shaking", "idle", "asked", "body", "lost", "dead"}
\* header and its length, payload; garbage
Kinds  == {"h", "l", "p"}
Unit   == (Kinds \X (0..(Width - 1)) \X Client \X (0..MaxRequests))
            \cup ({"g"} \X {0} \X {NoClient} \X {0})

TypeOK ==
  /\ conn \in [Client -> States]
  /\ up \in [Client -> Seq(Unit)] /\ down \in [Client -> Seq(Unit)]
  /\ heard \in [Client -> Seq(Unit)] /\ lacks \in [Client -> 0..(Width - 1)]
  /\ turn \in [Client -> 0..MaxRequests]
  /\ backlog \in Seq(Client) /\ listening \in BOOLEAN
  /\ file \in [Fd -> Client \cup {NoClient}] /\ watched \subseteq Fd
  /\ ready \subseteq Fd \cup {Listener} /\ batch \subseteq Fd \cup {Listener}
  /\ pc \in {"wait", "next", "shake", "header", "payload", "stuck", "crashed"}
  /\ cur \in Fd \cup {Listener} /\ buf \in Seq(Unit)
  /\ jobs \subseteq [fd : Fd, by : Client, turn : 0..MaxRequests]
  /\ reset \subseteq Client
  /\ sent \in 0..MaxRequests /\ faults \in 0..MaxFaults
  /\ damage \in [Client -> SUBSET {"send", "recv", "wrap"}]
  /\ crowded \in BOOLEAN /\ inherited \subseteq Client

Init ==
  /\ conn = [c \in Client |-> "away"]
  /\ up = [c \in Client |-> <<>>] /\ down = [c \in Client |-> <<>>]
  /\ heard = [c \in Client |-> <<>>] /\ lacks = [c \in Client |-> 0]
  /\ turn = [c \in Client |-> 0]
  /\ backlog = <<>> /\ listening = TRUE
  /\ file = [f \in Fd |-> NoClient] /\ watched = {}
  /\ ready = {} /\ batch = {}
  /\ pc = "wait" /\ cur = Listener /\ buf = <<>>
  /\ jobs = {} /\ reset = {} /\ sent = 0 /\ faults = 0
  /\ damage = [c \in Client |-> {}] /\ crowded = FALSE /\ inherited = {}

-----------------------------------------------------------------------------
(* Messages and streams *)

\* (mutant) a length wider than its field
DeclaredLong(size) == size
\* the length field holds 16 bits of the length
Declared(size) == size % Width

Message(c, n, size) ==
  <<<<"h", Declared(size), c, n>>, <<"l", 0, c, n>>>> \o [i \in 1..size |-> <<"p", 0, c, n>>]
Handshake(c) == Message(c, 0, 0)
Garbage(k) == [i \in 1..k |-> <<"g", 0, NoClient, 0>>]

\* what deserializadorHeader makes of two units is a header only if they are one
IsHeader(units) == units[1][1] = "h" /\ units[2][1] = "l"

\* recv of at most want units returns what is there, or less of it
Amounts(stream, want) ==
  LET most == Min({want, Len(stream)}) IN
  IF faults < MaxFaults THEN 1..most ELSE {most} \ {0}
CountTear(stream, want, n) ==
  faults' = IF n < Min({want, Len(stream)}) THEN faults + 1 ELSE faults

Alive(c) == conn[c] # "dead"
\* bound: what clients do once the loop is beyond help is not followed
Serving == pc \notin {"stuck", "crashed"}
FdsOf(c) == {f \in watched : file[f] = c}
\* data, or the end of the stream, arrives: the descriptor becomes ready
Notify(c) == ready' = ready \cup FdsOf(c)
Readable(s) ==
  IF s = Listener THEN backlog # <<>>
  ELSE file[s] # NoClient /\ (up[file[s]] # <<>> \/ ~Alive(file[s]))

-----------------------------------------------------------------------------
(* The clients: connectionPool_init, then one request at a time *)

\* crear_socket, conectar_socket: a second connection before the loop has seen the first
\* adds no event
Connect(c) ==
  /\ conn[c] = "away" /\ \A d \in Client : d < c => conn[d] # "away"
  /\ listening /\ Serving
  /\ conn' = [conn EXCEPT ![c] = "syn"]
  /\ backlog' = Append(backlog, c)
  /\ ready' = ready \cup {Listener}
  /\ crowded' = (crowded \/ Listener \in ready)
  /\ UNCHANGED <<streamVars, heard, lacks, turn, listening, file, watched, batch, loopVars,
                 jobs, reset, countVars, damage, inherited>>

\* iniciar_comunicacion
SendShake(c) ==
  /\ conn[c] = "syn" /\ Serving
  /\ conn' = [conn EXCEPT ![c] = "shaking"]
  /\ up' = [up EXCEPT ![c] = @ \o Handshake(c)]
  /\ Notify(c)
  /\ UNCHANGED <<down, heard, lacks, turn, backlog, listening, file, watched, batch,
                 loopVars, jobs, reset, countVars, ghostVars>>

\* a callback sends only on a socket from the pool (FuseClient: OneOutstanding)
Askers == {"idle"}

\* enviar_paquete of a request: send is told the whole length again after it has sent a
\* part, so that what lies behind the buffer follows the request
Ask(c) ==
  /\ conn[c] \in Askers /\ sent < MaxRequests /\ Serving
  /\ conn' = [conn EXCEPT ![c] = "asked"]
  /\ sent' = sent + 1 /\ turn' = [turn EXCEPT ![c] = sent + 1]
  /\ \E size \in RequestSizes :
       LET m == Message(c, sent + 1, size) IN
       \/ /\ up' = [up EXCEPT ![c] = @ \o m]
          /\ UNCHANGED <<faults, damage>>
       \/ \E part \in 1..(Len(m) - 1) :
            /\ faults < MaxFaults /\ faults' = faults + 1
            /\ up' = [up EXCEPT ![c] = @ \o m \o Garbage(part)]
            /\ damage' = [damage EXCEPT ![c] = @ \cup {"send"}]
  /\ Notify(c)
  /\ UNCHANGED <<down, heard, lacks, backlog, listening, file, watched, batch, loopVars, jobs,
                 reset, crowded, inherited>>

\* the FSC process is killed: what it had not sent yet is never sent, and what it had
\* not read makes its kernel reset the connection
Die(c) ==
  /\ conn[c] \notin {"away", "dead"} /\ faults < MaxFaults /\ Serving
  /\ conn' = [conn EXCEPT ![c] = "dead"] /\ faults' = faults + 1
  /\ \E n \in 0..Len(up[c]) : up' = [up EXCEPT ![c] = SubSeq(@, 1, n)]
  /\ down' = [down EXCEPT ![c] = <<>>] /\ heard' = [heard EXCEPT ![c] = <<>>]
  /\ reset' = IF down[c] # <<>> THEN reset \cup {c} ELSE reset
  /\ Notify(c)
  /\ UNCHANGED <<lacks, turn, backlog, listening, file, watched, batch, loopVars, jobs, sent, ghostVars>>

\* recibir in the client: every recv asks for the whole length again
ClientReads(c, want) ==
  /\ Len(heard[c]) < want
  /\ \E n \in Amounts(down[c], want) :
       /\ heard' = [heard EXCEPT ![c] = @ \o SubSeq(down[c], 1, n)]
       /\ down' = [down EXCEPT ![c] = SubSeq(@, n + 1, Len(@))]
       /\ CountTear(down[c], want, n)
       /\ damage' = [damage EXCEPT ![c] = IF Len(heard[c]) + n > want THEN @ \cup {"recv"} ELSE @]

ReadHeaderOf(c) ==
  /\ conn[c] \in {"shaking", "asked"} /\ ClientReads(c, 2)
  /\ UNCHANGED <<up, conn, lacks, turn, epollVars, loopVars, jobs, reset, sent, crowded,
                 inherited>>

\* the type decides whether a payload follows; an answer that is none is never understood
UseHeader(c) ==
  /\ conn[c] \in {"shaking", "asked"} /\ Len(heard[c]) >= 2
  /\ heard' = [heard EXCEPT ![c] = <<>>]
  /\ lacks' = [lacks EXCEPT ![c] = IF IsHeader(heard[c]) THEN heard[c][1][2] ELSE 0]
  /\ conn' = [conn EXCEPT ![c] =
                IF ~IsHeader(heard[c]) THEN "lost" ELSE IF lacks'[c] = 0 THEN "idle" ELSE "body"]
  /\ UNCHANGED <<streamVars, turn, epollVars, loopVars, jobs, reset, countVars, ghostVars>>

ReadBodyOf(c) ==
  /\ conn[c] = "body" /\ ClientReads(c, lacks[c])
  /\ UNCHANGED <<up, conn, lacks, turn, epollVars, loopVars, jobs, reset, sent, crowded,
                 inherited>>

UseBody(c) ==
  /\ conn[c] = "body" /\ Len(heard[c]) >= lacks[c]
  /\ heard' = [heard EXCEPT ![c] = <<>>] /\ lacks' = [lacks EXCEPT ![c] = 0]
  /\ conn' = [conn EXCEPT ![c] = "idle"]
  /\ UNCHANGED <<streamVars, turn, epollVars, loopVars, jobs, reset, countVars, ghostVars>>

-----------------------------------------------------------------------------
(* The event loop *)

In(label) == pc = label
Peer == file[cur]
AtEnd == up[Peer] = <<>> /\ ~Alive(Peer)
UntouchedByLoop == <<clientVars, jobs, sent, damage>>
UntouchedByEvent == <<streamVars, UntouchedByLoop, reset, faults, crowded>>

\* epoll_wait reports each ready descriptor that can be read now, once
EpollWait ==
  /\ In("wait") /\ \E s \in ready : Readable(s)
  /\ batch' = {s \in ready : Readable(s)} /\ ready' = {}
  /\ pc' = "next"
  /\ UNCHANGED <<backlog, listening, file, watched, cur, buf, inherited, UntouchedByEvent>>

BatchDone ==
  /\ In("next") /\ batch = {} /\ pc' = "wait"
  /\ UNCHANGED <<epollVars, cur, buf, inherited, UntouchedByEvent>>

\* an event of the listener: one accept, on the lowest free descriptor
Accept ==
  LET free == {f \in Fd : file[f] = NoClient}
      f == Min(free)
      c == Head(backlog)
  IN
  /\ In("next") /\ Listener \in batch /\ free # {}
  /\ batch' = batch \ {Listener}
  /\ backlog' = Tail(backlog) /\ file' = [file EXCEPT ![f] = c]
  /\ inherited' = IF \E j \in jobs : j.fd = f THEN inherited \cup {c} ELSE inherited
  /\ pc' = "shake" /\ cur' = f /\ buf' = <<>>
  /\ UNCHANGED <<listening, watched, ready, UntouchedByEvent>>

\* close of a descriptor takes it out of the epoll set
CloseFd(f) ==
  /\ file' = [file EXCEPT ![f] = NoClient]
  /\ watched' = watched \ {f} /\ ready' = ready \ {f}

\* cerrar(events[i].data.fd) in the listener's branch closes the listener itself, and the
\* break leaves the other events of the batch
CloseListener ==
  /\ listening' = FALSE /\ ready' = ready \ {Listener}
  /\ batch' = {} /\ pc' = "wait"

\* no descriptor is left: aceptar_clientes returns -4, which is not the -1 that the loop
\* looks for, and the buffer of the handshake is never written
AcceptFails ==
  /\ In("next") /\ Listener \in batch /\ \A f \in Fd : file[f] # NoClient
  /\ \/ CloseListener
     \/ pc' = "crashed" /\ UNCHANGED <<listening, ready, batch>>      \* epoll_ctl, abort
  /\ UNCHANGED <<backlog, file, watched, cur, buf, inherited, UntouchedByEvent>>

\* EPOLLERR, EPOLLHUP
CloseReset ==
  /\ In("next")
  /\ \E f \in batch \ {Listener} : file[f] \in reset /\ CloseFd(f) /\ batch' = batch \ {f}
  /\ UNCHANGED <<backlog, listening, loopVars, inherited, UntouchedByEvent>>

\* an event of a socket: read a request from it
BeginRead ==
  /\ In("next")
  /\ \E f \in batch \ {Listener} :
       file[f] \notin reset /\ batch' = batch \ {f} /\ cur' = f
  /\ pc' = "header" /\ buf' = <<>>
  /\ UNCHANGED <<backlog, listening, file, watched, ready, inherited, UntouchedByEvent>>

\* (mutant) the server waits for a terminating zero that the client does not send
WantZero == IF In("payload") THEN buf[1][2] + 3 ELSE 2
\* how many units the recibir the loop is in waits for, and which are already used
Want == IF In("payload") THEN buf[1][2] + 2 ELSE 2
Used == IF In("payload") THEN 2 ELSE 0
Reading == pc \in {"shake", "header", "payload"} /\ Len(buf) < Want
ReadNothing == Reading /\ Len(buf) = Used /\ AtEnd

\* recibir in the server asks for what is missing only
ServerReads ==
  LET want == Want - Len(buf) IN
  /\ Reading
  /\ \E n \in Amounts(up[Peer], want) :
       /\ buf' = buf \o SubSeq(up[Peer], 1, n)
       /\ up' = [up EXCEPT ![Peer] = SubSeq(@, n + 1, Len(@))]
       /\ CountTear(up[Peer], want, n)
  /\ UNCHANGED <<down, epollVars, pc, cur, reset, crowded, inherited, UntouchedByLoop>>

\* recv returns 0 inside recibir's loop, and goes on doing so
Spin ==
  /\ Reading /\ Len(buf) > Used /\ AtEnd
  /\ pc' = "stuck"
  /\ UNCHANGED <<epollVars, cur, buf, inherited, UntouchedByEvent>>

\* epoll_ctl(EPOLL_CTL_ADD) looks at the descriptor at once
Watch(f) ==
  /\ watched' = watched \cup {f}
  /\ ready' = IF up[file[f]] # <<>> \/ ~Alive(file[f]) THEN ready \cup {f} ELSE ready

\* send to a client that died makes its kernel reset the connection; after a reset it is
\* a SIGPIPE, unless the error of the reset is reported first
Deliver(c, m) ==
  IF Alive(c) THEN down' = [down EXCEPT ![c] = @ \o m] /\ UNCHANGED <<reset, pc>>
  ELSE /\ reset' = reset \cup {c} /\ UNCHANGED down
       /\ UNCHANGED pc \/ (c \in reset /\ pc' = "crashed")

\* the handshake was OK: answer it and watch the new descriptor.  Of a client that died
\* before it sent anything the buffer was never written, and may read as OK
Shaken ==
  /\ In("shake") /\ (Len(buf) = 2 \/ ReadNothing)
  /\ down' = [down EXCEPT ![Peer] = IF Alive(Peer) THEN @ \o Handshake(Peer) ELSE @]
  /\ reset' = IF Alive(Peer) THEN reset ELSE reset \cup {Peer}
  /\ Watch(cur)
  /\ pc' = "next" /\ buf' = <<>>
  /\ UNCHANGED <<up, backlog, listening, file, batch, cur, faults, crowded, inherited,
                 UntouchedByLoop>>

\* ... or as anything else
ShakeRefused ==
  /\ In("shake") /\ ReadNothing /\ CloseListener
  /\ UNCHANGED <<backlog, file, watched, cur, buf, inherited, UntouchedByEvent>>

\* the header's first recv returned 0: close.  -1 (the reset came meanwhile): carry on with
\* the descriptor open
HeaderUnread ==
  /\ In("header") /\ ReadNothing /\ pc' = "next"
  /\ CloseFd(cur) \/ (Peer \in reset /\ UNCHANGED <<file, watched, ready>>)
  /\ UNCHANGED <<backlog, listening, batch, cur, buf, inherited, UntouchedByEvent>>

\* of garbage becomes a NULL job, which kills a worker, or a wait for a payload of any length
HeaderRead ==
  /\ In("header") /\ Len(buf) = 2
  /\ IF IsHeader(buf) THEN pc' = "payload" ELSE pc' \in {"crashed", "stuck"}
  /\ UNCHANGED <<epollVars, cur, buf, inherited, UntouchedByEvent>>

\* (mutant) the loop leaves the batch after a request
DepositAndBreak ==
  /\ jobs' = jobs \cup {[fd |-> cur, by |-> buf[1][3], turn |-> buf[1][4]]}
  /\ batch' = {}
\* functionIdentifyAndOperate, pool_deposite_job_in_queue
Deposit ==
  /\ jobs' = jobs \cup {[fd |-> cur, by |-> buf[1][3], turn |-> buf[1][4]]}
  /\ UNCHANGED batch

\* a whole request was read; or its payload's first recv returned 0 (recibir's result is
\* not looked at), and the request is made of a buffer that was never written
RequestRead ==
  /\ In("payload") /\ (Len(buf) = Want \/ ReadNothing)
  /\ \/ Deposit /\ pc' = "next" /\ buf' = <<>>
     \/ ReadNothing /\ pc' = "crashed" /\ UNCHANGED <<jobs, batch, buf>>
  /\ UNCHANGED <<streamVars, clientVars, backlog, listening, file, watched, ready, cur, reset,
                 countVars, ghostVars>>

-----------------------------------------------------------------------------
(* The pool's threads, as far as the sockets go *)

\* (mutant) the answer goes to the descriptor the loop reads
AnswerFdCurrent(j) == cur
\* args->client: the descriptor the request came from
AnswerFd(j) == j.fd

\* a worker answers whoever owns the descriptor now; a closed one is an error that nobody
\* looks at
Answer(j) ==
  LET c == IF AnswerFd(j) \in Fd THEN file[AnswerFd(j)] ELSE NoClient IN
  /\ Serving /\ j \in jobs /\ jobs' = jobs \ {j}
  /\ \E size \in AnswerSizes :
       IF c = NoClient THEN UNCHANGED <<down, reset, pc, damage>>
       ELSE /\ Deliver(c, Message(j.by, j.turn, size))
            /\ damage' = [damage EXCEPT ![c] =
                            IF Alive(c) /\ size >= Width THEN @ \cup {"wrap"} ELSE @]
  /\ UNCHANGED <<up, clientVars, epollVars, cur, buf, countVars, crowded, inherited>>

Loop ==
  \/ EpollWait \/ BatchDone \/ Accept \/ AcceptFails \/ CloseReset \/ BeginRead
  \/ ServerReads \/ Spin \/ Shaken \/ ShakeRefused \/ HeaderUnread \/ HeaderRead \/ RequestRead

Listen(c) ==
  SendShake(c) \/ ReadHeaderOf(c) \/ UseHeader(c) \/ ReadBodyOf(c) \/ UseBody(c)

Next ==
  \/ Loop
  \/ \E c \in Client : Connect(c) \/ Ask(c) \/ Die(c) \/ Listen(c)
  \/ \E j \in jobs : Answer(j)

Spec == Init /\ [][Next]_vars

\* the threads of both programs run; nobody has to connect, to ask or to die
FairSpec ==
  /\ Spec /\ WF_vars(Loop) /\ WF_vars(\E j \in jobs : Answer(j))
  /\ \A c \in Client : WF_vars(Listen(c))

-----------------------------------------------------------------------------
(* Properties *)

Stopped == ~Serving \/ ~listening

\* The loop may sleep only when nothing is left to read: what an edge-triggered epoll
\* reported once and nobody read is never reported again (rfs.c:246).  The code reads
\* one request per event, and gets away with it because of FuseClient's OneOutstanding;
\* it accepts one connection per event, and forgets one when two arrive together.  (It
\* also forgets the end of a stream that came with the last request: that descriptor is
\* never closed.)
NothingForgotten ==
  In("wait") /\ listening =>
    /\ \A f \in watched :
         up[file[f]] # <<>> => f \in ready \/ damage[file[f]] # {} \/ file[f] \in inherited
    /\ backlog # <<>> => Listener \in ready \/ crowded

\* The one thread that reads for everybody is never held up by a living client that has
\* nothing more to say, but for the moment between its connect and its handshake
\* (recibir blocks, rfs.c:213, 257 and 295).
NobodyHoldsTheLoop ==
  Reading /\ up[Peer] = <<>> /\ Alive(Peer) =>
    (pc = "shake" /\ conn[Peer] = "syn") \/ damage[Peer] # {}

\* The loop dies or hangs for three reasons only: a client that died, a stream whose framing
\* a short send of its client broke, or a connection beyond the last descriptor.
LoopStopsOnlyByClients ==
  pc \in {"stuck", "crashed"} =>
    \/ \E c \in Client : ~Alive(c) \/ "send" \in damage[c]
    \/ backlog # <<>> /\ \A f \in Fd : file[f] # NoClient

\* Nobody else's conversation, however slow, keeps the loop from the others.
LoopIsHeldOnlyByClients == NobodyHoldsTheLoop /\ LoopStopsOnlyByClients

\* A client that reads an answer reads the one to its last request, whole and from its
\* start, unless its own stream lost its framing or its descriptor was a dead client's
\* whose answer was still to come (args->client is a number, rfs.c:296).
AnswersAreOwn ==
  \A c \in Client : damage[c] = {} /\ c \notin inherited =>
    \A i \in DOMAIN heard[c] :
      /\ heard[c][i][3] = c /\ heard[c][i][4] = turn[c]
      /\ conn[c] = "body" <=> heard[c][i][1] = "p"

\* Every request of a client is answered, and every connection gets its handshake, as
\* long as the loop goes on, its stream is whole and no two connections came at once.
ClientsAreServed ==
  \A c \in Client :
    conn[c] \in {"syn", "shaking", "asked", "body"} ~>
      (conn[c] \in {"idle", "dead"} \/ Stopped \/ damage[c] # {} \/ c \in inherited \/ crowded)

-----------------------------------------------------------------------------
(* The inductive invariant *)

\* the loop reads from cur
Busy == pc \in {"shake", "header", "payload"}
\* what a client has sent and the loop has not used yet
InHand(c) == IF cur \in Fd /\ Peer = c THEN buf ELSE <<>>
Stream(c) == InHand(c) \o up[c]
\* what was sent to a client and it has not used yet
Inbound(c) == heard[c] \o down[c]
\* the loop has answered its handshake
Greeted(c) == \E f \in watched : file[f] = c

\* a descriptor has one client, and a client one descriptor or one place in the backlog
BacklogIsNew ==
  \A i \in DOMAIN backlog :
    /\ conn[backlog[i]] # "away" /\ \A f \in Fd : file[f] # backlog[i]
    /\ \A k \in DOMAIN backlog : backlog[k] = backlog[i] => k = i
FilesAreApart ==
  \A f \in Fd : file[f] # NoClient =>
    conn[file[f]] # "away" /\ \A g \in Fd : file[g] = file[f] => g = f

\* what the loop has in its hands, read off its place in the code
LoopFollows ==
  /\ pc = "wait" => batch = {}
  /\ Busy => cur \in Fd /\ Peer # NoClient /\ cur \notin batch
  /\ pc = "shake" => cur \notin watched
  /\ pc \in {"header", "payload"} => cur \in watched
  /\ pc = "payload" => Len(buf) >= 2 /\ IsHeader(buf)
  /\ Busy => Len(buf) <= Want
  /\ pc \in {"wait", "next"} => buf = <<>>
\* only open descriptors are watched, and only watched ones have events
EventsAreOfWatched ==
  /\ \A f \in watched : file[f] # NoClient
  /\ ready \subseteq watched \cup {Listener} /\ batch \subseteq watched \cup {Listener}
  /\ reset \subseteq {c \in Client : ~Alive(c)}
\* each connection in the backlog has its event
Bit(b) == IF b THEN 1 ELSE 0
BacklogHasEvents ==
  /\ Listener \in batch => backlog # <<>>
  /\ listening /\ Serving /\ ~crowded =>
       Len(backlog) <= Bit(Listener \in ready) + Bit(Listener \in batch)

\* a sequence of whole messages
Ends(s, i) == i + 1 + s[i][2]
Framed(s) ==
  /\ s # <<>> => s[1][1] = "h"
  /\ \A i \in DOMAIN s : s[i][1] = "h" =>
       /\ Ends(s, i) <= Len(s) /\ s[i + 1][1] = "l"
       /\ \A k \in (i + 2)..Ends(s, i) : s[k][1] = "p"
       /\ Ends(s, i) < Len(s) => s[Ends(s, i) + 1][1] = "h"
\* a message of c's last turn, or what is left of it
OwnMessage(c, s) ==
  /\ s[1][1] = "h" /\ Len(s) <= Ends(s, 1)
  /\ \A i \in DOMAIN s : s[i][3] = c /\ s[i][4] = turn[c]

\* a client that lives and never sent a torn message: whole messages are on their way, the
\* handshake first, and there is one for each event
Whole(c) == Alive(c) /\ "send" \notin damage[c]
StreamFramed(c) ==
  /\ Framed(Stream(c))
  /\ ~Greeted(c) /\ Stream(c) # <<>> => Stream(c)[1][2] = 0
  /\ conn[c] \in {"away", "syn"} => Stream(c) = <<>> /\ ~Greeted(c)
  /\ ~Greeted(c) /\ conn[c] \notin {"away", "syn"} => Stream(c) # <<>>
Reports(f) == f \in batch \/ (cur = f /\ pc \in {"header", "payload"})
EventsHaveMessages(f) ==
  /\ f \in ready \/ Reports(f) => Stream(file[f]) # <<>>
  /\ f \in ready /\ Reports(f) => Ends(Stream(file[f]), 1) < Len(Stream(file[f]))
FramingInv ==
  /\ \A c \in Client : Whole(c) => StreamFramed(c)
  /\ \A f \in watched : Alive(file[f]) /\ damage[file[f]] = {} => EventsHaveMessages(f)

\* a client whose streams are whole and whose descriptor was nobody's before
Clean(c) == damage[c] = {} /\ c \notin inherited
\* a connection whose handshake the loop has still to read
New(c) ==
  \/ \E f \in Fd \ watched : file[f] = c
  \/ \E i \in DOMAIN backlog : backlog[i] = c
PendingFor(c) == {j \in jobs : file[j.fd] = c}
\* at any time one party of the conversation has the word
Conversation(c) ==
  /\ conn[c] # "lost"
  /\ Stream(c) # <<>> =>
       /\ conn[c] \in {"shaking", "asked"} /\ (Greeted(c) => conn[c] = "asked")
       /\ Inbound(c) = <<>> /\ PendingFor(c) = {}
  /\ Inbound(c) # <<>> =>
       conn[c] \in {"shaking", "asked", "body"} /\ PendingFor(c) = {} /\ Greeted(c)
  /\ \A j \in PendingFor(c) : conn[c] = "asked" /\ j.by = c /\ j.turn = turn[c]
  /\ ~Greeted(c) => conn[c] \in {"away", "syn", "shaking"} /\ turn[c] = 0
\* ... and what it says is one message
Answering(c) ==
  LET d == Inbound(c) IN
  /\ \A i \in DOMAIN d : d[i][3] = c /\ d[i][4] = turn[c]
  /\ conn[c] = "body" =>
       d # <<>> /\ Len(d) = lacks[c] /\ \A i \in DOMAIN d : d[i][1] = "p"
  /\ conn[c] # "body" /\ d # <<>> =>
       Framed(d) /\ Len(d) = Ends(d, 1) /\ Len(heard[c]) <= 2
ConversationInv ==
  \A c \in Client : Clean(c) =>
    /\ Stream(c) # <<>> => OwnMessage(c, Stream(c))
    /\ New(c) => Len(Stream(c)) <= 2
    /\ IF Alive(c) THEN Conversation(c) /\ Answering(c) ELSE heard[c] = <<>>

\* nothing that was sent waits without an event
NothingWaits ==
  listening /\ Serving =>
    \A f \in watched :
      Clean(file[f]) /\ up[file[f]] # <<>> => f \in ready \/ Reports(f)

LoopInv == TypeOK /\ BacklogIsNew /\ FilesAreApart /\ LoopFollows /\ EventsAreOfWatched
             /\ BacklogHasEvents
IInv == LoopInv /\ FramingInv /\ ConversationInv /\ NothingWaits /\ LoopStopsOnlyByClients

=============================================================================
