------------------------------ MODULE FuseClient ------------------------------
(***************************************************************************)
(* The FUSE callbacks of the client (fsc/fuse.c), its two pools of         *)
(* connections (fsc/connectionPool.c) and the cache in the RC server that  *)
(* it reads and drops around its requests (fsc/memcachear.c).              *)
(*                                                                         *)
(* A callback that changes a name or a size drops the cached listing of    *)
(* the father ("LC") or the cached attributes of the path ("AC"), gives its*)
(* memcached connection back, takes a socket and only then asks the RFS    *)
(* server.  getattr and readdir ask the cache first and, when it misses,   *)
(* keep the memcached connection while they wait for a socket and for the  *)
(* answer, which they store in the cache.                                  *)
(*                                                                         *)
(* The server is what OpenFileTable and Volume model, one atomic step per  *)
(* request here; the cache may lose a value at any time.  Once the server  *)
(* dies nothing is followed any further.                                   *)
(***************************************************************************)
EXTENDS Integers, Sequences, FiniteSets, SequencesExt

CONSTANTS Thread, Mount,
          MountOf,         \* [Thread -> Mount], the FSC process a FUSE thread belongs to
          Connections,     \* [Mount -> SUBSET Conn]: what connectionPool_init opened
          Conn,            \* connections; one number names a socket and a memcached_st
          NoConn,
          Path, Root, Father,
          Long,            \* paths of more than 40 characters
          Unterminated,    \* paths whose "AC" key fills its calloc'ed chunk (fuse.c:250)
          Tree,            \* [Path -> Kinds], the volume at the start
          Calls,           \* the calls the kernel makes on each thread: [op: Ops, path: Path]
          None,            \* no value
          MaxCalls         \* bound: calls made

ChangeOps == {"create", "mkdir", "unlink", "rmdir"}    \* change a directory
Lookups   == {"getattr", "readdir"}                    \* ask the cache first
Ops       == ChangeOps \cup Lookups \cup {"truncate", "write", "read"}
Kinds     == {"none", "reg", "dir"}
Errors    == {"NO_EXISTE", "YA_EXISTE", "NAME_TOO_LONG", "NO_ESTA_VACIO", "ESTA_LLENO"}

ASSUME ClientAssumption ==
  /\ MountOf \in [Thread -> Mount] /\ Connections \in [Mount -> SUBSET Conn]
  /\ \A m, n \in Mount : m # n => Connections[m] \cap Connections[n] = {}
  /\ \A m \in Mount : IsFiniteSet(Connections[m])
  /\ NoConn \notin Conn /\ MaxCalls \in Nat /\ IsFiniteSet(Thread)
  /\ Root \in Path /\ Father \in [Path -> Path] /\ Tree \in [Path -> Kinds]
  /\ \A p \in Path \ {Root} : Father[p] # p
  /\ Long \subseteq Path /\ Unterminated \subseteq Path
  /\ Calls \in [Thread -> SUBSET [op : Ops, path : Path \ {Root}]]

VARIABLES
  sockPool, memcPool,   \* pools->socketPool and memcachedPool of each mount, in order
  pc, op, path,         \* control and arguments of each thread's callback
  memc, sock,           \* the connections the callback has taken
  todo,                 \* keys it has still to drop
  asked,                \* key it looks up (None outside of getattr and readdir)
  answer,               \* last answer it received: [type, value]
  ret,                  \* what its last callback returned
  up, down,             \* requests and answers in flight on each socket
  cache,                \* the values RC holds for each key
  kind, size,           \* the server's volume
  serverUp,
  calls,                \* calls made so far
  why,                  \* history: how the value of a key came to be out of date
  outdated,             \* history: the answer a thread holds has been overtaken
  reput                 \* history: keys stored since a thread dropped them

poolVars   == <<sockPool, memcPool, memc, sock>>
callVars   == <<op, path>>
netVars    == <<up, down>>
diskVars   == <<kind, size>>
ghostVars  == <<why, outdated, reput>>
vars == <<poolVars, pc, callVars, todo, asked, answer, ret, netVars, cache, diskVars,
          serverUp, calls, ghostVars>>

Labels == {"idle", "cache", "drop", "get", "send", "recv", "put"}
Tags   == {"LC", "AC", "AC+"}
Key    == Tags \X Path
Request == [op : Ops, path : Path, by : Thread]
NoAnswer == [type |-> "none", value |-> None]

-----------------------------------------------------------------------------
(* What the server and the cache would say *)

\* the names ext2_ReadDir lists
Listing(k, d) == {p \in Path \ {Root} : Father[p] = d /\ k[p] # "none"}

\* the value that is right for a key on the volume k, s
Right(key, k, s) ==
  IF k[key[2]] = "none" THEN None
  ELSE IF key[1] = "LC" THEN Listing(k, key[2])
  ELSE [kind |-> k[key[2]], size |-> s[key[2]]]

\* "AC" + path is built without its final zero, in a chunk of the heap that it may fill
\* to the last byte: strlen then runs into the next chunk
KeysOf(o, p) ==
  IF o = "readdir" THEN {<<"LC", p>>}
  ELSE IF p \in Unterminated THEN {<<"AC", p>>, <<"AC+", p>>} ELSE {<<"AC", p>>}

\* (mutant) the callback drops the listing of the path instead of the father's
DropsOwnListing(o, p) ==
  CASE o \in {"create", "mkdir"}  -> <<<<"LC", p>>>>
    [] o \in {"unlink", "rmdir"}  -> <<<<"LC", p>>, <<"AC", p>>>>
    [] o = "truncate"             -> <<<<"AC", p>>>>
    [] OTHER                      -> <<>>

\* the keys each callback drops before it asks the server, in order
Drops(o, p) ==
  CASE o \in {"create", "mkdir"}  -> <<<<"LC", Father[p]>>>>
    [] o \in {"unlink", "rmdir"}  -> <<<<"LC", Father[p]>>, <<"AC", p>>>>
    [] o = "truncate"             -> <<<<"AC", p>>>>
    [] OTHER                      -> <<>>

\* (mutant) create trusts any answer
HandlesLess(o) ==
  CASE o = "create" -> {"NAME_TOO_LONG", "ESTA_LLENO"}
    [] o = "rmdir"  -> {"NO_EXISTE", "NAME_TOO_LONG", "NO_ESTA_VACIO"}
    [] OTHER        -> {"NO_EXISTE", "NAME_TOO_LONG"}

\* the types of answer each callback takes for an error; any other is success
Handles(o) ==
  CASE o = "create" -> {"YA_EXISTE", "NAME_TOO_LONG", "ESTA_LLENO"}
    [] o = "write"  -> {"NO_EXISTE", "NAME_TOO_LONG", "ESTA_LLENO"}
    [] o = "rmdir"  -> {"NO_EXISTE", "NAME_TOO_LONG", "NO_ESTA_VACIO"}
    [] OTHER        -> {"NO_EXISTE", "NAME_TOO_LONG"}

TypeOK ==
  /\ sockPool \in [Mount -> Seq(Conn)] /\ memcPool \in [Mount -> Seq(Conn)]
  /\ pc \in [Thread -> Labels] /\ op \in [Thread -> Ops] /\ path \in [Thread -> Path]
  /\ memc \in [Thread -> Conn \cup {NoConn}] /\ sock \in [Thread -> Conn \cup {NoConn}]
  /\ todo \in [Thread -> Seq(Key)] /\ asked \in [Thread -> Key \cup {None}]
  /\ \A t \in Thread : answer[t].type \in Errors \cup {"none", "OK"}
  /\ ret \in [Thread -> Errors \cup {"none", "success"}]
  /\ up \in [Conn -> Seq(Request)]
  /\ \A c \in Conn : \A i \in DOMAIN down[c] : down[c][i].type \in Errors \cup {"OK"}
  /\ DOMAIN cache = Key
  /\ kind \in [Path -> Kinds] /\ size \in [Path -> 0..MaxCalls]
  /\ serverUp \in BOOLEAN /\ calls \in 0..MaxCalls
  /\ why \in [Key -> {"fresh", "race", "write", "key"}]
  /\ outdated \in [Thread -> BOOLEAN] /\ reput \in [Thread -> SUBSET Key]

\* connectionPool_init has opened every connection, and each handshake was OK
Init ==
  /\ sockPool = [m \in Mount |-> SetToSeq(Connections[m])]
  /\ memcPool = [m \in Mount |-> SetToSeq(Connections[m])]
  /\ pc = [t \in Thread |-> "idle"] /\ op = [t \in Thread |-> "read"]
  /\ path = [t \in Thread |-> Root]
  /\ memc = [t \in Thread |-> NoConn] /\ sock = [t \in Thread |-> NoConn]
  /\ todo = [t \in Thread |-> <<>>] /\ asked = [t \in Thread |-> None]
  /\ answer = [t \in Thread |-> NoAnswer] /\ ret = [t \in Thread |-> "none"]
  /\ up = [c \in Conn |-> <<>>] /\ down = [c \in Conn |-> <<>>]
  /\ cache = [k \in Key |-> None]
  /\ kind = Tree /\ size = [p \in Path |-> 0]
  /\ serverUp = TRUE /\ calls = 0
  /\ why = [k \in Key |-> "fresh"] /\ outdated = [t \in Thread |-> FALSE]
  /\ reput = [t \in Thread |-> {}]

-----------------------------------------------------------------------------
(* The pools *)

At(t, label) == serverUp /\ pc[t] = label
Goto(t, label) == pc' = [pc EXCEPT ![t] = label]
My(t) == MountOf[t]

\* connectionPool_extractAvaible*: wait for a unit, take the head of the list
ExtractMemcached(t) ==
  /\ memcPool[My(t)] # <<>>
  /\ memc' = [memc EXCEPT ![t] = Head(memcPool[My(t)])]
  /\ memcPool' = [memcPool EXCEPT ![My(t)] = Tail(@)]

\* (mutant) the head is used but stays in the list
ExtractSocketShared(t) ==
  /\ sockPool[My(t)] # <<>>
  /\ sock' = [sock EXCEPT ![t] = Head(sockPool[My(t)])]
  /\ UNCHANGED sockPool

ExtractSocket(t) ==
  /\ sockPool[My(t)] # <<>>
  /\ sock' = [sock EXCEPT ![t] = Head(sockPool[My(t)])]
  /\ sockPool' = [sockPool EXCEPT ![My(t)] = Tail(@)]

\* (mutant) a return deposits a connection that it does not have
DepositMemcachedAgain(t) ==
  /\ memcPool' = [memcPool EXCEPT ![My(t)] = Append(@, memc[t])]
  /\ memc' = [memc EXCEPT ![t] = NoConn]

\* connectionPool_depositeAvaible*: append to the list, post
DepositMemcached(t) ==
  /\ memcPool' = [memcPool EXCEPT ![My(t)] =
                    IF memc[t] = NoConn THEN @ ELSE Append(@, memc[t])]
  /\ memc' = [memc EXCEPT ![t] = NoConn]

DepositSocket(t) ==
  /\ sockPool' = [sockPool EXCEPT ![My(t)] =
                    IF sock[t] = NoConn THEN @ ELSE Append(@, sock[t])]
  /\ sock' = [sock EXCEPT ![t] = NoConn]

\* (mutant) an error return forgets the socket
GiveBackLeaking(t) ==
  /\ DepositMemcached(t)
  /\ IF answer'[t].type \in Errors
     THEN UNCHANGED sockPool /\ sock' = [sock EXCEPT ![t] = NoConn]
     ELSE DepositSocket(t)

\* every return, of an error too, gives back what the callback has taken
GiveBack(t) == DepositMemcached(t) /\ DepositSocket(t)

-----------------------------------------------------------------------------
(* The callbacks *)

\* the callback returns r to FUSE; its locals are gone
Return(t, r) ==
  /\ Goto(t, "idle") /\ ret' = [ret EXCEPT ![t] = r]
  /\ op' = [op EXCEPT ![t] = "read"] /\ path' = [path EXCEPT ![t] = Root]
  /\ asked' = [asked EXCEPT ![t] = None] /\ outdated' = [outdated EXCEPT ![t] = FALSE]

\* the kernel holds the directory's mutex around a change or a listing of it, and the
\* file's around a change of it, against the other calls of the same mount
Guards(o, p) ==
  IF o \in ChangeOps THEN {Father[p]} ELSE IF o \in {"readdir", "truncate", "write"} THEN {p} ELSE {}

Call(t) ==
  /\ At(t, "idle") /\ calls < MaxCalls
  /\ \E c \in Calls[t] :
       /\ \A u \in Thread : pc[u] # "idle" /\ My(u) = My(t) =>
            Guards(op[u], path[u]) \cap Guards(c.op, c.path) = {}
       /\ op' = [op EXCEPT ![t] = c.op] /\ path' = [path EXCEPT ![t] = c.path]
       /\ todo' = [todo EXCEPT ![t] = Drops(c.op, c.path)]
       /\ Goto(t, IF c.op \in {"write", "read"} THEN "send" ELSE "cache")
  /\ answer' = [answer EXCEPT ![t] = NoAnswer]
  /\ ret' = [ret EXCEPT ![t] = "none"] /\ calls' = calls + 1
  /\ UNCHANGED <<poolVars, asked, netVars, cache, diskVars, serverUp, ghostVars>>

\* (mutant) the socket is taken first, and the memcached connection awaited with it
TakeBoth(t) ==
  /\ At(t, "cache")
  /\ \/ /\ sock[t] = NoConn /\ op[t] \in ChangeOps
        /\ ExtractSocket(t)
        /\ UNCHANGED <<pc, memc, memcPool>>
     \/ /\ sock[t] # NoConn \/ op[t] \notin ChangeOps
        /\ ExtractMemcached(t)
        /\ Goto(t, IF op[t] \in Lookups THEN "get" ELSE "drop")
        /\ UNCHANGED <<sock, sockPool>>
  /\ UNCHANGED <<callVars, todo, asked, answer, ret, netVars, cache, diskVars, serverUp,
                 calls, ghostVars>>

TakeMemcached(t) ==
  /\ At(t, "cache")
  /\ ExtractMemcached(t)
  /\ Goto(t, IF op[t] \in Lookups THEN "get" ELSE "drop")
  /\ UNCHANGED <<sockPool, sock, callVars, todo, asked, answer, ret, netVars, cache,
                 diskVars, serverUp, calls, ghostVars>>

\* memcached_delete of the next key; after the last one the connection goes back
DropKey(t) ==
  LET k == Head(todo[t]) IN
  /\ At(t, "drop")
  /\ cache' = [cache EXCEPT ![k] = None]
  /\ why' = [why EXCEPT ![k] = "fresh"]
  /\ reput' = [reput EXCEPT ![t] = @ \ {k}]
  /\ todo' = [todo EXCEPT ![t] = Tail(@)]
  /\ IF Len(todo[t]) = 1
     THEN DepositMemcached(t) /\ Goto(t, "send")
     ELSE UNCHANGED <<memcPool, memc, pc>>
  /\ UNCHANGED <<sockPool, sock, callVars, asked, answer, ret, netVars, diskVars, serverUp,
                 calls, outdated>>

\* memcached_getValue: a hit is the callback's answer
AskCache(t) ==
  /\ At(t, "get")
  /\ \E k \in KeysOf(op[t], path[t]) :
       \/ /\ cache[k] # None
          /\ DepositMemcached(t) /\ Return(t, "success")
       \/ /\ cache[k] = None
          /\ asked' = [asked EXCEPT ![t] = k] /\ Goto(t, "send")
          /\ UNCHANGED <<ret, memcPool, memc, callVars, outdated>>
  /\ UNCHANGED <<sockPool, sock, todo, answer, netVars, cache, diskVars, serverUp,
                 calls, why, reput>>

\* serializar_pedido_*, extractAvaibleSocket, enviar_paquete
Send(t) ==
  /\ At(t, "send")
  /\ ExtractSocket(t)
  /\ up' = [up EXCEPT ![sock'[t]] = Append(@, [op |-> op[t], path |-> path[t], by |-> t])]
  /\ Goto(t, "recv")
  /\ UNCHANGED <<memcPool, memc, callVars, todo, asked, answer, ret, down, cache, diskVars,
                 serverUp, calls, ghostVars>>

\* recibir of the header and of the payload; an answer that the callback takes for an
\* error ends it, one that a lookup can use goes to the cache first
Receive(t) ==
  /\ At(t, "recv") /\ down[sock[t]] # <<>>
  /\ answer' = [answer EXCEPT ![t] = Head(down[sock[t]])]
  /\ down' = [down EXCEPT ![sock[t]] = Tail(@)]
  /\ LET a == Head(down[sock[t]]) IN
       \/ /\ a.type \in Handles(op[t])
          /\ GiveBack(t) /\ Return(t, a.type)
       \/ /\ a.type \notin Handles(op[t]) /\ op[t] \notin Lookups
          /\ GiveBack(t) /\ Return(t, "success")
       \/ /\ a.type \notin Handles(op[t]) /\ op[t] \in Lookups
          /\ Goto(t, "put") /\ UNCHANGED <<poolVars, callVars, asked, ret, outdated>>
  /\ reput' = [reput EXCEPT ![t] = {}]
  /\ UNCHANGED <<todo, up, cache, diskVars, serverUp, calls, why>>

\* the keys that the callback has dropped
Dropped(t) == ToSet(Drops(op[t], path[t])) \ ToSet(todo[t])

\* memcached_addOrReplace with the answer's payload, then both connections go back
Put(t) ==
  LET k == asked[t] IN
  /\ At(t, "put")
  /\ cache' = [cache EXCEPT ![k] = answer[t].value]
  /\ why' = [why EXCEPT ![k] = IF outdated[t] THEN "race"
                               ELSE IF k[1] = "AC+" THEN "key" ELSE "fresh"]
  /\ reput' = [u \in Thread |-> IF k \in Dropped(u) THEN reput[u] \cup {k} ELSE reput[u]]
  /\ GiveBack(t) /\ Return(t, "success")
  /\ UNCHANGED <<todo, answer, netVars, diskVars, serverUp, calls>>

-----------------------------------------------------------------------------
(* The other two servers *)

\* the cache evicts what it likes
Evict(k) ==
  /\ serverUp /\ cache[k] # None
  /\ cache' = [cache EXCEPT ![k] = None]
  /\ UNCHANGED <<poolVars, pc, callVars, todo, asked, answer, ret, netVars, diskVars, serverUp,
                 calls, ghostVars>>

\* a request kills the server: removeFile and removeDir dereference what they did not find,
\* and so do addEntryToDirectory and deleteDirEntry in a father that is gone
Kills(r) ==
  /\ r.path \notin Long
  /\ \/ r.op \in {"unlink", "rmdir"} /\ "none" \in {kind[r.path], kind[Father[r.path]]}
     \/ r.op \in {"create", "mkdir"} /\ kind[r.path] = "none" /\ kind[Father[r.path]] = "none"
\* ... or may kill it: a refused mkdir looks up a path that was never set
MayKill(r) == Kills(r) \/ (r.op = "mkdir" /\ (kind[r.path] # "none" \/ r.path \in Long))

\* the type the handlers of procesadorDePedidos.c answer with; truncate compares the
\* pointer to its error code instead of the code, and so never reports one
AnswerType(r) ==
  LET missing == kind[r.path] = "none" IN
  CASE r.op \in ChangeOps \cup {"truncate"} /\ r.path \in Long -> "NAME_TOO_LONG"
    [] r.op \in {"create", "mkdir"} /\ ~missing                 -> "YA_EXISTE"
    [] r.op = "unlink" /\ kind[r.path] = "dir"                  -> "NO_EXISTE"
    [] r.op = "rmdir" /\ Listing(kind, r.path) # {}             -> "NO_ESTA_VACIO"
    [] r.op \in Lookups \cup {"read", "write"} /\ missing       -> "NO_EXISTE"
    [] OTHER                                                    -> "OK"

\* the volume after a request that is answered OK
KindAfter(r) ==
  CASE r.op = "create" -> [kind EXCEPT ![r.path] = "reg"]
    [] r.op = "mkdir"  -> [kind EXCEPT ![r.path] = "dir"]
    [] r.op \in {"unlink", "rmdir"} -> [kind EXCEPT ![r.path] = "none"]
    [] OTHER -> kind
SizeAfter(r) ==
  CASE r.op = "write" -> [size EXCEPT ![r.path] = @ + 1]
    [] r.op \in ChangeOps \cup {"truncate"} -> [size EXCEPT ![r.path] = 0]
    [] OTHER -> size

ValueFor(r) ==
  IF r.op = "getattr" THEN Right(<<"AC", r.path>>, kind, size)
  ELSE IF r.op = "readdir" THEN Listing(kind, r.path) ELSE None

\* has the thread an answer that it has not stored yet?
Answered(t) == pc[t] = "put" \/ (pc[t] = "recv" /\ down[sock[t]] # <<>>)

\* a worker of the server serves the request on connection c
Serve(c) ==
  LET r == Head(up[c])
      type == AnswerType(r)
      done == type = "OK"
      changed == {k \in Key : Right(k, kind', size') # Right(k, kind, size)}
  IN
  /\ serverUp /\ up[c] # <<>> /\ ~Kills(r)
  /\ up' = [up EXCEPT ![c] = Tail(@)]
  /\ down' = [down EXCEPT ![c] = Append(@, [type |-> type,
                                            value |-> IF done THEN ValueFor(r) ELSE None])]
  /\ kind' = IF done THEN KindAfter(r) ELSE kind
  /\ size' = IF done THEN SizeAfter(r) ELSE size
  /\ why' = [k \in Key |-> IF k \notin changed THEN why[k]
                           ELSE IF k[1] = "AC+" THEN "key"
                           ELSE IF r.op = "write" THEN "write"
                           ELSE IF k \in reput[r.by] THEN "race" ELSE why[k]]
  /\ outdated' = [t \in Thread |-> outdated[t] \/ (Answered(t) /\ asked[t] \in changed)]
  /\ UNCHANGED <<poolVars, pc, callVars, todo, asked, answer, ret, cache, serverUp, calls, reput>>

Die(c) ==
  /\ serverUp /\ up[c] # <<>> /\ MayKill(Head(up[c]))
  /\ serverUp' = FALSE
  /\ UNCHANGED <<poolVars, pc, callVars, todo, asked, answer, ret, netVars, cache, diskVars,
                 calls, ghostVars>>

Step(t) ==
  \/ TakeMemcached(t) \/ DropKey(t) \/ AskCache(t) \/ Send(t) \/ Receive(t) \/ Put(t)

Next ==
  \/ \E t \in Thread : Call(t) \/ Step(t)
  \/ \E c \in Conn : Serve(c) \/ Die(c)
  \/ \E k \in Key : Evict(k)

Spec == Init /\ [][Next]_vars

\* FUSE's threads run, and the server answers: OpenFileTable states when it does
FairSpec ==
  /\ Spec
  /\ \A t \in Thread : WF_vars(Step(t))
  /\ \A c \in Conn : WF_vars(Serve(c) \/ Die(c))

-----------------------------------------------------------------------------
(* Properties *)

Holds(t, held) == IF held[t] = NoConn THEN {} ELSE {held[t]}
Kept(m, pool, held) ==
  /\ IsInjective(pool[m])
  /\ ToSet(pool[m]) \cup UNION {Holds(t, held) : t \in {u \in Thread : My(u) = m}} = Connections[m]
  /\ \A t, u \in Thread : t # u => Holds(t, held) \cap Holds(u, held) = {}
  /\ \A t \in Thread : Holds(t, held) \cap ToSet(pool[m]) = {}

\* Whatever a callback returns, and through which of its error returns, each connection
\* is in its mount's pool or in the hands of exactly one callback, and an idle thread
\* has none (the returns of fuse.c against connectionPool.c).
ConnectionsConserved ==
  /\ \A m \in Mount : Kept(m, sockPool, sock) /\ Kept(m, memcPool, memc)
  /\ \A t \in Thread : pc[t] = "idle" => memc[t] = NoConn /\ sock[t] = NoConn

\* A socket in the pool is quiet, and a socket in use carries one request or answer of
\* its own callback at most: the server reads one request per event of the edge-triggered
\* epoll (rfs.c:257) and relies on that.
OneOutstanding ==
  /\ \A c \in Conn : Len(up[c]) + Len(down[c]) <= 1
  /\ \A m \in Mount : \A c \in ToSet(sockPool[m]) : up[c] = <<>> /\ down[c] = <<>>
  /\ \A c \in Conn : up[c] # <<>> => sock[Head(up[c]).by] = c

Stale(k) == cache[k] # None /\ cache[k] # Right(k, kind, size)

\* The cached listing of a directory that exists is wrong for one reason only: another
\* callback listed the directory and stored the list while the change was on its way to
\* the server (create_file, create_dir, borrarDir and file_unlink drop it before they ask
\* the server; borrarDir leaves the listing of the directory it removes).
ListingsStaleByRace ==
  \A p \in Path : kind[p] = "dir" /\ Stale(<<"LC", p>>) => why[<<"LC", p>>] = "race"

\* Cached attributes are wrong because of such a race, because file_write never drops
\* them, or because they were stored under a key that nobody drops (fuse.c:250).
AttributesStaleByRaceOrWrite ==
  /\ \A p \in Path : Stale(<<"AC", p>>) => why[<<"AC", p>>] \in {"race", "write"}
  /\ \A p \in Path : Stale(<<"AC+", p>>) => p \in Unterminated

\* Whatever else a client finds in the cache is true of the volume.
StaleOnlyAsKnown == ListingsStaleByRace /\ AttributesStaleByRaceOrWrite

\* A callback reports success exactly when the server said OK: no refusal gets lost in
\* the client's tables of errors, except the YA_EXISTE of a mkdir, which create_dir does
\* not know (two mounts that make one directory both succeed).
RefusalsAreReported ==
  [][\A t \in Thread : pc[t] = "recv" /\ pc'[t] = "idle" =>
       ((ret'[t] = "success") <=>
          (answer'[t].type = "OK" \/ (op[t] = "mkdir" /\ answer'[t].type = "YA_EXISTE")))]_vars

\* Every callback returns as long as the server lives: the one that waits for a socket
\* with a memcached connection in its hands waits for callbacks that need no memcached
\* connection any more (fuse.c:255, connectionPool.c:64).
EveryCallReturns ==
  \A t \in Thread : pc[t] # "idle" ~> (pc[t] = "idle" \/ ~serverUp)

-----------------------------------------------------------------------------
(* The inductive invariant *)

\* a lookup's answer is a kind and a size or a listing; a refusal has no value
Value  == {None} \cup (SUBSET Path) \cup [kind : Kinds, size : Nat]
Answer == [type : Errors \cup {"none", "OK"}, value : Value]
Shapes == answer \in [Thread -> Answer] /\ down \in [Conn -> Seq(Answer)]

\* what a callback has in its hands and still to do, read off its place in the code
Follows(t) ==
  /\ sock[t] # NoConn <=> pc[t] \in {"recv", "put"}
  /\ memc[t] # NoConn <=> \/ pc[t] \in {"drop", "get"}
                          \/ pc[t] \in {"send", "recv", "put"} /\ op[t] \in Lookups
  /\ pc[t] \in {"get", "put"} => op[t] \in Lookups
  /\ pc[t] \in {"cache", "drop"} => op[t] \notin {"read", "write"}
  /\ pc[t] = "drop" => op[t] \notin Lookups
  /\ todo[t] # <<>> <=> pc[t] \in {"cache", "drop"} /\ op[t] \notin Lookups
  /\ pc[t] \in {"send", "recv", "put"} /\ op[t] \in Lookups => asked[t] \in KeysOf(op[t], path[t])
FollowsControl == \A t \in Thread : Follows(t)

\* an answer that the callback's table of errors does not get wrong
Explained(o, type) ==
  type = "OK" \/ type \in Handles(o) \/ (o = "mkdir" /\ type = "YA_EXISTE")

\* what is in flight belongs to the callback that holds the socket and waits
Wire(c) ==
  /\ Len(up[c]) + Len(down[c]) <= 1
  /\ up[c] # <<>> =>
       LET r == Head(up[c]) IN
       pc[r.by] = "recv" /\ sock[r.by] = c /\ r.op = op[r.by] /\ r.path = path[r.by]
  /\ down[c] # <<>> =>
       \E t \in Thread : pc[t] = "recv" /\ sock[t] = c /\ Explained(op[t], Head(down[c]).type)
WireInv == \A c \in Conn : Wire(c)

\* every byte of a size was written by a call; those on their way are still to come
Writing == {t \in Thread : op[t] = "write" /\ (pc[t] = "send" \/ (pc[t] = "recv" /\ up[sock[t]] # <<>>))}
SizesBounded == \A p \in Path : size[p] + Cardinality(Writing) <= calls

\* until the server has its request, what a callback dropped is gone or known to be back
Asking(t) == pc[t] \in {"cache", "drop", "send"} \/ (pc[t] = "recv" /\ up[sock[t]] # <<>>)
StillDropped(t) == Asking(t) => \A k \in Dropped(t) : cache[k] = None \/ k \in reput[t]
DropsHold == \A t \in Thread : StillDropped(t)

\* an answer that nothing has overtaken is right
Fresh(t) ==
  op[t] \in Lookups /\ ~outdated[t] =>
    /\ pc[t] = "put" => answer[t].value = Right(asked[t], kind, size)
    /\ pc[t] = "recv" /\ down[sock[t]] # <<>> /\ Head(down[sock[t]]).type = "OK" =>
         Head(down[sock[t]]).value = Right(asked[t], kind, size)
AnswersFresh == \A t \in Thread : Fresh(t)

\* a cached listing is that of the children even when the directory itself is gone: they
\* cannot change without it, and it may come back
CacheInv ==
  \A p \in Path :
    /\ cache[<<"LC", p>>] \in {None, Listing(kind, p)} \/ why[<<"LC", p>>] = "race"
    /\ \/ cache[<<"AC", p>>] \in {None, Right(<<"AC", p>>, kind, size)}
       \/ why[<<"AC", p>>] \in {"race", "write"}
    /\ cache[<<"AC+", p>>] # None => p \in Unterminated

HandsInv == TypeOK /\ Shapes /\ FollowsControl /\ ConnectionsConserved /\ WireInv
IInv == HandsInv /\ SizesBounded /\ DropsHold /\ AnswersFresh /\ CacheInv

=============================================================================
