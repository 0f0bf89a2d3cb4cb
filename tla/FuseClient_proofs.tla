-------------------------- MODULE FuseClient_proofs --------------------------
(***************************************************************************)
(* Proofs about FuseClient, for any number of mounts, threads, connections,*)
(* paths and calls: no connection is lost or shared, a socket carries one  *)
(* message, no refusal is lost, and cached values are out of date only in  *)
(* the ways the code is known to allow.                                    *)
(***************************************************************************)
EXTENDS FuseClient, FiniteSetTheorems, SequenceTheorems, TLAPS

-----------------------------------------------------------------------------
(* The lists of the pools *)

\* the list of a mount's connections, as connectionPool_init builds it
LEMMA InitialPool ==
  ASSUME NEW S, IsFiniteSet(S)
  PROVE  /\ SetToSeq(S) \in Seq(S) /\ IsInjective(SetToSeq(S))
         /\ ToSet(SetToSeq(S)) = S
<1> DEFINE n == Cardinality(S)
<1>1. n \in Nat /\ ExistsBijection(1..n, S) BY FS_CardinalityType
<1>2. PICK b \in Bijection(1..n, S) : TRUE BY <1>1 DEF ExistsBijection
<1>3. b \in [1..n -> S] /\ IsInjective(b) BY <1>2 DEF Bijection, Injection
<1>4. SetToSeq(S) \in [1..n -> S] /\ IsInjective(SetToSeq(S)) BY <1>3 DEF SetToSeq
<1>5. SetToSeq(S) \in Injection(1..n, S) BY <1>4 DEF Injection
<1>6. IsFiniteSet(1..n) /\ Cardinality(1..n) = n BY <1>1, FS_Interval
<1>7. SetToSeq(S) \in Surjection(1..n, S) BY <1>5, <1>6, FS_Injection
<1>8. \A x \in S : \E i \in 1..n : SetToSeq(S)[i] = x BY <1>7 DEF Surjection
<1>9. ToSet(SetToSeq(S)) = S BY <1>4, <1>8 DEF ToSet
<1>10. SetToSeq(S) \in Seq(S) BY <1>1, <1>4, SeqDef
<1>11. QED BY <1>4, <1>9, <1>10

\* connectionPool_extractAvaible* takes the head out of the list
LEMMA HeadTaken ==
  ASSUME NEW S, NEW s \in Seq(S), s # <<>>, IsInjective(s)
  PROVE  /\ Head(s) \in S /\ Tail(s) \in Seq(S) /\ IsInjective(Tail(s))
         /\ ToSet(Tail(s)) = ToSet(s) \ {Head(s)} /\ Head(s) \in ToSet(s)
<1>1. Len(s) \in Nat /\ DOMAIN s = 1..Len(s) /\ Len(s) # 0 BY EmptySeq, LenProperties
<1>2. /\ Head(s) \in S /\ Tail(s) \in Seq(S) /\ Len(Tail(s)) = Len(s) - 1
      /\ \A i \in 1..Len(Tail(s)) : Tail(s)[i] = s[i + 1]
  BY HeadTailProperties
<1>3. Head(s) = s[1] /\ 1 \in DOMAIN s BY <1>1
<1>4. DOMAIN Tail(s) = 1..(Len(s) - 1) BY <1>2, LenProperties
<1>5. IsInjective(Tail(s)) BY <1>1, <1>2, <1>4 DEF IsInjective
<1>6. ASSUME NEW x \in ToSet(Tail(s)) PROVE x \in ToSet(s) /\ x # Head(s)
  BY <1>1, <1>2, <1>3, <1>4 DEF ToSet, IsInjective
<1>7. ASSUME NEW x \in ToSet(s), x # Head(s) PROVE x \in ToSet(Tail(s))
  <2>1. PICK i \in DOMAIN s : s[i] = x BY DEF ToSet
  <2>2. i - 1 \in DOMAIN Tail(s) BY <2>1, <1>1, <1>3, <1>4, <1>7
  <2>3. Tail(s)[i - 1] = x BY <2>1, <2>2, <1>1, <1>2, <1>4
  <2>4. QED BY <2>2, <2>3 DEF ToSet
<1>8. Head(s) \in ToSet(s) BY <1>3 DEF ToSet
<1>9. QED BY <1>2, <1>5, <1>6, <1>7, <1>8

\* connectionPool_depositeAvaible* appends one that is not in the list
LEMMA Appended ==
  ASSUME NEW S, NEW s \in Seq(S), NEW c \in S, IsInjective(s), c \notin ToSet(s)
  PROVE  /\ Append(s, c) \in Seq(S) /\ IsInjective(Append(s, c))
         /\ ToSet(Append(s, c)) = ToSet(s) \cup {c}
<1>1. Len(s) \in Nat /\ DOMAIN s = 1..Len(s) BY LenProperties
<1>2. /\ Append(s, c) \in Seq(S) /\ Len(Append(s, c)) = Len(s) + 1
      /\ \A i \in 1..Len(s) : Append(s, c)[i] = s[i]
      /\ Append(s, c)[Len(s) + 1] = c
  BY AppendProperties
<1>3. DOMAIN Append(s, c) = 1..(Len(s) + 1) BY <1>2, LenProperties
<1>4. \A i \in 1..Len(s) : s[i] # c BY <1>1 DEF ToSet
<1>5. IsInjective(Append(s, c)) BY <1>1, <1>2, <1>3, <1>4 DEF IsInjective
<1>6. ToSet(Append(s, c)) = ToSet(s) \cup {c}
  <2>1. ASSUME NEW x \in ToSet(Append(s, c)) PROVE x \in ToSet(s) \cup {c}
    BY <1>1, <1>2, <1>3 DEF ToSet
  <2>2. ASSUME NEW x \in ToSet(s) PROVE x \in ToSet(Append(s, c))
    <3>1. PICK i \in 1..Len(s) : s[i] = x BY <1>1 DEF ToSet
    <3>2. QED BY <3>1, <1>1, <1>2, <1>3 DEF ToSet
  <2>3. c \in ToSet(Append(s, c)) BY <1>1, <1>2, <1>3 DEF ToSet
  <2>4. QED BY <2>1, <2>2, <2>3
<1>7. QED BY <1>2, <1>5, <1>6

-----------------------------------------------------------------------------
(* Pools and hands *)

Pools == [Mount -> Seq(Conn)]
Hands == [Thread -> Conn \cup {NoConn}]

\* Kept, element by element
LEMMA KeptMeans ==
  ASSUME NEW m, NEW pool, NEW held
  PROVE  Kept(m, pool, held) <=>
           /\ IsInjective(pool[m])
           /\ \A c : c \in Connections[m] <=>
                \/ c \in ToSet(pool[m])
                \/ c # NoConn /\ \E t \in Thread : My(t) = m /\ held[t] = c
           /\ \A t, u \in Thread : t # u /\ held[t] = held[u] => held[t] = NoConn
           /\ \A t \in Thread : held[t] # NoConn => held[t] \notin ToSet(pool[m])
<1>1. \A t \in Thread : \A c : c \in Holds(t, held) <=> c # NoConn /\ held[t] = c
  BY DEF Holds
<1> DEFINE Hand == UNION {Holds(t, held) : t \in {u \in Thread : My(u) = m}}
<1>2. \A c : c \in Hand <=> c # NoConn /\ \E t \in Thread : My(t) = m /\ held[t] = c
  BY <1>1
<1>3. ToSet(pool[m]) \cup Hand = Connections[m] <=>
        \A c : c \in Connections[m] <=>
          \/ c \in ToSet(pool[m])
          \/ c # NoConn /\ \E t \in Thread : My(t) = m /\ held[t] = c
  BY <1>2
<1>4. (\A t, u \in Thread : t # u => Holds(t, held) \cap Holds(u, held) = {}) <=>
        \A t, u \in Thread : t # u /\ held[t] = held[u] => held[t] = NoConn
  BY <1>1
<1>5. (\A t \in Thread : Holds(t, held) \cap ToSet(pool[m]) = {}) <=>
        \A t \in Thread : held[t] # NoConn => held[t] \notin ToSet(pool[m])
  BY <1>1
<1>6. QED BY <1>3, <1>4, <1>5 DEF Kept

\* an extraction moves the head of the mount's list into empty hands
LEMMA KeptByExtract ==
  ASSUME NEW pool \in Pools, NEW held \in Hands, NEW t \in Thread,
         held[t] = NoConn, pool[My(t)] # <<>>, \A m \in Mount : Kept(m, pool, held)
  PROVE  LET p == [pool EXCEPT ![My(t)] = Tail(@)]
             h == [held EXCEPT ![t] = Head(pool[My(t)])]
         IN  /\ p \in Pools /\ h \in Hands /\ \A m \in Mount : Kept(m, p, h)
             /\ Head(pool[My(t)]) \in Conn /\ \A u \in Thread : held[u] # Head(pool[My(t)])
<1> DEFINE n == My(t)
           c == Head(pool[n])
           p == [pool EXCEPT ![n] = Tail(@)]
           h == [held EXCEPT ![t] = c]
<1>1. n \in Mount BY ClientAssumption DEF My
<1>2. pool[n] \in Seq(Conn) /\ IsInjective(pool[n]) BY <1>1 DEF Pools, Kept
<1>3. /\ c \in Conn /\ Tail(pool[n]) \in Seq(Conn) /\ IsInjective(Tail(pool[n]))
      /\ ToSet(Tail(pool[n])) = ToSet(pool[n]) \ {c} /\ c \in ToSet(pool[n])
  BY <1>2, HeadTaken
<1>4. c # NoConn BY <1>3, ClientAssumption
<1>5. p \in Pools /\ h \in Hands BY <1>1, <1>3 DEF Pools, Hands
<1>6. c \in Connections[n] BY <1>1, <1>3, KeptMeans
<1>7. \A u \in Thread : held[u] # c BY <1>1, <1>3, <1>4, KeptMeans
<1>8. ASSUME NEW m \in Mount PROVE Kept(m, p, h)
  <2>1. Kept(m, pool, held) OBVIOUS
  <2>2. CASE m = n
    <3>1. p[m] = Tail(pool[n]) BY <2>2, <1>1 DEF Pools
    <3>2. \A d : d \in Connections[m] <=>
             \/ d \in ToSet(p[m])
             \/ d # NoConn /\ \E u \in Thread : My(u) = m /\ h[u] = d
      <4>1. ASSUME NEW d
            PROVE  d \in ToSet(pool[m]) <=> d \in ToSet(p[m]) \/ d = c
        BY <3>1, <2>2, <1>3
      <4>2. ASSUME NEW d, d # c, d # NoConn
            PROVE  (\E u \in Thread : My(u) = m /\ h[u] = d)
                     <=> (\E u \in Thread : My(u) = m /\ held[u] = d)
        BY <4>2 DEF Hands
      <4>3. \E u \in Thread : My(u) = m /\ h[u] = c BY <2>2 DEF Hands
      <4>4. QED BY <2>1, <2>2, <4>1, <4>2, <4>3, <1>4, <1>6, KeptMeans
    <3>3. \A u, v \in Thread : u # v /\ h[u] = h[v] => h[u] = NoConn
      BY <2>1, <1>7, KeptMeans DEF Hands
    <3>4. \A u \in Thread : h[u] # NoConn => h[u] \notin ToSet(p[m])
      BY <2>1, <2>2, <3>1, <1>3, KeptMeans DEF Hands
    <3>5. QED BY <3>1, <3>2, <3>3, <3>4, <1>3, KeptMeans
  <2>3. CASE m # n
    <3>1. p[m] = pool[m] BY <2>3, <1>1 DEF Pools
    <3>2. c \notin Connections[m] BY <1>1, <1>6, <2>3, ClientAssumption
    <3>3. c \notin ToSet(pool[m]) BY <3>2, <2>1, KeptMeans
    <3>4. \A d : (\E u \in Thread : My(u) = m /\ h[u] = d)
                   <=> (\E u \in Thread : My(u) = m /\ held[u] = d)
      BY <2>3 DEF Hands
    <3>5. \A u, v \in Thread : u # v /\ h[u] = h[v] => h[u] = NoConn
      BY <2>1, <1>7, KeptMeans DEF Hands
    <3>6. \A u \in Thread : h[u] # NoConn => h[u] \notin ToSet(p[m])
      BY <2>1, <3>1, <3>3, KeptMeans DEF Hands
    <3>7. QED BY <2>1, <3>1, <3>4, <3>5, <3>6, KeptMeans
  <2>4. QED BY <2>2, <2>3
<1>9. QED BY <1>3, <1>5, <1>7, <1>8

\* a return appends what the hands hold to the mount's list
LEMMA KeptByDeposit ==
  ASSUME NEW pool \in Pools, NEW held \in Hands, NEW t \in Thread,
         \A m \in Mount : Kept(m, pool, held)
  PROVE  LET p == [pool EXCEPT ![My(t)] =
                     IF held[t] = NoConn THEN @ ELSE Append(@, held[t])]
             h == [held EXCEPT ![t] = NoConn]
         IN  p \in Pools /\ h \in Hands /\ \A m \in Mount : Kept(m, p, h)
<1> DEFINE n == My(t)
           c == held[t]
           p == [pool EXCEPT ![n] = IF c = NoConn THEN @ ELSE Append(@, c)]
           h == [held EXCEPT ![t] = NoConn]
<1>1. n \in Mount BY ClientAssumption DEF My
<1>2. h \in Hands BY DEF Hands
<1>3. CASE c = NoConn
  <2>1. h = held BY <1>3 DEF Hands
  <2>2. p = pool BY <1>3 DEF Pools
  <2>3. QED BY <2>1, <2>2
<1>4. CASE c # NoConn
  <2>1. c \in Conn BY <1>4 DEF Hands
  <2>2. pool[n] \in Seq(Conn) /\ IsInjective(pool[n]) /\ c \notin ToSet(pool[n])
    BY <1>1, <1>4, KeptMeans DEF Pools
  <2>3. /\ Append(pool[n], c) \in Seq(Conn) /\ IsInjective(Append(pool[n], c))
        /\ ToSet(Append(pool[n], c)) = ToSet(pool[n]) \cup {c}
    BY <2>1, <2>2, Appended
  <2>4. p \in Pools BY <1>4, <2>3, <1>1 DEF Pools
  <2>5. c \in Connections[n] BY <1>1, <1>4, KeptMeans
  <2>6. ASSUME NEW m \in Mount PROVE Kept(m, p, h)
    <3>1. Kept(m, pool, held) OBVIOUS
    <3>2. \A u, v \in Thread : u # v /\ h[u] = h[v] => h[u] = NoConn
      BY <3>1, KeptMeans DEF Hands
    <3>3. \A u \in Thread \ {t} : h[u] = held[u] BY DEF Hands
    <3>4. h[t] = NoConn BY DEF Hands
    <3>5. CASE m = n
      <4>1. p[m] = Append(pool[n], c) BY <3>5, <1>1, <1>4 DEF Pools
      <4>2. \A d : d \in ToSet(p[m]) <=> d \in ToSet(pool[m]) \/ d = c
        BY <4>1, <3>5, <2>3
      <4>3. ASSUME NEW d, d # NoConn, d # c
            PROVE  (\E u \in Thread : My(u) = m /\ h[u] = d)
                     <=> (\E u \in Thread : My(u) = m /\ held[u] = d)
        BY <3>3, <3>4, <4>3
      <4>4. \A d : d \in Connections[m] <=>
              \/ d \in ToSet(p[m])
              \/ d # NoConn /\ \E u \in Thread : My(u) = m /\ h[u] = d
        BY <3>1, <3>5, <4>2, <4>3, <2>5, KeptMeans
      <4>5. \A u \in Thread : h[u] # NoConn => h[u] \notin ToSet(p[m])
        BY <3>1, <3>3, <3>4, <4>2, <1>4, KeptMeans
      <4>6. QED BY <2>3, <4>1, <4>4, <4>5, <3>2, KeptMeans
    <3>6. CASE m # n
      <4>1. p[m] = pool[m] BY <3>6, <1>1 DEF Pools
      <4>2. ASSUME NEW d
            PROVE  (\E u \in Thread : My(u) = m /\ h[u] = d)
                     <=> (\E u \in Thread : My(u) = m /\ held[u] = d)
        BY <3>3, <3>6
      <4>3. \A u \in Thread : h[u] # NoConn => h[u] \notin ToSet(p[m])
        BY <3>1, <3>3, <3>4, <4>1, KeptMeans
      <4>4. QED BY <3>1, <3>2, <4>1, <4>2, <4>3, KeptMeans
    <3>7. QED BY <3>5, <3>6
  <2>7. QED BY <1>2, <2>4, <2>6
<1>5. QED BY <1>3, <1>4

\* the list and the hands of a state are what the two lemmas above are about
LEMMA MemcachedExtracted ==
  ASSUME TypeOK, ConnectionsConserved, NEW t \in Thread, memc[t] = NoConn, ExtractMemcached(t)
  PROVE  /\ memcPool' \in Pools /\ memc' \in Hands /\ \A m \in Mount : Kept(m, memcPool', memc')
         /\ memc'[t] \in Conn /\ \A u \in Thread \ {t} : memc'[u] = memc[u]
<1>1. memcPool \in Pools /\ memc \in Hands BY DEF TypeOK, Pools, Hands
<1> DEFINE p == [memcPool EXCEPT ![My(t)] = Tail(@)]
           h == [memc EXCEPT ![t] = Head(memcPool[My(t)])]
<1>2. /\ p \in Pools /\ h \in Hands /\ \A m \in Mount : Kept(m, p, h)
      /\ Head(memcPool[My(t)]) \in Conn
  BY <1>1, KeptByExtract DEF ExtractMemcached, ConnectionsConserved
<1>3. memcPool' = p /\ memc' = h BY DEF ExtractMemcached
<1>4. h[t] = Head(memcPool[My(t)]) /\ \A u \in Thread \ {t} : h[u] = memc[u]
  BY <1>1 DEF Hands
<1>5. QED BY ONLY <1>2, <1>3, <1>4

LEMMA SocketExtracted ==
  ASSUME TypeOK, ConnectionsConserved, NEW t \in Thread, sock[t] = NoConn, ExtractSocket(t)
  PROVE  /\ sockPool' \in Pools /\ sock' \in Hands /\ \A m \in Mount : Kept(m, sockPool', sock')
         /\ sock'[t] \in Conn /\ \A u \in Thread \ {t} : sock'[u] = sock[u]
         /\ \A u \in Thread : sock[u] # sock'[t]
<1>1. sockPool \in Pools /\ sock \in Hands BY DEF TypeOK, Pools, Hands
<1> DEFINE p == [sockPool EXCEPT ![My(t)] = Tail(@)]
           h == [sock EXCEPT ![t] = Head(sockPool[My(t)])]
<1>2. /\ p \in Pools /\ h \in Hands /\ \A m \in Mount : Kept(m, p, h)
      /\ Head(sockPool[My(t)]) \in Conn
      /\ \A u \in Thread : sock[u] # Head(sockPool[My(t)])
  BY <1>1, KeptByExtract DEF ExtractSocket, ConnectionsConserved
<1>3. sockPool' = p /\ sock' = h BY DEF ExtractSocket
<1>4. h[t] = Head(sockPool[My(t)]) /\ \A u \in Thread \ {t} : h[u] = sock[u]
  BY <1>1 DEF Hands
<1>5. QED BY ONLY <1>2, <1>3, <1>4

LEMMA MemcachedDeposited ==
  ASSUME TypeOK, ConnectionsConserved, NEW t \in Thread, DepositMemcached(t)
  PROVE  /\ memcPool' \in Pools /\ memc' \in Hands /\ \A m \in Mount : Kept(m, memcPool', memc')
         /\ memc'[t] = NoConn /\ \A u \in Thread \ {t} : memc'[u] = memc[u]
<1>1. memcPool \in Pools /\ memc \in Hands BY DEF TypeOK, Pools, Hands
<1> DEFINE p == [memcPool EXCEPT ![My(t)] =
                   IF memc[t] = NoConn THEN @ ELSE Append(@, memc[t])]
           h == [memc EXCEPT ![t] = NoConn]
<1>2. p \in Pools /\ h \in Hands /\ \A m \in Mount : Kept(m, p, h)
  BY <1>1, KeptByDeposit DEF ConnectionsConserved
<1>3. memcPool' = p /\ memc' = h BY DEF DepositMemcached
<1>4. h[t] = NoConn /\ \A u \in Thread \ {t} : h[u] = memc[u] BY <1>1 DEF Hands
<1>5. QED BY ONLY <1>2, <1>3, <1>4

LEMMA SocketDeposited ==
  ASSUME TypeOK, ConnectionsConserved, NEW t \in Thread, DepositSocket(t)
  PROVE  /\ sockPool' \in Pools /\ sock' \in Hands /\ \A m \in Mount : Kept(m, sockPool', sock')
         /\ sock'[t] = NoConn /\ \A u \in Thread \ {t} : sock'[u] = sock[u]
<1>1. sockPool \in Pools /\ sock \in Hands BY DEF TypeOK, Pools, Hands
<1> DEFINE p == [sockPool EXCEPT ![My(t)] =
                   IF sock[t] = NoConn THEN @ ELSE Append(@, sock[t])]
           h == [sock EXCEPT ![t] = NoConn]
<1>2. p \in Pools /\ h \in Hands /\ \A m \in Mount : Kept(m, p, h)
  BY <1>1, KeptByDeposit DEF ConnectionsConserved
<1>3. sockPool' = p /\ sock' = h BY DEF DepositSocket
<1>4. h[t] = NoConn /\ \A u \in Thread \ {t} : h[u] = sock[u] BY <1>1 DEF Hands
<1>5. QED BY ONLY <1>2, <1>3, <1>4

\* a thread that waits is the only one with its socket
LEMMA OneHolder ==
  ASSUME ConnectionsConserved, NEW t \in Thread, NEW u \in Thread, t # u, sock[t] # NoConn
  PROVE  sock[u] # sock[t]
<1>1. My(t) \in Mount BY ClientAssumption DEF My
<1>2. QED BY <1>1, KeptMeans DEF ConnectionsConserved

-----------------------------------------------------------------------------
(* What is in flight *)

\* a socket carries one message at most: taking it leaves the socket empty
LEMMA OneMessage ==
  ASSUME NEW S, NEW s \in Seq(S)
  PROVE  /\ Len(s) \in Nat /\ (Len(s) = 0 <=> s = <<>>)
         /\ s # <<>> => /\ Head(s) \in S /\ Tail(s) \in Seq(S)
                        /\ (Len(s) <= 1 => Tail(s) = <<>>)
         /\ \A x \in S : s = <<>> => /\ Append(s, x) \in Seq(S) /\ Append(s, x) # <<>>
                                     /\ Len(Append(s, x)) = 1 /\ Head(Append(s, x)) = x
<1>1. Len(s) \in Nat /\ (Len(s) = 0 <=> s = <<>>) BY LenProperties, EmptySeq
<1>2. ASSUME s # <<>> PROVE Head(s) \in S /\ Tail(s) \in Seq(S) /\ Len(Tail(s)) = Len(s) - 1
  BY <1>2, HeadTailProperties
<1>3. ASSUME s # <<>>, Len(s) <= 1 PROVE Tail(s) = <<>>
  <2>1. Len(s) # 0 BY <1>1, <1>3
  <2>2. Len(Tail(s)) = 0 BY <2>1, <1>1, <1>2, <1>3
  <2>3. Tail(s) \in Seq(S) BY <1>2, <1>3
  <2>4. QED BY <2>2, <2>3, EmptySeq
<1>4. ASSUME NEW x \in S, s = <<>>
      PROVE  /\ Append(s, x) \in Seq(S) /\ Append(s, x) # <<>>
             /\ Len(Append(s, x)) = 1 /\ Head(Append(s, x)) = x
  <2>1. /\ Append(s, x) \in Seq(S) /\ Append(s, x) # <<>> /\ Len(Append(s, x)) = Len(s) + 1
        /\ Head(Append(s, x)) = x
    BY <1>4, AppendProperties, HeadTailAppend
  <2>2. QED BY <2>1, <1>1, <1>4
<1>5. QED BY <1>1, <1>2, <1>3, <1>4

\* what a request in flight is
LEMMA RequestInFlight ==
  ASSUME TypeOK, NEW c \in Conn, up[c] # <<>>
  PROVE  /\ Head(up[c]).op \in Ops /\ Head(up[c]).path \in Path /\ Head(up[c]).by \in Thread
<1>1. up[c] \in Seq(Request) BY DEF TypeOK
<1>2. Head(up[c]) \in Request BY <1>1, HeadTailProperties
<1>3. QED BY <1>2 DEF Request

\* steps of a thread that does not wait for the server, and that leave the wires alone
LEMMA WireUntouched ==
  ASSUME TypeOK, WireInv, NEW t \in Thread, pc[t] # "recv", UNCHANGED <<up, down>>,
         \A u \in Thread \ {t} : /\ pc'[u] = pc[u] /\ sock'[u] = sock[u]
                                /\ op'[u] = op[u] /\ path'[u] = path[u]
  PROVE  WireInv'
<1> SUFFICES ASSUME NEW c \in Conn
             PROVE  /\ Len(up[c]) + Len(down[c]) <= 1
                    /\ up[c] # <<>> =>
                         LET r == Head(up[c]) IN
                         pc'[r.by] = "recv" /\ sock'[r.by] = c /\ r.op = op'[r.by] /\ r.path = path'[r.by]
                    /\ down[c] # <<>> =>
                         \E u \in Thread : pc'[u] = "recv" /\ sock'[u] = c
                                           /\ Explained(op'[u], Head(down[c]).type)
  BY DEF WireInv, Wire
<1>1. Len(up[c]) + Len(down[c]) <= 1 BY DEF WireInv, Wire
<1>2. ASSUME up[c] # <<>>
      PROVE  LET r == Head(up[c]) IN
             pc'[r.by] = "recv" /\ sock'[r.by] = c /\ r.op = op'[r.by] /\ r.path = path'[r.by]
  <2> DEFINE r == Head(up[c])
  <2>1. pc[r.by] = "recv" /\ sock[r.by] = c /\ r.op = op[r.by] /\ r.path = path[r.by]
    BY <1>2 DEF WireInv, Wire
  <2>2. r.by \in Thread \ {t} BY <1>2, <2>1, RequestInFlight
  <2>3. QED BY <2>1, <2>2
<1>3. ASSUME down[c] # <<>>
      PROVE  \E u \in Thread : pc'[u] = "recv" /\ sock'[u] = c
                              /\ Explained(op'[u], Head(down[c]).type)
  <2>1. PICK u \in Thread : pc[u] = "recv" /\ sock[u] = c
                             /\ Explained(op[u], Head(down[c]).type)
    BY <1>3 DEF WireInv, Wire
  <2>2. u # t BY <2>1
  <2>3. QED BY <2>1, <2>2
<1>4. QED BY <1>1, <1>2, <1>3

-----------------------------------------------------------------------------
(* Pools, hands, control and wires are kept by every step *)

\* what each callback drops: something, unless it is a lookup, a read or a write
LEMMA DropsType ==
  ASSUME NEW o \in Ops, NEW p \in Path
  PROVE  /\ Drops(o, p) \in Seq(Key)
         /\ Drops(o, p) # <<>> <=> o \notin Lookups \cup {"write", "read"}
<1>1. Father[p] \in Path BY ClientAssumption
<1>2. <<"LC", Father[p]>> \in Key /\ <<"AC", p>> \in Key BY <1>1 DEF Key, Tags
<1>3. QED BY <1>2 DEF Drops, Ops, Lookups, ChangeOps

\* the steps of one thread leave the others where they are
LEMMA FollowsElsewhere ==
  ASSUME FollowsControl, NEW t \in Thread, Follows(t)',
         \A u \in Thread \ {t} : /\ pc'[u] = pc[u] /\ op'[u] = op[u] /\ path'[u] = path[u]
                                /\ sock'[u] = sock[u] /\ memc'[u] = memc[u]
                                /\ todo'[u] = todo[u] /\ asked'[u] = asked[u]
  PROVE  FollowsControl'
BY DEF FollowsControl, Follows

\* an idle thread has nothing in its hands
LEMMA IdleHands ==
  ASSUME FollowsControl,
         \A m \in Mount : Kept(m, sockPool, sock) /\ Kept(m, memcPool, memc)
  PROVE  ConnectionsConserved
BY DEF FollowsControl, Follows, ConnectionsConserved

\* the kernel calls a callback
LEMMA CallHands ==
  ASSUME HandsInv, NEW t \in Thread, Call(t) PROVE HandsInv'
<1> USE DEF HandsInv
<1>1. PICK c \in Calls[t] :
        /\ op' = [op EXCEPT ![t] = c.op] /\ path' = [path EXCEPT ![t] = c.path]
        /\ todo' = [todo EXCEPT ![t] = Drops(c.op, c.path)]
        /\ pc' = [pc EXCEPT ![t] = IF c.op \in {"write", "read"} THEN "send" ELSE "cache"]
  BY DEF Call, Goto
<1>2. c.op \in Ops /\ c.path \in Path BY ClientAssumption
<1>3. /\ Drops(c.op, c.path) \in Seq(Key)
      /\ Drops(c.op, c.path) # <<>> <=> c.op \notin Lookups \cup {"write", "read"}
  BY <1>2, DropsType
<1>4. /\ pc[t] = "idle" /\ calls < MaxCalls /\ calls' = calls + 1
      /\ answer' = [answer EXCEPT ![t] = NoAnswer] /\ ret' = [ret EXCEPT ![t] = "none"]
      /\ UNCHANGED <<sockPool, memcPool, memc, sock, asked, up, down, cache, kind, size,
                    serverUp, why, outdated, reput>>
  BY DEF Call, At, poolVars, netVars, diskVars, ghostVars
<1>5. TypeOK'
  <2>1. /\ pc' \in [Thread -> Labels] /\ op' \in [Thread -> Ops] /\ path' \in [Thread -> Path]
        /\ todo' \in [Thread -> Seq(Key)]
    BY <1>1, <1>2, <1>3 DEF TypeOK, Labels
  <2>2. \A u \in Thread : answer'[u].type \in Errors \cup {"none", "OK"}
    BY <1>4 DEF TypeOK, Shapes, NoAnswer
  <2>3. ret' \in [Thread -> Errors \cup {"none", "success"}] /\ calls' \in 0..MaxCalls
    BY <1>4, ClientAssumption DEF TypeOK
  <2>4. QED BY <2>1, <2>2, <2>3, <1>4 DEF TypeOK
<1>6. Shapes' BY <1>4 DEF Shapes, Answer, NoAnswer, Value
<1>7. FollowsControl'
  <2>1. Follows(t) BY DEF FollowsControl
  <2>2. pc'[t] = (IF op'[t] \in {"write", "read"} THEN "send" ELSE "cache")
        /\ (todo'[t] # <<>> <=> op'[t] \notin Lookups \cup {"write", "read"})
    BY <1>1, <1>3 DEF TypeOK
  <2>3. Follows(t)' BY <2>1, <2>2, <1>4 DEF Follows, Lookups
  <2>4. QED BY <2>3, <1>1, <1>4, FollowsElsewhere DEF TypeOK
<1>8. ConnectionsConserved' BY <1>4, <1>7, IdleHands DEF ConnectionsConserved, FollowsControl, Follows
<1>9. WireInv' BY <1>1, <1>4, WireUntouched DEF TypeOK
<1>10. QED BY <1>5, <1>6, <1>7, <1>8, <1>9

\* connectionPool_extractAvaibleMemcached
LEMMA TakeMemcachedHands ==
  ASSUME HandsInv, NEW t \in Thread, TakeMemcached(t) PROVE HandsInv'
<1> USE DEF HandsInv
<1>1. /\ pc[t] = "cache" /\ ExtractMemcached(t)
      /\ pc' = [pc EXCEPT ![t] = IF op[t] \in Lookups THEN "get" ELSE "drop"]
      /\ UNCHANGED <<sockPool, sock, op, path, todo, asked, answer, ret, up, down, cache, kind,
                    size, serverUp, calls, why, outdated, reput>>
  BY DEF TakeMemcached, At, Goto, callVars, netVars, diskVars, ghostVars
<1>2. Follows(t) BY DEF FollowsControl
<1>3. memc[t] = NoConn BY <1>1, <1>2 DEF Follows
<1>4. /\ memcPool' \in Pools /\ memc' \in Hands /\ \A m \in Mount : Kept(m, memcPool', memc')
      /\ memc'[t] \in Conn /\ \A u \in Thread \ {t} : memc'[u] = memc[u]
  BY <1>1, <1>3, MemcachedExtracted
<1>5. TypeOK'
  <2>1. pc' \in [Thread -> Labels] BY <1>1 DEF TypeOK, Labels
  <2>2. QED BY <2>1, <1>1, <1>4 DEF TypeOK, Pools, Hands
<1>6. Shapes' BY <1>1 DEF Shapes
<1>7. FollowsControl'
  <2>1. memc'[t] # NoConn BY <1>4, ClientAssumption
  <2>2. pc'[t] = IF op[t] \in Lookups THEN "get" ELSE "drop" BY <1>1 DEF TypeOK
  <2>3. Follows(t)' BY <2>1, <2>2, <1>1, <1>2 DEF Follows
  <2>4. QED BY <2>3, <1>1, <1>4, FollowsElsewhere DEF TypeOK
<1>8. ConnectionsConserved' BY <1>1, <1>4, <1>7, IdleHands DEF ConnectionsConserved, FollowsControl, Follows
<1>9. WireInv' BY <1>1, WireUntouched DEF TypeOK
<1>10. QED BY <1>5, <1>6, <1>7, <1>8, <1>9

\* memcached_delete, and after the last key the connection goes back
LEMMA DropKeyHands ==
  ASSUME HandsInv, NEW t \in Thread, DropKey(t) PROVE HandsInv'
<1> USE DEF HandsInv
<1> DEFINE k == Head(todo[t])
<1>1. /\ pc[t] = "drop"
      /\ cache' = [cache EXCEPT ![k] = None] /\ why' = [why EXCEPT ![k] = "fresh"]
      /\ reput' = [reput EXCEPT ![t] = @ \ {k}] /\ todo' = [todo EXCEPT ![t] = Tail(@)]
      /\ \/ Len(todo[t]) = 1 /\ DepositMemcached(t) /\ pc' = [pc EXCEPT ![t] = "send"]
         \/ Len(todo[t]) # 1 /\ UNCHANGED <<memcPool, memc, pc>>
      /\ UNCHANGED <<sockPool, sock, op, path, asked, answer, ret, up, down, kind, size, serverUp,
                    calls, outdated>>
  BY DEF DropKey, At, Goto, callVars, netVars, diskVars
<1>2. Follows(t) BY DEF FollowsControl
<1>3. op[t] \notin Lookups /\ todo[t] # <<>> BY <1>1, <1>2 DEF Follows
<1>4. /\ todo[t] \in Seq(Key) /\ Tail(todo[t]) \in Seq(Key) /\ Len(Tail(todo[t])) = Len(todo[t]) - 1
      /\ Len(todo[t]) \in Nat
  BY <1>3, HeadTailProperties, LenProperties DEF TypeOK
<1>5. Tail(todo[t]) = <<>> <=> Len(todo[t]) = 1
  <2>1. Len(Tail(todo[t])) = 0 <=> Tail(todo[t]) = <<>> BY <1>4, OneMessage
  <2>2. QED BY <2>1, <1>4
<1>6. /\ memcPool' \in Pools /\ memc' \in Hands /\ \A m \in Mount : Kept(m, memcPool', memc')
      /\ \A u \in Thread \ {t} : memc'[u] = memc[u]
      /\ IF Len(todo[t]) = 1 THEN memc'[t] = NoConn ELSE memc'[t] = memc[t]
  <2>1. CASE Len(todo[t]) = 1 BY <2>1, <1>1, MemcachedDeposited
  <2>2. CASE Len(todo[t]) # 1
    BY <2>2, <1>1 DEF TypeOK, Pools, Hands, ConnectionsConserved
  <2>3. QED BY <2>1, <2>2
<1>7. /\ pc' \in [Thread -> Labels] /\ \A u \in Thread \ {t} : pc'[u] = pc[u]
      /\ pc'[t] = IF Len(todo[t]) = 1 THEN "send" ELSE "drop"
  BY <1>1 DEF TypeOK, Labels
<1>8. TypeOK'
  <2>1. todo' \in [Thread -> Seq(Key)] BY <1>1, <1>4 DEF TypeOK
  <2>2. /\ DOMAIN cache' = Key /\ reput' \in [Thread -> SUBSET Key]
        /\ why' \in [Key -> {"fresh", "race", "write", "key"}]
    BY <1>1 DEF TypeOK
  <2>3. QED BY <2>1, <2>2, <1>1, <1>6, <1>7 DEF TypeOK, Pools, Hands
<1>9. Shapes' BY <1>1 DEF Shapes
<1>10. FollowsControl'
  <2>1. todo'[t] = Tail(todo[t]) /\ \A u \in Thread \ {t} : todo'[u] = todo[u]
    BY <1>1 DEF TypeOK
  <2>2. Follows(t)' BY <2>1, <1>1, <1>2, <1>3, <1>5, <1>6, <1>7 DEF Follows
  <2>3. QED BY <2>1, <2>2, <1>1, <1>6, <1>7, FollowsElsewhere
<1>11. ConnectionsConserved'
  BY <1>1, <1>6, <1>10, IdleHands DEF ConnectionsConserved, FollowsControl, Follows
<1>12. WireInv' BY <1>1, <1>7, WireUntouched
<1>13. QED BY <1>8, <1>9, <1>10, <1>11, <1>12

\* memcached_getValue: a hit ends the callback, a miss goes on to the server
LEMMA AskCacheHands ==
  ASSUME HandsInv, NEW t \in Thread, AskCache(t) PROVE HandsInv'
<1> USE DEF HandsInv
<1>1. /\ pc[t] = "get"
      /\ UNCHANGED <<sockPool, sock, todo, answer, up, down, cache, kind, size, serverUp, calls,
                    why, reput>>
  BY DEF AskCache, At, netVars, diskVars
<1>2. PICK k \in KeysOf(op[t], path[t]) :
        \/ DepositMemcached(t) /\ Return(t, "success")
        \/ /\ asked' = [asked EXCEPT ![t] = k] /\ Goto(t, "send")
           /\ UNCHANGED <<ret, memcPool, memc, op, path, outdated>>
  BY DEF AskCache, callVars
<1>3. Follows(t) BY DEF FollowsControl
<1>4. op[t] \in Lookups /\ sock[t] = NoConn /\ memc[t] # NoConn /\ todo[t] = <<>>
  BY <1>1, <1>3 DEF Follows
<1>5. k \in Key BY DEF KeysOf, Key, Tags, TypeOK
<1>6. CASE DepositMemcached(t) /\ Return(t, "success")
  <2>1. /\ memcPool' \in Pools /\ memc' \in Hands /\ \A m \in Mount : Kept(m, memcPool', memc')
        /\ memc'[t] = NoConn /\ \A u \in Thread \ {t} : memc'[u] = memc[u]
    BY <1>6, MemcachedDeposited
  <2>2. TypeOK'
    <3>1. /\ pc' \in [Thread -> Labels] /\ op' \in [Thread -> Ops] /\ path' \in [Thread -> Path]
          /\ ret' \in [Thread -> Errors \cup {"none", "success"}]
          /\ asked' \in [Thread -> Key \cup {None}] /\ outdated' \in [Thread -> BOOLEAN]
      BY <1>6, ClientAssumption DEF Return, Goto, TypeOK, Labels, Ops
    <3>2. QED BY <3>1, <2>1, <1>1 DEF TypeOK, Pools, Hands
  <2>3. FollowsControl'
    <3>1. pc'[t] = "idle" BY <1>6 DEF Return, Goto, TypeOK
    <3>2. Follows(t)' BY <3>1, <2>1, <1>1, <1>4 DEF Follows
    <3>3. QED BY <3>2, <2>1, <1>1, <1>6, FollowsElsewhere DEF Return, Goto, TypeOK
  <2>4. ConnectionsConserved' BY <1>1, <2>1, <2>3, IdleHands DEF ConnectionsConserved, FollowsControl, Follows
  <2>5. WireInv' BY <1>1, <1>6, WireUntouched DEF Return, Goto, TypeOK
  <2>6. QED BY <2>2, <2>3, <2>4, <2>5, <1>1 DEF Shapes
<1>7. CASE /\ asked' = [asked EXCEPT ![t] = k] /\ Goto(t, "send")
           /\ UNCHANGED <<ret, memcPool, memc, op, path, outdated>>
  <2>1. TypeOK'
    <3>1. pc' \in [Thread -> Labels] /\ asked' \in [Thread -> Key \cup {None}]
      BY <1>5, <1>7 DEF Goto, TypeOK, Labels
    <3>2. QED BY <3>1, <1>1, <1>7 DEF TypeOK
  <2>2. FollowsControl'
    <3>1. pc'[t] = "send" /\ asked'[t] = k BY <1>7 DEF Goto, TypeOK
    <3>2. Follows(t)' BY <3>1, <1>1, <1>4, <1>7 DEF Follows
    <3>3. QED BY <3>2, <1>1, <1>7, FollowsElsewhere DEF Goto, TypeOK
  <2>3. ConnectionsConserved' BY <1>1, <1>7, <2>2, IdleHands DEF ConnectionsConserved, FollowsControl, Follows
  <2>4. WireInv' BY <1>1, <1>7, WireUntouched DEF Goto, TypeOK
  <2>5. QED BY <2>1, <2>2, <2>3, <2>4, <1>1 DEF Shapes
<1>8. QED BY <1>2, <1>6, <1>7

\* extractAvaibleSocket and enviar_paquete: the socket was quiet in the pool
LEMMA SendHands ==
  ASSUME HandsInv, NEW t \in Thread, Send(t) PROVE HandsInv'
<1> USE DEF HandsInv
<1> DEFINE c == sock'[t]
           r == [op |-> op[t], path |-> path[t], by |-> t]
<1>1. /\ pc[t] = "send" /\ ExtractSocket(t) /\ pc' = [pc EXCEPT ![t] = "recv"]
      /\ up' = [up EXCEPT ![c] = Append(@, r)]
      /\ UNCHANGED <<memcPool, memc, op, path, todo, asked, answer, ret, down, cache, kind, size,
                    serverUp, calls, why, outdated, reput>>
  BY DEF Send, At, Goto, callVars, diskVars, ghostVars
<1>2. Follows(t) BY DEF FollowsControl
<1>3. sock[t] = NoConn BY <1>1, <1>2 DEF Follows
<1>4. /\ sockPool' \in Pools /\ sock' \in Hands /\ \A m \in Mount : Kept(m, sockPool', sock')
      /\ c \in Conn /\ \A u \in Thread \ {t} : sock'[u] = sock[u]
      /\ \A u \in Thread : sock[u] # c
  BY <1>1, <1>3, SocketExtracted
<1>5. r \in Request BY DEF TypeOK, Request
<1>6. up[c] = <<>> /\ down[c] = <<>>
  <2>1. up[c] # <<>> => sock[Head(up[c]).by] = c /\ Head(up[c]).by \in Thread
    BY <1>4, RequestInFlight DEF WireInv, Wire
  <2>2. down[c] # <<>> => \E u \in Thread : sock[u] = c BY <1>4 DEF WireInv, Wire
  <2>3. QED BY <2>1, <2>2, <1>4
<1>7. /\ up'[c] \in Seq(Request) /\ up'[c] # <<>> /\ Len(up'[c]) = 1 /\ Head(up'[c]) = r
      /\ \A d \in Conn \ {c} : up'[d] = up[d]
  <2>1. up'[c] = Append(up[c], r) /\ \A d \in Conn \ {c} : up'[d] = up[d]
    BY <1>1, <1>4 DEF TypeOK
  <2>2. up[c] \in Seq(Request) BY <1>4 DEF TypeOK
  <2>3. QED BY <2>1, <2>2, <1>5, <1>6, OneMessage
<1>8. pc' \in [Thread -> Labels] /\ pc'[t] = "recv" /\ \A u \in Thread \ {t} : pc'[u] = pc[u]
  BY <1>1 DEF TypeOK, Labels
<1>9. TypeOK'
  <2>1. up' \in [Conn -> Seq(Request)] BY <1>1, <1>4, <1>7 DEF TypeOK
  <2>2. QED BY <2>1, <1>1, <1>4, <1>8 DEF TypeOK, Pools, Hands
<1>10. Shapes' BY <1>1 DEF Shapes
<1>11. FollowsControl'
  <2>1. c # NoConn BY <1>4, ClientAssumption
  <2>2. Follows(t)' BY <2>1, <1>1, <1>2, <1>8 DEF Follows
  <2>3. QED BY <2>2, <1>1, <1>4, <1>8, FollowsElsewhere
<1>12. ConnectionsConserved'
  BY <1>1, <1>4, <1>11, IdleHands DEF ConnectionsConserved, FollowsControl, Follows
<1>13. WireInv'
  <2> SUFFICES ASSUME NEW d \in Conn PROVE Wire(d)' BY DEF WireInv
  <2>1. CASE d = c
    <3>1. Len(down[d]) = 0 BY <2>1, <1>6, EmptySeq
    <3>2. QED BY <2>1, <3>1, <1>1, <1>6, <1>7, <1>8 DEF Wire
  <2>2. CASE d # c
    <3>1. up'[d] = up[d] /\ Len(up[d]) + Len(down[d]) <= 1 BY <2>2, <1>7 DEF WireInv, Wire
    <3>2. ASSUME up[d] # <<>>
          PROVE  LET q == Head(up[d]) IN
                 pc'[q.by] = "recv" /\ sock'[q.by] = d /\ q.op = op[q.by] /\ q.path = path[q.by]
      <4> DEFINE q == Head(up[d])
      <4>1. pc[q.by] = "recv" /\ sock[q.by] = d /\ q.op = op[q.by] /\ q.path = path[q.by]
        BY <3>2 DEF WireInv, Wire
      <4>2. q.by \in Thread \ {t} BY <4>1, <3>2, <1>1, RequestInFlight
      <4>3. QED BY <4>1, <4>2, <1>4, <1>8
    <3>3. ASSUME down[d] # <<>>
          PROVE  \E u \in Thread : pc'[u] = "recv" /\ sock'[u] = d
                                  /\ Explained(op[u], Head(down[d]).type)
      <4>1. PICK u \in Thread : pc[u] = "recv" /\ sock[u] = d /\ Explained(op[u], Head(down[d]).type)
        BY <3>3 DEF WireInv, Wire
      <4>2. u # t BY <4>1, <1>1
      <4>3. QED BY <4>1, <4>2, <1>4, <1>8
    <3>4. QED BY <3>1, <3>2, <3>3, <1>1 DEF Wire
  <2>3. QED BY <2>1, <2>2
<1>14. QED BY <1>9, <1>10, <1>11, <1>12, <1>13

\* both pools take back what a returning callback holds
LEMMA GivenBack ==
  ASSUME TypeOK, ConnectionsConserved, NEW t \in Thread, GiveBack(t)
  PROVE  /\ memcPool' \in Pools /\ memc' \in Hands /\ sockPool' \in Pools /\ sock' \in Hands
         /\ \A m \in Mount : Kept(m, sockPool', sock') /\ Kept(m, memcPool', memc')
         /\ memc'[t] = NoConn /\ sock'[t] = NoConn
         /\ \A u \in Thread \ {t} : memc'[u] = memc[u] /\ sock'[u] = sock[u]
BY MemcachedDeposited, SocketDeposited DEF GiveBack

\* a callback that returns
LEMMA Returned ==
  ASSUME TypeOK, NEW t \in Thread, NEW r \in Errors \cup {"none", "success"}, Return(t, r)
  PROVE  /\ pc' \in [Thread -> Labels] /\ op' \in [Thread -> Ops] /\ path' \in [Thread -> Path]
         /\ ret' \in [Thread -> Errors \cup {"none", "success"}]
         /\ asked' \in [Thread -> Key \cup {None}] /\ outdated' \in [Thread -> BOOLEAN]
         /\ pc'[t] = "idle" /\ op'[t] = "read" /\ ret'[t] = r /\ outdated'[t] = FALSE
         /\ \A u \in Thread \ {t} : /\ pc'[u] = pc[u] /\ op'[u] = op[u] /\ path'[u] = path[u]
                                    /\ asked'[u] = asked[u] /\ outdated'[u] = outdated[u]
BY ClientAssumption DEF Return, Goto, TypeOK, Labels, Ops

\* memcached_addOrReplace of a lookup's answer
LEMMA PutHands ==
  ASSUME HandsInv, NEW t \in Thread, Put(t) PROVE HandsInv'
<1> USE DEF HandsInv
<1>1. /\ pc[t] = "put" /\ GiveBack(t) /\ Return(t, "success")
      /\ cache' = [cache EXCEPT ![asked[t]] = answer[t].value]
      /\ why' = [why EXCEPT ![asked[t]] = IF outdated[t] THEN "race"
                                         ELSE IF asked[t][1] = "AC+" THEN "key" ELSE "fresh"]
      /\ reput' = [u \in Thread |-> IF asked[t] \in Dropped(u) THEN reput[u] \cup {asked[t]} ELSE reput[u]]
      /\ UNCHANGED <<todo, answer, up, down, kind, size, serverUp, calls>>
  BY DEF Put, At, netVars, diskVars
<1>2. Follows(t) BY DEF FollowsControl
<1>3. op[t] \in Lookups /\ asked[t] \in Key /\ todo[t] = <<>>
  BY <1>1, <1>2 DEF Follows, KeysOf, Key, Tags, TypeOK
<1>4. /\ memcPool' \in Pools /\ memc' \in Hands /\ sockPool' \in Pools /\ sock' \in Hands
      /\ \A m \in Mount : Kept(m, sockPool', sock') /\ Kept(m, memcPool', memc')
      /\ memc'[t] = NoConn /\ sock'[t] = NoConn
      /\ \A u \in Thread \ {t} : memc'[u] = memc[u] /\ sock'[u] = sock[u]
  BY <1>1, GivenBack
<1>5. /\ pc' \in [Thread -> Labels] /\ op' \in [Thread -> Ops] /\ path' \in [Thread -> Path]
      /\ ret' \in [Thread -> Errors \cup {"none", "success"}]
      /\ asked' \in [Thread -> Key \cup {None}] /\ outdated' \in [Thread -> BOOLEAN]
      /\ pc'[t] = "idle"
      /\ \A u \in Thread \ {t} : /\ pc'[u] = pc[u] /\ op'[u] = op[u] /\ path'[u] = path[u]
                                 /\ asked'[u] = asked[u]
  BY <1>1, Returned
<1>6. TypeOK'
  <2>1. /\ DOMAIN cache' = Key /\ reput' \in [Thread -> SUBSET Key]
        /\ why' \in [Key -> {"fresh", "race", "write", "key"}]
    BY <1>1, <1>3 DEF TypeOK
  <2>2. QED BY <2>1, <1>1, <1>4, <1>5 DEF TypeOK, Pools, Hands
<1>7. FollowsControl'
  <2>1. Follows(t)' BY <1>1, <1>3, <1>4, <1>5 DEF Follows
  <2>2. QED BY <2>1, <1>1, <1>4, <1>5, FollowsElsewhere
<1>8. ConnectionsConserved' BY <1>4, <1>7, IdleHands DEF ConnectionsConserved, FollowsControl, Follows
<1>9. WireInv' BY <1>1, <1>4, <1>5, WireUntouched
<1>10. QED BY <1>1, <1>6, <1>7, <1>8, <1>9 DEF Shapes

\* what an answer in flight is
LEMMA AnswerInFlight ==
  ASSUME TypeOK, Shapes, NEW c \in Conn, down[c] # <<>>
  PROVE  /\ Head(down[c]) \in Answer /\ Head(down[c]).type \in Errors \cup {"OK"}
         /\ Tail(down[c]) \in Seq(Answer)
<1>1. down[c] \in Seq(Answer) BY DEF Shapes
<1>2. Head(down[c]) \in Answer /\ Tail(down[c]) \in Seq(Answer) BY <1>1, HeadTailProperties
<1>3. 1 \in DOMAIN down[c] /\ Head(down[c]) = down[c][1]
  BY <1>1, LenProperties, EmptySeq
<1>4. QED BY <1>2, <1>3 DEF TypeOK

\* the answer that a callback waits for leaves the socket quiet, and explains itself
LEMMA AnswerTaken ==
  ASSUME HandsInv, NEW t \in Thread, pc[t] = "recv", down[sock[t]] # <<>>
  PROVE  /\ sock[t] \in Conn /\ up[sock[t]] = <<>> /\ Tail(down[sock[t]]) = <<>>
         /\ Explained(op[t], Head(down[sock[t]]).type)
<1> USE DEF HandsInv
<1>1. sock[t] # NoConn BY DEF FollowsControl, Follows
<1>2. sock[t] \in Conn BY <1>1 DEF TypeOK
<1>3. Len(up[sock[t]]) + Len(down[sock[t]]) <= 1 BY <1>2 DEF WireInv, Wire
<1>4. /\ Len(up[sock[t]]) \in Nat /\ (Len(up[sock[t]]) = 0 <=> up[sock[t]] = <<>>)
  <2>1. up[sock[t]] \in Seq(Request) BY <1>2 DEF TypeOK
  <2>2. QED BY <2>1, OneMessage
<1>5. /\ Len(down[sock[t]]) \in Nat /\ (Len(down[sock[t]]) = 0 <=> down[sock[t]] = <<>>)
      /\ Len(down[sock[t]]) <= 1 => Tail(down[sock[t]]) = <<>>
  <2>1. down[sock[t]] \in Seq(Answer) BY <1>2 DEF Shapes
  <2>2. QED BY <2>1, OneMessage
<1>6. up[sock[t]] = <<>> /\ Tail(down[sock[t]]) = <<>>
  <2>1. Len(down[sock[t]]) # 0 BY <1>5
  <2> DEFINE m == Len(up[sock[t]])
             n == Len(down[sock[t]])
  <2>2. m = 0 /\ n <= 1
    <3>1. m \in Nat /\ n \in Nat /\ n # 0 /\ m + n <= 1 BY <2>1, <1>3, <1>4, <1>5
    <3> HIDE DEF m, n
    <3>2. QED BY ONLY <3>1
  <2>3. QED BY <2>2, <1>4, <1>5
<1>7. PICK u \in Thread : sock[u] = sock[t] /\ Explained(op[u], Head(down[sock[t]]).type)
  BY <1>2 DEF WireInv, Wire
<1>8. u = t BY <1>1, <1>7, OneHolder
<1>9. QED BY <1>2, <1>6, <1>7, <1>8

\* recibir: the answer ends the callback or goes to the cache
LEMMA ReceiveHands ==
  ASSUME HandsInv, NEW t \in Thread, Receive(t) PROVE HandsInv'
<1> USE DEF HandsInv
<1> DEFINE c == sock[t]
           a == Head(down[c])
<1>1. /\ pc[t] = "recv" /\ down[c] # <<>>
      /\ answer' = [answer EXCEPT ![t] = a] /\ down' = [down EXCEPT ![c] = Tail(@)]
      /\ reput' = [reput EXCEPT ![t] = {}]
      /\ UNCHANGED <<todo, up, cache, kind, size, serverUp, calls, why>>
  BY DEF Receive, At, diskVars
<1>2. \/ \E r \in Errors \cup {"none", "success"} : GiveBack(t) /\ Return(t, r)
      \/ /\ op[t] \in Lookups /\ Goto(t, "put")
         /\ UNCHANGED <<sockPool, memcPool, memc, sock, op, path, asked, ret, outdated>>
  <2>1. Handles(op[t]) \subseteq Errors BY DEF Handles, Errors
  <2>2. QED BY <2>1 DEF Receive, poolVars, callVars
<1>3. /\ c \in Conn /\ up[c] = <<>> /\ Tail(down[c]) = <<>> BY <1>1, AnswerTaken
<1>4. a \in Answer /\ a.type \in Errors \cup {"OK"} /\ Tail(down[c]) \in Seq(Answer)
  BY <1>1, <1>3, AnswerInFlight
<1>5. down'[c] = <<>> /\ \A d \in Conn \ {c} : down'[d] = down[d] BY <1>1, <1>3 DEF Shapes
<1>6. Follows(t) BY DEF FollowsControl
<1>7. /\ sockPool' \in Pools /\ sock' \in Hands /\ memcPool' \in Pools /\ memc' \in Hands
      /\ \A m \in Mount : Kept(m, sockPool', sock') /\ Kept(m, memcPool', memc')
      /\ pc' \in [Thread -> Labels] /\ op' \in [Thread -> Ops] /\ path' \in [Thread -> Path]
      /\ ret' \in [Thread -> Errors \cup {"none", "success"}]
      /\ asked' \in [Thread -> Key \cup {None}] /\ outdated' \in [Thread -> BOOLEAN]
      /\ \A u \in Thread \ {t} : /\ pc'[u] = pc[u] /\ op'[u] = op[u] /\ path'[u] = path[u]
                                 /\ asked'[u] = asked[u] /\ sock'[u] = sock[u] /\ memc'[u] = memc[u]
      /\ Follows(t)' /\ pc'[t] # "recv"
  <2>1. CASE \E r \in Errors \cup {"none", "success"} : GiveBack(t) /\ Return(t, r)
    <3>1. PICK r \in Errors \cup {"none", "success"} : GiveBack(t) /\ Return(t, r) BY <2>1
    <3>2. /\ memcPool' \in Pools /\ memc' \in Hands /\ sockPool' \in Pools /\ sock' \in Hands
          /\ \A m \in Mount : Kept(m, sockPool', sock') /\ Kept(m, memcPool', memc')
          /\ memc'[t] = NoConn /\ sock'[t] = NoConn
          /\ \A u \in Thread \ {t} : memc'[u] = memc[u] /\ sock'[u] = sock[u]
      BY <3>1, GivenBack
    <3>3. /\ pc' \in [Thread -> Labels] /\ op' \in [Thread -> Ops] /\ path' \in [Thread -> Path]
          /\ ret' \in [Thread -> Errors \cup {"none", "success"}]
          /\ asked' \in [Thread -> Key \cup {None}] /\ outdated' \in [Thread -> BOOLEAN]
          /\ pc'[t] = "idle"
          /\ \A u \in Thread \ {t} : /\ pc'[u] = pc[u] /\ op'[u] = op[u] /\ path'[u] = path[u]
                                     /\ asked'[u] = asked[u]
      BY <3>1, Returned
    <3>4. Follows(t)' BY <1>1, <1>6, <3>2, <3>3 DEF Follows
    <3>5. QED BY <3>2, <3>3, <3>4
  <2>2. CASE /\ op[t] \in Lookups /\ Goto(t, "put")
             /\ UNCHANGED <<sockPool, memcPool, memc, sock, op, path, asked, ret, outdated>>
    <3>1. /\ pc' \in [Thread -> Labels] /\ pc'[t] = "put"
          /\ \A u \in Thread \ {t} : pc'[u] = pc[u]
      BY <2>2 DEF Goto, TypeOK, Labels
    <3>2. Follows(t)' BY <1>1, <1>6, <2>2, <3>1 DEF Follows
    <3>3. QED BY <2>2, <3>1, <3>2 DEF TypeOK, Pools, Hands, ConnectionsConserved
  <2>3. QED BY <1>2, <2>1, <2>2
<1>8. Shapes' BY <1>1, <1>3, <1>4 DEF Shapes
<1>9. TypeOK'
  <2>1. \A u \in Thread : answer'[u].type \in Errors \cup {"none", "OK"}
    BY <1>1, <1>4 DEF TypeOK, Shapes
  <2>2. \A d \in Conn : \A i \in DOMAIN down'[d] : down'[d][i].type \in Errors \cup {"OK"}
    <3>1. DOMAIN down'[c] = {} BY <1>5
    <3>2. QED BY <3>1, <1>5 DEF TypeOK
  <2>3. reput' \in [Thread -> SUBSET Key] BY <1>1 DEF TypeOK
  <2>4. QED BY <2>1, <2>2, <2>3, <1>1, <1>7 DEF TypeOK, Pools, Hands
<1>10. FollowsControl' BY <1>1, <1>7, FollowsElsewhere
<1>11. ConnectionsConserved'
  BY <1>7, <1>10, IdleHands DEF ConnectionsConserved, FollowsControl, Follows
<1>12. WireInv'
  <2> SUFFICES ASSUME NEW d \in Conn PROVE Wire(d)' BY DEF WireInv
  <2>1. CASE d = c
    <3>1. Len(up'[d]) = 0 /\ Len(down'[d]) = 0 BY <2>1, <1>1, <1>3, <1>5, EmptySeq
    <3>2. QED BY <2>1, <3>1, <1>1, <1>3, <1>5 DEF Wire
  <2>2. CASE d # c
    <3>1. down'[d] = down[d] /\ up'[d] = up[d] /\ Wire(d) BY <2>2, <1>1, <1>5 DEF WireInv
    <3>2. ASSUME up[d] # <<>>
          PROVE  LET q == Head(up[d]) IN
                 pc'[q.by] = "recv" /\ sock'[q.by] = d /\ q.op = op'[q.by] /\ q.path = path'[q.by]
      <4> DEFINE q == Head(up[d])
      <4>1. pc[q.by] = "recv" /\ sock[q.by] = d /\ q.op = op[q.by] /\ q.path = path[q.by]
        BY <3>1, <3>2 DEF Wire
      <4>2. q.by \in Thread \ {t} BY <4>1, <3>2, <2>2, RequestInFlight
      <4>3. QED BY <4>1, <4>2, <1>7
    <3>3. ASSUME down[d] # <<>>
          PROVE  \E u \in Thread : pc'[u] = "recv" /\ sock'[u] = d
                                  /\ Explained(op'[u], Head(down[d]).type)
      <4>1. PICK u \in Thread : pc[u] = "recv" /\ sock[u] = d /\ Explained(op[u], Head(down[d]).type)
        BY <3>1, <3>3 DEF Wire
      <4>2. u # t BY <4>1, <2>2
      <4>3. QED BY <4>1, <4>2, <1>7
    <3>4. QED BY <3>1, <3>2, <3>3 DEF Wire
  <2>3. QED BY <2>1, <2>2
<1>13. QED BY <1>8, <1>9, <1>10, <1>11, <1>12

\* a socket with a request in flight has nothing else, and the thread that sent it waits
LEMMA RequestTaken ==
  ASSUME HandsInv, NEW c \in Conn, up[c] # <<>>
  PROVE  LET r == Head(up[c]) IN
         /\ r.op \in Ops /\ r.path \in Path /\ r.by \in Thread
         /\ pc[r.by] = "recv" /\ sock[r.by] = c /\ op[r.by] = r.op /\ path[r.by] = r.path
         /\ \A t \in Thread \ {r.by} : sock[t] # c
         /\ down[c] = <<>> /\ Tail(up[c]) = <<>>
<1> USE DEF HandsInv
<1> DEFINE r == Head(up[c])
           m == Len(up[c])
           n == Len(down[c])
<1>1. r.op \in Ops /\ r.path \in Path /\ r.by \in Thread BY RequestInFlight
<1>2. /\ pc[r.by] = "recv" /\ sock[r.by] = c /\ op[r.by] = r.op /\ path[r.by] = r.path
      /\ m + n <= 1
  BY DEF WireInv, Wire
<1>3. c # NoConn BY ClientAssumption
<1>4. \A t \in Thread \ {r.by} : sock[t] # c BY <1>1, <1>2, <1>3, OneHolder
<1>5. m \in Nat /\ (m = 0 <=> up[c] = <<>>) /\ (m <= 1 => Tail(up[c]) = <<>>)
  <2>1. up[c] \in Seq(Request) BY DEF TypeOK
  <2>2. QED BY <2>1, OneMessage
<1>6. n \in Nat /\ (n = 0 <=> down[c] = <<>>)
  <2>1. down[c] \in Seq(Answer) BY DEF Shapes
  <2>2. QED BY <2>1, OneMessage
<1>7. m # 0 BY <1>5
<1>8. m <= 1 /\ n = 0
  <2>1. m \in Nat /\ n \in Nat /\ m # 0 /\ m + n <= 1 BY <1>2, <1>5, <1>6, <1>7
  <2> HIDE DEF m, n
  <2>2. QED BY ONLY <2>1
<1>9. down[c] = <<>> /\ Tail(up[c]) = <<>> BY <1>5, <1>6, <1>8
<1>10. QED BY <1>1, <1>2, <1>4, <1>9

\* the handlers answer with a type that the callback's table knows, but for one
LEMMA AnswersExplained ==
  ASSUME NEW r, r.op \in Ops
  PROVE  AnswerType(r) \in Errors \cup {"OK"} /\ Explained(r.op, AnswerType(r))
<1>1. CASE r.op \in {"create", "mkdir"}
  BY <1>1 DEF AnswerType, Explained, Handles, Errors, ChangeOps, Lookups
<1>2. CASE r.op \in {"unlink", "rmdir"}
  BY <1>2 DEF AnswerType, Explained, Handles, Errors, ChangeOps, Lookups
<1>3. CASE r.op \in {"truncate", "read", "write", "getattr", "readdir"}
  BY <1>3 DEF AnswerType, Explained, Handles, Errors, ChangeOps, Lookups
<1>4. QED BY <1>1, <1>2, <1>3 DEF Ops, ChangeOps, Lookups

\* what the server answers with, and the volume it leaves, have their types
LEMMA ServedTypes ==
  ASSUME kind \in [Path -> Kinds], size \in [Path -> Nat], NEW r, r.op \in Ops, r.path \in Path
  PROVE  /\ ValueFor(r) \in Value /\ KindAfter(r) \in [Path -> Kinds]
         /\ SizeAfter(r) \in [Path -> Nat]
         /\ \A p \in Path \ {r.path} : KindAfter(r)[p] = kind[p] /\ SizeAfter(r)[p] = size[p]
         /\ SizeAfter(r)[r.path] \in {0, size[r.path], size[r.path] + 1}
         /\ r.op # "write" => SizeAfter(r)[r.path] \in {0, size[r.path]}
<1>1. ValueFor(r) \in Value
  <2>1. Listing(kind, r.path) \in SUBSET Path BY DEF Listing
  <2>2. [kind |-> kind[r.path], size |-> size[r.path]] \in [kind : Kinds, size : Nat] OBVIOUS
  <2>3. None \in Value /\ SUBSET Path \subseteq Value /\ [kind : Kinds, size : Nat] \subseteq Value
    BY DEF Value
  <2>4. CASE r.op = "getattr"
    <3>1. <<"AC", r.path>>[1] = "AC" /\ <<"AC", r.path>>[2] = r.path /\ "AC" # "LC" OBVIOUS
    <3>2. ValueFor(r) = IF kind[r.path] = "none" THEN None
                        ELSE [kind |-> kind[r.path], size |-> size[r.path]]
      BY <2>4, <3>1 DEF ValueFor, Right
    <3>3. QED BY <3>2, <2>2, <2>3
  <2>5. CASE r.op # "getattr"
    <3>1. ValueFor(r) = IF r.op = "readdir" THEN Listing(kind, r.path) ELSE None
      BY <2>5 DEF ValueFor
    <3>2. QED BY <3>1, <2>1, <2>3
  <2>6. QED BY <2>4, <2>5
<1>2. /\ KindAfter(r) \in [Path -> Kinds]
      /\ \A p \in Path \ {r.path} : KindAfter(r)[p] = kind[p]
  BY DEF KindAfter, Kinds
<1>3. /\ SizeAfter(r) \in [Path -> Nat]
      /\ \A p \in Path \ {r.path} : SizeAfter(r)[p] = size[p]
      /\ SizeAfter(r)[r.path] \in {0, size[r.path], size[r.path] + 1}
      /\ r.op # "write" => SizeAfter(r)[r.path] \in {0, size[r.path]}
  BY DEF SizeAfter
<1>4. QED BY <1>1, <1>2, <1>3

\* a worker of the server answers; that sizes stay within the calls is shown apart
LEMMA ServeHands ==
  ASSUME HandsInv, NEW c \in Conn, Serve(c), size' \in [Path -> 0..MaxCalls] PROVE HandsInv'
<1> USE DEF HandsInv
<1> DEFINE r == Head(up[c])
           type == AnswerType(r)
           a == [type |-> type, value |-> IF type = "OK" THEN ValueFor(r) ELSE None]
<1>1. /\ up[c] # <<>> /\ up' = [up EXCEPT ![c] = Tail(@)]
      /\ down' = [down EXCEPT ![c] = Append(@, a)]
      /\ kind' = IF type = "OK" THEN KindAfter(r) ELSE kind
      /\ UNCHANGED <<sockPool, memcPool, memc, sock, pc, op, path, todo, asked, answer, ret, cache,
                    serverUp, calls, reput>>
  BY DEF Serve, poolVars, callVars
<1>2. \A k \in Key : why'[k] \in {"fresh", "race", "write", "key"}
  BY DEF Serve, TypeOK
<1>3. why' \in [Key -> {"fresh", "race", "write", "key"}] /\ outdated' \in [Thread -> BOOLEAN]
  <2>1. why' = [k \in Key |-> why'[k]] /\ outdated' = [t \in Thread |-> outdated'[t]] BY DEF Serve
  <2>2. \A t \in Thread : outdated'[t] \in BOOLEAN BY DEF Serve
  <2>3. QED BY <1>2, <2>1, <2>2
<1>4. /\ r.op \in Ops /\ r.path \in Path /\ r.by \in Thread
      /\ pc[r.by] = "recv" /\ sock[r.by] = c /\ op[r.by] = r.op /\ path[r.by] = r.path
      /\ down[c] = <<>> /\ Tail(up[c]) = <<>>
  BY <1>1, RequestTaken
<1>5. type \in Errors \cup {"OK"} /\ Explained(r.op, type) BY <1>4, AnswersExplained
<1>6. kind \in [Path -> Kinds] /\ size \in [Path -> Nat] BY ClientAssumption DEF TypeOK
<1>7. ValueFor(r) \in Value /\ KindAfter(r) \in [Path -> Kinds] BY <1>4, <1>6, ServedTypes
<1>8. a \in Answer BY <1>5, <1>7 DEF Answer, Value
<1>9. /\ down'[c] \in Seq(Answer) /\ Len(down'[c]) = 1 /\ Head(down'[c]) = a
      /\ \A d \in Conn \ {c} : down'[d] = down[d]
  <2>1. down[c] \in Seq(Answer) BY DEF Shapes
  <2>2. down'[c] = Append(down[c], a) /\ \A d \in Conn \ {c} : down'[d] = down[d]
    BY <1>1 DEF Shapes
  <2>3. QED BY <2>1, <2>2, <1>4, <1>8, OneMessage
<1>10. up'[c] = <<>> /\ (\A d \in Conn \ {c} : up'[d] = up[d]) /\ up' \in [Conn -> Seq(Request)]
  <2>1. <<>> \in Seq(Request) BY EmptySeq
  <2>2. QED BY <2>1, <1>1, <1>4 DEF TypeOK
<1>11. Shapes' BY <1>1, <1>9 DEF Shapes
<1>12. TypeOK'
  <2>1. \A d \in Conn : \A i \in DOMAIN down'[d] : down'[d][i].type \in Errors \cup {"OK"}
    <3>1. DOMAIN down'[c] = 1..1 BY <1>9, LenProperties
    <3>2. down'[c][1].type \in Errors \cup {"OK"} BY <1>5, <1>9
    <3> SUFFICES ASSUME NEW d \in Conn, NEW i \in DOMAIN down'[d]
                 PROVE  down'[d][i].type \in Errors \cup {"OK"}
      OBVIOUS
    <3>3. CASE d = c
      <4>1. i = 1 BY <3>1, <3>3
      <4>2. QED BY <3>2, <3>3, <4>1
    <3>4. CASE d # c BY <3>4, <1>9 DEF TypeOK
    <3>5. QED BY <3>3, <3>4
  <2>2. kind' \in [Path -> Kinds] BY <1>1, <1>6, <1>7
  <2>3. QED BY <2>1, <2>2, <1>1, <1>3, <1>10 DEF TypeOK
<1>13. FollowsControl' BY <1>1 DEF FollowsControl, Follows
<1>14. ConnectionsConserved' BY <1>1 DEF ConnectionsConserved
<1>15. WireInv'
  <2> SUFFICES ASSUME NEW d \in Conn PROVE Wire(d)' BY DEF WireInv
  <2>1. CASE d = c
    <3>1. Len(up'[d]) = 0 BY <2>1, <1>10, EmptySeq
    <3>2. Len(up'[d]) + Len(down'[d]) <= 1 BY <2>1, <3>1, <1>9
    <3>3. pc'[r.by] = "recv" /\ sock'[r.by] = d /\ Explained(op'[r.by], Head(down'[d]).type)
      BY <2>1, <1>1, <1>4, <1>5, <1>9
    <3>4. QED BY <2>1, <3>2, <3>3, <1>4, <1>10 DEF Wire
  <2>2. CASE d # c
    <3>1. Wire(d) BY DEF WireInv
    <3>2. QED BY <2>2, <3>1, <1>1, <1>9, <1>10 DEF Wire
  <2>3. QED BY <2>1, <2>2
<1>16. QED BY <1>11, <1>12, <1>13, <1>14, <1>15

\* evictions, deaths and stuttering touch nothing of this
LEMMA OtherHands ==
  ASSUME HandsInv, (\E c \in Conn : Die(c)) \/ (\E k \in Key : Evict(k)) \/ UNCHANGED vars
  PROVE  HandsInv'
<1> USE DEF HandsInv
<1>1. /\ UNCHANGED <<sockPool, memcPool, memc, sock, pc, op, path, todo, asked, answer, ret, up, down,
                     kind, size, calls, why, outdated, reput>>
      /\ DOMAIN cache' = DOMAIN cache /\ serverUp' \in BOOLEAN
  BY DEF Die, Evict, vars, poolVars, callVars, netVars, diskVars, ghostVars, TypeOK
<1>2. TypeOK' BY <1>1 DEF TypeOK
<1>3. Shapes' BY <1>1 DEF Shapes
<1>4. FollowsControl' BY <1>1 DEF FollowsControl, Follows
<1>5. ConnectionsConserved' BY <1>1 DEF ConnectionsConserved
<1>6. WireInv' BY <1>1 DEF WireInv, Wire
<1>7. QED BY <1>2, <1>3, <1>4, <1>5, <1>6

-----------------------------------------------------------------------------
(* What the cache holds: the steps of the callbacks *)

\* the writes on their way are finitely many, and each call adds one at most
LEMMA WritingBelow ==
  ASSUME TypeOK, SizesBounded, size' \in [Path -> Nat], \A p \in Path : size'[p] <= size[p],
         \/ Writing' \subseteq Writing /\ calls' = calls
         \/ calls' = calls + 1 /\ \E t : Writing' \subseteq Writing \cup {t}
  PROVE  SizesBounded'
<1> SUFFICES ASSUME NEW p \in Path PROVE size'[p] + Cardinality(Writing') <= calls'
  BY DEF SizesBounded
<1> DEFINE n == Cardinality(Writing)
           m == Cardinality(Writing')
<1>1. IsFiniteSet(Writing) BY ClientAssumption, FS_Subset DEF Writing
<1>2. n \in Nat BY <1>1, FS_CardinalityType
<1>3. size[p] \in Nat /\ size'[p] \in Nat /\ size'[p] <= size[p] /\ size[p] + n <= calls
  BY ClientAssumption DEF TypeOK, SizesBounded
<1>4. calls \in Nat BY ClientAssumption DEF TypeOK
<1>5. CASE Writing' \subseteq Writing /\ calls' = calls
  <2>1. m \in Nat /\ m <= n BY <1>1, <1>5, FS_Subset, FS_CardinalityType
  <2> HIDE DEF m, n
  <2>2. size'[p] + m <= calls' BY <2>1, <1>2, <1>3, <1>4, <1>5
  <2>3. QED BY <2>2 DEF m
<1>6. CASE calls' = calls + 1 /\ \E t : Writing' \subseteq Writing \cup {t}
  <2>1. PICK t : Writing' \subseteq Writing \cup {t} BY <1>6
  <2>2. /\ IsFiniteSet(Writing \cup {t})
        /\ Cardinality(Writing \cup {t}) = IF t \in Writing THEN n ELSE n + 1
    BY <1>1, FS_AddElement
  <2>3. m \in Nat /\ m <= Cardinality(Writing \cup {t})
    BY <2>1, <2>2, FS_Subset, FS_CardinalityType
  <2>4. m <= n + 1 BY <2>2, <2>3, <1>2
  <2> HIDE DEF m, n
  <2>5. size'[p] + m <= calls' BY <2>3, <2>4, <1>2, <1>3, <1>4, <1>6
  <2>6. QED BY <2>5 DEF m
<1>7. QED BY <1>5, <1>6

\* a step of one callback leaves what the others know as it was, as long as each value it
\* stores is known to those that dropped its key
LEMMA OtherCallbacks ==
  ASSUME DropsHold, AnswersFresh, NEW t \in Thread, UNCHANGED <<kind, size>>,
         \A u \in Thread \ {t} :
           /\ pc'[u] = pc[u] /\ op'[u] = op[u] /\ path'[u] = path[u] /\ sock'[u] = sock[u]
           /\ todo'[u] = todo[u] /\ asked'[u] = asked[u] /\ answer'[u] = answer[u]
           /\ outdated'[u] = outdated[u] /\ reput[u] \subseteq reput'[u]
           /\ pc[u] = "recv" => up'[sock[u]] = up[sock[u]] /\ down'[sock[u]] = down[sock[u]]
           /\ \A k \in Dropped(u) : cache'[k] \in {None, cache[k]} \/ k \in reput'[u],
         StillDropped(t)', Fresh(t)'
  PROVE  DropsHold' /\ AnswersFresh' /\ Writing' \subseteq Writing \cup {t}
<1> SUFFICES ASSUME NEW u \in Thread \ {t}
             PROVE  StillDropped(u)' /\ Fresh(u)' /\ (u \in Writing' => u \in Writing)
  BY DEF DropsHold, AnswersFresh, Writing
<1>1. /\ Asking(u)' => Asking(u)
      /\ Dropped(u)' = Dropped(u)
  BY DEF Asking, Dropped
<1>2. StillDropped(u)' BY <1>1 DEF StillDropped, DropsHold
<1>3. Fresh(u)' BY DEF Fresh, AnswersFresh
<1>4. u \in Writing' => u \in Writing BY DEF Writing
<1>5. QED BY <1>2, <1>3, <1>4

\* the elements of a sequence
LEMMA ToSetOf ==
  ASSUME NEW S, NEW s \in Seq(S)
  PROVE  ToSet(s) \subseteq S
BY DEF ToSet

LEMMA HeadOrTail ==
  ASSUME NEW S, NEW s \in Seq(S), s # <<>>
  PROVE  ToSet(s) \subseteq ToSet(Tail(s)) \cup {Head(s)}
<1> SUFFICES ASSUME NEW x \in ToSet(s), x # Head(s) PROVE x \in ToSet(Tail(s)) OBVIOUS
<1>1. PICK i \in 1..Len(s) : x = s[i] BY DEF ToSet
<1>2. i # 1 /\ Len(s) \in Nat /\ i - 1 \in 1..(Len(s) - 1) BY <1>1
<1>3. /\ Tail(s) \in Seq(S) /\ Len(Tail(s)) = Len(s) - 1
      /\ \A j \in 1..Len(Tail(s)) : Tail(s)[j] = s[j + 1]
  BY HeadTailProperties
<1>4. Tail(s)[i - 1] = x BY <1>1, <1>2, <1>3
<1>5. i - 1 \in DOMAIN Tail(s) BY <1>2, <1>3
<1>6. QED BY <1>4, <1>5 DEF ToSet

\* a callback that no step of its own has taken further has dropped nothing yet
LEMMA CallKnown ==
  ASSUME IInv, NEW t \in Thread, Call(t)
  PROVE  SizesBounded' /\ DropsHold' /\ AnswersFresh' /\ CacheInv'
<1> USE DEF IInv, HandsInv
<1>1. /\ UNCHANGED <<sock, asked, up, down, cache, kind, size, why, outdated, reput>>
      /\ calls' = calls + 1
      /\ todo' = [todo EXCEPT ![t] = Drops(op'[t], path'[t])]
      /\ pc'[t] \in {"send", "cache"}
      /\ \A u \in Thread \ {t} : /\ pc'[u] = pc[u] /\ op'[u] = op[u] /\ path'[u] = path[u]
                                 /\ todo'[u] = todo[u] /\ answer'[u] = answer[u]
  BY DEF Call, Goto, poolVars, netVars, diskVars, ghostVars, TypeOK
<1>2. StillDropped(t)'
  <2>1. todo'[t] = Drops(op'[t], path'[t]) BY <1>1 DEF TypeOK
  <2>2. Dropped(t)' = {} BY <2>1 DEF Dropped
  <2>3. QED BY <2>2 DEF StillDropped
<1>3. Fresh(t)' BY <1>1 DEF Fresh
<1>4. \A u \in Thread : \A k \in Dropped(u) : cache'[k] \in {None, cache[k]} BY <1>1
<1>5. DropsHold' /\ AnswersFresh' /\ Writing' \subseteq Writing \cup {t}
  BY <1>1, <1>2, <1>3, <1>4, OtherCallbacks
<1>6. SizesBounded'
  <2>1. size' \in [Path -> Nat] /\ \A p \in Path : size'[p] <= size[p]
    BY <1>1, ClientAssumption DEF TypeOK
  <2>2. QED BY <2>1, <1>1, <1>5, WritingBelow
<1>7. CacheInv' BY <1>1 DEF CacheInv
<1>8. QED BY <1>5, <1>6, <1>7

\* the other steps of a callback: no size changes, no call is made
LEMMA SizesKept ==
  ASSUME IInv, UNCHANGED <<size, calls>>, NEW t \in Thread, Writing' \subseteq Writing \cup {t},
         t \in Writing' => t \in Writing
  PROVE  SizesBounded'
<1>1. size' \in [Path -> Nat] /\ \A p \in Path : size'[p] <= size[p]
  BY ClientAssumption DEF IInv, HandsInv, TypeOK
<1>2. QED BY <1>1, WritingBelow DEF IInv, HandsInv

\* connectionPool_extractAvaibleMemcached
LEMMA TakeMemcachedKnown ==
  ASSUME IInv, NEW t \in Thread, TakeMemcached(t)
  PROVE  SizesBounded' /\ DropsHold' /\ AnswersFresh' /\ CacheInv'
<1> USE DEF IInv, HandsInv
<1>1. /\ UNCHANGED <<sock, op, path, todo, asked, answer, up, down, cache, kind, size, calls,
                    why, outdated, reput>>
      /\ pc[t] = "cache" /\ pc'[t] \in {"get", "drop"}
      /\ \A u \in Thread \ {t} : pc'[u] = pc[u]
  BY DEF TakeMemcached, At, Goto, callVars, netVars, diskVars, ghostVars, TypeOK
<1>2. StillDropped(t)' BY <1>1 DEF StillDropped, DropsHold, Asking, Dropped
<1>3. Fresh(t)' BY <1>1 DEF Fresh
<1>4. \A u \in Thread : \A k \in Dropped(u) : cache'[k] \in {None, cache[k]} BY <1>1
<1>5. DropsHold' /\ AnswersFresh' /\ Writing' \subseteq Writing \cup {t}
  BY <1>1, <1>2, <1>3, <1>4, OtherCallbacks
<1>6. t \notin Writing' BY <1>1 DEF Writing
<1>7. CacheInv' BY <1>1 DEF CacheInv
<1>8. QED BY <1>1, <1>5, <1>6, <1>7, SizesKept

\* memcached_delete: the key is gone, and the next one is still to come
LEMMA DropKeyKnown ==
  ASSUME IInv, NEW t \in Thread, DropKey(t)
  PROVE  SizesBounded' /\ DropsHold' /\ AnswersFresh' /\ CacheInv'
<1> USE DEF IInv, HandsInv
<1> DEFINE k == Head(todo[t])
<1>1. /\ UNCHANGED <<sock, op, path, asked, answer, up, down, kind, size, calls, outdated>>
      /\ pc[t] = "drop" /\ pc'[t] \in {"drop", "send"}
      /\ cache' = [cache EXCEPT ![k] = None]
      /\ why' = [why EXCEPT ![k] = "fresh"]
      /\ reput' = [reput EXCEPT ![t] = @ \ {k}]
      /\ todo' = [todo EXCEPT ![t] = Tail(@)]
      /\ \A u \in Thread \ {t} : pc'[u] = pc[u] /\ todo'[u] = todo[u] /\ reput'[u] = reput[u]
  BY DEF DropKey, At, Goto, callVars, netVars, diskVars, TypeOK
<1>2. \A l \in Key : cache'[l] = IF l = k THEN None ELSE cache[l]
  BY <1>1 DEF TypeOK
<1>3. op[t] \notin {"read", "write"} /\ op[t] \notin Lookups /\ todo[t] # <<>>
  BY <1>1 DEF FollowsControl, Follows
<1>4. \A u \in Thread : Dropped(u) \subseteq Key
  <2> SUFFICES ASSUME NEW u \in Thread PROVE Dropped(u) \subseteq Key OBVIOUS
  <2>1. Drops(op[u], path[u]) \in Seq(Key) BY DropsType DEF TypeOK
  <2>2. QED BY <2>1, ToSetOf DEF Dropped
<1>5. StillDropped(t)'
  <2>1. todo[t] \in Seq(Key) BY DEF TypeOK
  <2>2. ToSet(todo[t]) \subseteq ToSet(Tail(todo[t])) \cup {k} BY <2>1, <1>3, HeadOrTail
  <2>3. todo'[t] = Tail(todo[t]) /\ reput'[t] = reput[t] \ {k} BY <1>1 DEF TypeOK
  <2>4. Dropped(t)' \subseteq Dropped(t) \cup {k} BY <1>1, <2>2, <2>3 DEF Dropped
  <2>5. StillDropped(t) /\ Asking(t) BY <1>1 DEF DropsHold, Asking
  <2>6. ASSUME NEW l \in Dropped(t)' PROVE cache'[l] = None \/ l \in reput'[t]
    <3>1. l \in Key
      <4>1. Drops(op[t], path[t]) \in Seq(Key) BY DropsType DEF TypeOK
      <4>2. QED BY <4>1, <1>1, ToSetOf DEF Dropped
    <3>2. CASE l = k BY <3>1, <3>2, <1>2
    <3>3. CASE l # k BY <3>1, <3>3, <1>2, <2>3, <2>4, <2>5 DEF StillDropped
    <3>4. QED BY <3>2, <3>3
  <2>7. QED BY <2>6 DEF StillDropped
<1>6. Fresh(t)' BY <1>1 DEF Fresh
<1>7. \A u \in Thread : \A l \in Dropped(u) : cache'[l] \in {None, cache[l]} BY <1>2, <1>4
<1>8. DropsHold' /\ AnswersFresh' /\ Writing' \subseteq Writing \cup {t}
  BY <1>1, <1>5, <1>6, <1>7, OtherCallbacks
<1>9. t \notin Writing' BY <1>1, <1>3 DEF Writing
<1>10. CacheInv'
  <2>1. \A p \in Path : \A tag \in Tags : <<tag, p>> \in Key BY DEF Key
  <2>2. \A l \in Key : cache'[l] = None \/ (cache'[l] = cache[l] /\ why'[l] = why[l])
    BY <1>1, <1>2 DEF TypeOK
  <2>3. QED BY <2>1, <2>2, <1>1 DEF CacheInv, Tags
<1>11. QED BY <1>1, <1>8, <1>9, <1>10, SizesKept

\* what a callback that is back in the kernel leaves behind
LEMMA IdleKnown ==
  ASSUME NEW t \in Thread, pc'[t] = "idle"
  PROVE  StillDropped(t)' /\ Fresh(t)' /\ t \notin Writing'
BY DEF StillDropped, Asking, Fresh, Writing

\* memcached_getValue: a hit changes nothing, a miss has still to ask the server
LEMMA AskCacheKnown ==
  ASSUME IInv, NEW t \in Thread, AskCache(t)
  PROVE  SizesBounded' /\ DropsHold' /\ AnswersFresh' /\ CacheInv'
<1> USE DEF IInv, HandsInv
<1>1. /\ UNCHANGED <<sock, todo, answer, up, down, cache, kind, size, calls, why, reput>>
      /\ pc[t] = "get" /\ op[t] \in Lookups
  BY DEF AskCache, At, netVars, diskVars, FollowsControl, Follows
<1>2. /\ pc'[t] = "idle" \/ (pc'[t] = "send" /\ op'[t] = op[t])
      /\ \A u \in Thread \ {t} : /\ pc'[u] = pc[u] /\ op'[u] = op[u] /\ path'[u] = path[u]
                                 /\ asked'[u] = asked[u] /\ outdated'[u] = outdated[u]
  BY DEF AskCache, Return, Goto, callVars, TypeOK
<1>3. StillDropped(t)' /\ Fresh(t)' /\ t \notin Writing'
  <2>1. CASE pc'[t] = "idle" BY <2>1, IdleKnown
  <2>2. CASE pc'[t] = "send" /\ op'[t] = op[t]
    <3>1. op'[t] \in Lookups BY <2>2, <1>1
    <3>2. Drops(op'[t], path'[t]) = <<>> BY <3>1 DEF Drops, Lookups
    <3>3. Dropped(t)' = {} BY <3>2 DEF Dropped, ToSet
    <3>4. StillDropped(t)' BY <3>3 DEF StillDropped
    <3>5. Fresh(t)' /\ t \notin Writing' BY <2>2, <3>1 DEF Fresh, Writing, Lookups
    <3>6. QED BY <3>4, <3>5
  <2>3. QED BY <2>1, <2>2, <1>2
<1>4. \A u \in Thread : \A k \in Dropped(u) : cache'[k] \in {None, cache[k]} BY <1>1
<1>5. DropsHold' /\ AnswersFresh' /\ Writing' \subseteq Writing \cup {t}
  BY <1>1, <1>2, <1>3, <1>4, OtherCallbacks
<1>6. CacheInv' BY <1>1 DEF CacheInv
<1>7. QED BY <1>1, <1>3, <1>5, <1>6, SizesKept

\* extractAvaibleSocket and enviar_paquete: the callback is still asking
LEMMA SendKnown ==
  ASSUME IInv, NEW t \in Thread, Send(t)
  PROVE  SizesBounded' /\ DropsHold' /\ AnswersFresh' /\ CacheInv'
<1> USE DEF IInv, HandsInv
<1> DEFINE c == sock'[t]
<1>1. /\ UNCHANGED <<op, path, todo, asked, answer, down, cache, kind, size, calls, why, outdated,
                    reput>>
      /\ pc[t] = "send" /\ pc'[t] = "recv" /\ ExtractSocket(t)
      /\ up' = [up EXCEPT ![c] = Append(@, [op |-> op[t], path |-> path[t], by |-> t])]
      /\ \A u \in Thread \ {t} : pc'[u] = pc[u]
  BY DEF Send, At, Goto, callVars, diskVars, ghostVars, TypeOK
<1>2. /\ c \in Conn /\ \A u \in Thread \ {t} : sock'[u] = sock[u]
      /\ \A u \in Thread : sock[u] # c
  BY <1>1, SocketExtracted DEF FollowsControl, Follows
<1>3. \A u \in Thread \ {t} : up'[sock[u]] = up[sock[u]]
  BY <1>1, <1>2 DEF TypeOK
<1>4. down[c] = <<>>
  <2>1. down[c] # <<>> => \E u \in Thread : sock[u] = c BY <1>2 DEF WireInv, Wire
  <2>2. QED BY <2>1, <1>2
<1>5. StillDropped(t)' BY <1>1 DEF StillDropped, DropsHold, Asking, Dropped
<1>6. Fresh(t)' BY <1>1, <1>4 DEF Fresh
<1>7. \A u \in Thread : \A k \in Dropped(u) : cache'[k] \in {None, cache[k]} BY <1>1
<1>8. DropsHold' /\ AnswersFresh' /\ Writing' \subseteq Writing \cup {t}
  BY <1>1, <1>2, <1>3, <1>5, <1>6, <1>7, OtherCallbacks
<1>9. t \in Writing' => t \in Writing BY <1>1 DEF Writing
<1>10. CacheInv' BY <1>1 DEF CacheInv
<1>11. QED BY <1>1, <1>8, <1>9, <1>10, SizesKept

\* recibir: a lookup's answer that is not an error is OK, and still right if not overtaken
LEMMA ReceiveKnown ==
  ASSUME IInv, NEW t \in Thread, Receive(t)
  PROVE  SizesBounded' /\ DropsHold' /\ AnswersFresh' /\ CacheInv'
<1> USE DEF IInv, HandsInv
<1> DEFINE c == sock[t]
           a == Head(down[c])
<1>1. /\ UNCHANGED <<todo, up, cache, kind, size, calls, why>>
      /\ pc[t] = "recv" /\ down[c] # <<>>
      /\ answer' = [answer EXCEPT ![t] = a]
      /\ down' = [down EXCEPT ![c] = Tail(@)]
      /\ reput' = [reput EXCEPT ![t] = {}]
  BY DEF Receive, At, diskVars
<1>2. \/ pc'[t] = "idle" /\ GiveBack(t)
      \/ /\ pc'[t] = "put" /\ a.type \notin Handles(op[t]) /\ op[t] \in Lookups
         /\ UNCHANGED <<sock, op, path, asked, outdated>>
  BY DEF Receive, Return, Goto, poolVars, callVars, TypeOK
<1>3. \A u \in Thread \ {t} : /\ pc'[u] = pc[u] /\ op'[u] = op[u] /\ path'[u] = path[u]
                              /\ asked'[u] = asked[u] /\ outdated'[u] = outdated[u]
  BY DEF Receive, Return, Goto, poolVars, callVars, TypeOK
<1>4. \A u \in Thread \ {t} : sock'[u] = sock[u] BY <1>2, GivenBack
<1>5. /\ c \in Conn /\ c # NoConn /\ Explained(op[t], a.type)
      /\ a.type \in Errors \cup {"OK"}
  BY <1>1, AnswerTaken, AnswerInFlight, ClientAssumption
<1>6. \A u \in Thread \ {t} : sock[u] # c BY <1>5, OneHolder
<1>7. \A u \in Thread \ {t} : /\ down'[sock[u]] = down[sock[u]] /\ answer'[u] = answer[u]
                              /\ reput'[u] = reput[u]
  BY <1>1, <1>6 DEF TypeOK, Shapes
<1>8. StillDropped(t)' /\ Fresh(t)' /\ t \notin Writing'
  <2>1. CASE pc'[t] = "idle" BY <2>1, IdleKnown
  <2>2. CASE /\ pc'[t] = "put" /\ a.type \notin Handles(op[t]) /\ op[t] \in Lookups
             /\ UNCHANGED <<sock, op, path, asked, outdated>>
    <3>1. a.type = "OK" BY <2>2, <1>5 DEF Explained, Lookups
    <3>2. answer'[t] = a BY <1>1 DEF Shapes
    <3>3. ~outdated[t] => a.value = Right(asked[t], kind, size)
      BY <3>1, <2>2, <1>1 DEF AnswersFresh, Fresh
    <3>4. Fresh(t)' BY <3>2, <3>3, <2>2, <1>1 DEF Fresh
    <3>5. StillDropped(t)' /\ t \notin Writing' BY <2>2 DEF StillDropped, Asking, Writing
    <3>6. QED BY <3>4, <3>5
  <2>3. QED BY <2>1, <2>2, <1>2
<1>9. \A u \in Thread : \A k \in Dropped(u) : cache'[k] \in {None, cache[k]} BY <1>1
<1>10. DropsHold' /\ AnswersFresh' /\ Writing' \subseteq Writing \cup {t}
  BY <1>1, <1>3, <1>4, <1>7, <1>8, <1>9, OtherCallbacks
<1>11. CacheInv' BY <1>1 DEF CacheInv
<1>12. QED BY <1>1, <1>8, <1>10, <1>11, SizesKept

\* memcached_addOrReplace: the value is right unless a change has overtaken it, and those
\* that had dropped its key get to know
LEMMA PutKnown ==
  ASSUME IInv, NEW t \in Thread, Put(t)
  PROVE  SizesBounded' /\ DropsHold' /\ AnswersFresh' /\ CacheInv'
<1> USE DEF IInv, HandsInv
<1> DEFINE k == asked[t]
<1>1. /\ UNCHANGED <<todo, answer, up, down, kind, size, calls>>
      /\ pc[t] = "put" /\ pc'[t] = "idle" /\ GiveBack(t)
      /\ cache' = [cache EXCEPT ![k] = answer[t].value]
      /\ why' = [why EXCEPT ![k] = IF outdated[t] THEN "race"
                                   ELSE IF k[1] = "AC+" THEN "key" ELSE "fresh"]
      /\ reput' = [u \in Thread |-> IF k \in Dropped(u) THEN reput[u] \cup {k} ELSE reput[u]]
      /\ \A u \in Thread \ {t} : /\ pc'[u] = pc[u] /\ op'[u] = op[u] /\ path'[u] = path[u]
                                 /\ asked'[u] = asked[u] /\ outdated'[u] = outdated[u]
  BY DEF Put, At, Return, Goto, netVars, diskVars, TypeOK
<1>2. \A u \in Thread \ {t} : sock'[u] = sock[u] BY <1>1, GivenBack
<1>3. op[t] \in Lookups /\ k \in KeysOf(op[t], path[t]) /\ path[t] \in Path
  BY <1>1 DEF FollowsControl, Follows, TypeOK
<1>4. \E p \in Path : /\ k \in {<<"LC", p>>, <<"AC", p>>, <<"AC+", p>>}
                      /\ k = <<"AC+", p>> => p \in Unterminated
  BY <1>3 DEF KeysOf
<1>5. k \in Key BY <1>4 DEF Key, Tags
<1>6. \A l \in Key : cache'[l] = IF l = k THEN answer[t].value ELSE cache[l]
  BY <1>1 DEF TypeOK
<1>7. \A u \in Thread : \A l \in Dropped(u) : cache'[l] \in {None, cache[l]} \/ l \in reput'[u]
  <2> SUFFICES ASSUME NEW u \in Thread, NEW l \in Dropped(u)
               PROVE  cache'[l] \in {None, cache[l]} \/ l \in reput'[u]
    OBVIOUS
  <2>1. l \in Key
    <3>1. Drops(op[u], path[u]) \in Seq(Key) BY DropsType DEF TypeOK
    <3>2. QED BY <3>1, ToSetOf DEF Dropped
  <2>2. QED BY <2>1, <1>1, <1>6
<1>8. DropsHold' /\ AnswersFresh' /\ Writing' \subseteq Writing \cup {t}
  BY <1>1, <1>2, <1>7, IdleKnown, OtherCallbacks
<1>9. CacheInv'
  <2>1. ~outdated[t] => answer[t].value = Right(k, kind, size)
    BY <1>1, <1>3 DEF AnswersFresh, Fresh
  <2>2. PICK p \in Path : /\ k \in {<<"LC", p>>, <<"AC", p>>, <<"AC+", p>>}
                          /\ k = <<"AC+", p>> => p \in Unterminated
    BY <1>4
  <2>3. \A q \in Path : \A tag \in Tags : <<tag, q>> \in Key BY DEF Key
  <2>4. \A l \in Key \ {k} : cache'[l] = cache[l] /\ why'[l] = why[l]
    BY <1>1, <1>6 DEF TypeOK
  <2>5. /\ cache'[k] = answer[t].value
        /\ why'[k] = IF outdated[t] THEN "race" ELSE IF k[1] = "AC+" THEN "key" ELSE "fresh"
    BY <1>1, <1>5 DEF TypeOK
  <2>6. \A q \in Path : Right(<<"LC", q>>, kind, size) \in {None, Listing(kind, q)}
    BY DEF Right
  <2>7. ASSUME NEW q \in Path
        PROVE  cache'[<<"LC", q>>] \in {None, Listing(kind, q)} \/ why'[<<"LC", q>>] = "race"
    <3>1. CASE k = <<"LC", q>> BY <3>1, <2>1, <2>5, <2>6
    <3>2. CASE k # <<"LC", q>> BY <3>2, <2>3, <2>4 DEF CacheInv, Tags
    <3>3. QED BY <3>1, <3>2
  <2>8. ASSUME NEW q \in Path
        PROVE  \/ cache'[<<"AC", q>>] \in {None, Right(<<"AC", q>>, kind, size)}
               \/ why'[<<"AC", q>>] \in {"race", "write"}
    <3>1. CASE k = <<"AC", q>> BY <3>1, <2>1, <2>5
    <3>2. CASE k # <<"AC", q>> BY <3>2, <2>3, <2>4 DEF CacheInv, Tags
    <3>3. QED BY <3>1, <3>2
  <2>9. ASSUME NEW q \in Path, cache'[<<"AC+", q>>] # None PROVE q \in Unterminated
    <3>1. CASE k = <<"AC+", q>> BY <3>1, <2>2
    <3>2. CASE k # <<"AC+", q>> BY <3>2, <2>3, <2>4, <2>9 DEF CacheInv, Tags
    <3>3. QED BY <3>1, <3>2
  <2>10. kind' = kind /\ size' = size BY <1>1
  <2>11. QED BY <2>7, <2>8, <2>9, <2>10 DEF CacheInv
<1>10. QED BY <1>1, <1>8, <1>9, IdleKnown, SizesKept

\* evictions, deaths and stuttering: the cache knows less or the same
LEMMA OtherKnown ==
  ASSUME IInv, (\E c \in Conn : Die(c)) \/ (\E k \in Key : Evict(k)) \/ UNCHANGED vars
  PROVE  SizesBounded' /\ DropsHold' /\ AnswersFresh' /\ CacheInv'
<1> USE DEF IInv, HandsInv
<1>1. UNCHANGED <<sock, pc, op, path, todo, asked, answer, up, down, kind, size, calls, why, outdated,
                  reput>>
  BY DEF Die, Evict, vars, poolVars, callVars, netVars, diskVars, ghostVars
<1>2. \A k \in Key : cache'[k] \in {None, cache[k]}
  BY DEF Die, Evict, vars, TypeOK
<1>3. SizesBounded' BY <1>1 DEF SizesBounded, Writing
<1>4. DropsHold'
  <2> SUFFICES ASSUME NEW t \in Thread, Asking(t)', NEW k \in Dropped(t)'
               PROVE  cache'[k] = None \/ k \in reput'[t]
    BY DEF DropsHold, StillDropped
  <2>1. Asking(t) /\ k \in Dropped(t) BY <1>1 DEF Asking, Dropped
  <2>2. k \in Key
    <3>1. Drops(op[t], path[t]) \in Seq(Key) BY DropsType DEF TypeOK
    <3>2. QED BY <2>1, <3>1, ToSetOf DEF Dropped
  <2>3. QED BY <2>1, <2>2, <1>1, <1>2 DEF DropsHold, StillDropped
<1>5. AnswersFresh' BY <1>1 DEF AnswersFresh, Fresh
<1>6. CacheInv'
  <2>1. \A p \in Path : \A tag \in Tags : <<tag, p>> \in Key BY DEF Key
  <2>2. QED BY <2>1, <1>1, <1>2 DEF CacheInv, Tags
<1>7. QED BY <1>3, <1>4, <1>5, <1>6

-----------------------------------------------------------------------------
(* What the cache holds: the step of the server *)

\* the volume before and after a request: what it does to the listings and attributes
LEMMA ServedKeys ==
  ASSUME kind \in [Path -> Kinds], size \in [Path -> Nat],
         NEW r, r.op \in Ops, r.path \in Path, ~Kills(r), AnswerType(r) = "OK",
         NEW k2, k2 = KindAfter(r), NEW s2, s2 = SizeAfter(r), NEW p \in Path
  PROVE  /\ Listing(k2, p) # Listing(kind, p) =>
              /\ r.op \in ChangeOps /\ p = Father[r.path] /\ kind[p] # "none" /\ k2[p] # "none"
         /\ Right(<<"AC", p>>, k2, s2) # Right(<<"AC", p>>, kind, size) =>
              /\ p = r.path
              /\ \/ r.op \in {"unlink", "rmdir", "truncate", "write"}
                 \/ Right(<<"AC", p>>, kind, size) = None
         /\ r.op = "write" => k2 = kind
<1>1. /\ \A q \in Path \ {r.path} : k2[q] = kind[q] /\ s2[q] = size[q]
      /\ k2 \in [Path -> Kinds] /\ s2 \in [Path -> Nat]
  BY ServedTypes
<1>2. r.op \notin ChangeOps => k2 = kind BY DEF KindAfter, ChangeOps
<1>3. r.op \in Lookups \cup {"read"} => k2 = kind /\ s2 = size
  BY DEF KindAfter, SizeAfter, Lookups, ChangeOps
<1>4. r.op \in ChangeOps => r.path \notin Long BY DEF AnswerType
<1>5. r.op \in {"create", "mkdir"} => kind[r.path] = "none" BY DEF AnswerType, Kinds
<1>6. r.op \in ChangeOps => kind[Father[r.path]] # "none"
  BY <1>4, <1>5 DEF Kills, ChangeOps
<1>7. ASSUME Listing(k2, p) # Listing(kind, p)
      PROVE  /\ r.op \in ChangeOps /\ p = Father[r.path] /\ kind[p] # "none" /\ k2[p] # "none"
  <2>1. r.op \in ChangeOps BY <1>2, <1>7
  <2>2. PICK q \in Path \ {Root} : Father[q] = p /\ k2[q] # kind[q] BY <1>7 DEF Listing
  <2>3. q = r.path BY <2>2, <1>1
  <2>4. p # r.path BY <2>2, <2>3, ClientAssumption
  <2>5. QED BY <2>1, <2>2, <2>3, <2>4, <1>1, <1>6
<1>8. ASSUME Right(<<"AC", p>>, k2, s2) # Right(<<"AC", p>>, kind, size)
      PROVE  /\ p = r.path
             /\ \/ r.op \in {"unlink", "rmdir", "truncate", "write"}
                \/ Right(<<"AC", p>>, kind, size) = None
  <2>1. \A k, s : Right(<<"AC", p>>, k, s) =
                    IF k[p] = "none" THEN None ELSE [kind |-> k[p], size |-> s[p]]
    <3>1. <<"AC", p>>[1] = "AC" /\ <<"AC", p>>[2] = p /\ "AC" # "LC" OBVIOUS
    <3>2. QED BY <3>1 DEF Right
  <2>2. p = r.path BY <1>8, <2>1, <1>1
  <2>3. r.op \notin Lookups \cup {"read"} BY <1>8, <1>3
  <2>4. r.op \in {"create", "mkdir"} => Right(<<"AC", p>>, kind, size) = None
    BY <2>1, <2>2, <1>5
  <2>5. QED BY <2>2, <2>3, <2>4 DEF Ops, ChangeOps, Lookups
<1>9. r.op = "write" => k2 = kind BY DEF KindAfter
<1>10. QED BY <1>7, <1>8, <1>9

\* a write on its way is one of the writes that the bound counts
LEMMA WriteServed ==
  ASSUME IInv, NEW t \in Writing, Writing' \subseteq Writing \ {t}, calls' = calls,
         size' \in [Path -> Nat], \A p \in Path : size'[p] <= size[p] + 1
  PROVE  SizesBounded'
<1> SUFFICES ASSUME NEW p \in Path PROVE size'[p] + Cardinality(Writing') <= calls'
  BY DEF SizesBounded
<1> DEFINE n == Cardinality(Writing)
           m == Cardinality(Writing')
<1>1. IsFiniteSet(Writing) BY ClientAssumption, FS_Subset DEF Writing
<1>2. n \in Nat BY <1>1, FS_CardinalityType
<1>3. size[p] \in Nat /\ size'[p] \in Nat /\ size'[p] <= size[p] + 1 /\ size[p] + n <= calls
  BY ClientAssumption DEF IInv, HandsInv, TypeOK, SizesBounded
<1>4. IsFiniteSet(Writing \ {t}) /\ Cardinality(Writing \ {t}) = n - 1
  BY <1>1, FS_RemoveElement
<1>5. m \in Nat /\ m <= Cardinality(Writing \ {t}) BY <1>4, FS_Subset, FS_CardinalityType
<1>6. m <= n - 1 BY <1>4, <1>5
<1>7. calls \in Nat BY ClientAssumption DEF IInv, HandsInv, TypeOK
<1> HIDE DEF m, n
<1>8. size'[p] + m <= calls' BY <1>2, <1>3, <1>5, <1>6, <1>7
<1>9. QED BY <1>8 DEF m

\* what the server does to the sizes stays within the calls
LEMMA ServeSizes ==
  ASSUME IInv, NEW c \in Conn, Serve(c)
  PROVE  SizesBounded' /\ size' \in [Path -> 0..MaxCalls]
<1> USE DEF IInv, HandsInv
<1> DEFINE r == Head(up[c])
           type == AnswerType(r)
<1>1. /\ up[c] # <<>> /\ up' = [up EXCEPT ![c] = Tail(@)]
      /\ size' = IF type = "OK" THEN SizeAfter(r) ELSE size
      /\ UNCHANGED <<sock, pc, op, path, calls>>
  BY DEF Serve, poolVars, callVars
<1>2. /\ r.op \in Ops /\ r.path \in Path /\ r.by \in Thread
      /\ pc[r.by] = "recv" /\ sock[r.by] = c /\ op[r.by] = r.op
      /\ Tail(up[c]) = <<>>
  BY <1>1, RequestTaken
<1>3. kind \in [Path -> Kinds] /\ size \in [Path -> Nat] BY ClientAssumption DEF TypeOK
<1>4. /\ SizeAfter(r) \in [Path -> Nat]
      /\ \A p \in Path \ {r.path} : SizeAfter(r)[p] = size[p]
      /\ SizeAfter(r)[r.path] \in {0, size[r.path], size[r.path] + 1}
      /\ r.op # "write" => SizeAfter(r)[r.path] \in {0, size[r.path]}
  BY <1>2, <1>3, ServedTypes
<1>5. size' \in [Path -> Nat] BY <1>1, <1>3, <1>4
<1>6. up'[c] = <<>> /\ \A d \in Conn \ {c} : up'[d] = up[d] BY <1>1, <1>2 DEF TypeOK
<1>7. \A t \in Thread : pc[t] = "recv" /\ up'[sock[t]] # <<>> => sock[t] # c /\ up[sock[t]] # <<>>
  <2> SUFFICES ASSUME NEW t \in Thread, pc[t] = "recv", up'[sock[t]] # <<>>
               PROVE  sock[t] # c /\ up[sock[t]] # <<>>
    OBVIOUS
  <2>1. sock[t] \in Conn BY DEF TypeOK, FollowsControl, Follows
  <2>2. QED BY <2>1, <1>6
<1>8. Writing' \subseteq Writing /\ r.by \notin Writing'
  BY <1>1, <1>2, <1>6, <1>7 DEF Writing
<1>9. SizesBounded'
  <2>1. CASE r.op = "write"
    <3>1. r.by \in Writing BY <2>1, <1>1, <1>2 DEF Writing
    <3>2. \A p \in Path : size'[p] <= size[p] + 1 BY <1>1, <1>2, <1>3, <1>4
    <3>3. Writing' \subseteq Writing \ {r.by} BY <1>8
    <3>4. QED BY <3>1, <3>2, <3>3, <1>1, <1>5, WriteServed
  <2>2. CASE r.op # "write"
    <3>1. ASSUME NEW p \in Path PROVE size'[p] <= size[p]
      <4>1. size[p] \in Nat /\ SizeAfter(r)[p] \in {0, size[p]} BY <2>2, <1>2, <1>3, <1>4
      <4>2. size'[p] \in {0, size[p]} BY <4>1, <1>1
      <4>3. QED BY <4>1, <4>2
    <3>2. QED BY <3>1, <1>1, <1>5, <1>8, WritingBelow
  <2>3. QED BY <2>1, <2>2
<1>10. size' \in [Path -> 0..MaxCalls]
  <2> SUFFICES ASSUME NEW p \in Path PROVE size'[p] <= MaxCalls BY <1>5, ClientAssumption
  <2> DEFINE n == Cardinality(Writing')
  <2>1. size'[p] + n <= calls' BY <1>9 DEF SizesBounded
  <2>2. n \in Nat
    <3>1. IsFiniteSet(Writing') BY ClientAssumption, FS_Subset DEF Writing
    <3>2. QED BY <3>1, FS_CardinalityType
  <2>3. calls' \in Nat /\ calls' <= MaxCalls /\ size'[p] \in Nat /\ MaxCalls \in Nat
    BY <1>1, <1>5, ClientAssumption DEF TypeOK
  <2> HIDE DEF n
  <2>4. QED BY ONLY <2>1, <2>2, <2>3
<1>11. QED BY <1>9, <1>10

\* a worker of the server answers: every value that the change makes wrong has been dropped
\* before or is known to be back, but for the attributes after a write
LEMMA ServeKnown ==
  ASSUME IInv, NEW c \in Conn, Serve(c)
  PROVE  DropsHold' /\ AnswersFresh' /\ CacheInv'
<1> USE DEF IInv, HandsInv
<1> DEFINE r == Head(up[c])
           type == AnswerType(r)
           a == [type |-> type, value |-> IF type = "OK" THEN ValueFor(r) ELSE None]
           changed == {k \in Key : Right(k, kind', size') # Right(k, kind, size)}
<1>1. /\ up[c] # <<>> /\ ~Kills(r) /\ up' = [up EXCEPT ![c] = Tail(@)]
      /\ down' = [down EXCEPT ![c] = Append(@, a)]
      /\ kind' = IF type = "OK" THEN KindAfter(r) ELSE kind
      /\ size' = IF type = "OK" THEN SizeAfter(r) ELSE size
      /\ UNCHANGED <<sock, pc, op, path, todo, asked, answer, cache, reput>>
  BY DEF Serve, poolVars, callVars
<1>2. why' = [k \in Key |-> IF k \notin changed THEN why[k]
                            ELSE IF k[1] = "AC+" THEN "key"
                            ELSE IF r.op = "write" THEN "write"
                            ELSE IF k \in reput[r.by] THEN "race" ELSE why[k]]
  BY DEF Serve
<1>3. outdated' = [t \in Thread |-> outdated[t] \/ (Answered(t) /\ asked[t] \in changed)]
  BY DEF Serve
<1>4. /\ r.op \in Ops /\ r.path \in Path /\ r.by \in Thread
      /\ pc[r.by] = "recv" /\ sock[r.by] = c /\ op[r.by] = r.op /\ path[r.by] = r.path
      /\ \A t \in Thread \ {r.by} : sock[t] # c
      /\ down[c] = <<>> /\ Tail(up[c]) = <<>>
  BY <1>1, RequestTaken
<1>5. kind \in [Path -> Kinds] /\ size \in [Path -> Nat] BY ClientAssumption DEF TypeOK
<1>6. up'[c] = <<>> /\ \A d \in Conn \ {c} : up'[d] = up[d] BY <1>1, <1>4 DEF TypeOK
<1>7. down'[c] # <<>> /\ Head(down'[c]) = a /\ \A d \in Conn \ {c} : down'[d] = down[d]
  <2>1. a \in Answer
    <3>1. type \in Errors \cup {"OK"} BY <1>4, AnswersExplained
    <3>2. ValueFor(r) \in Value BY <1>4, <1>5, ServedTypes
    <3>3. QED BY <3>1, <3>2 DEF Answer, Value
  <2>2. down[c] \in Seq(Answer) BY DEF Shapes
  <2>3. down'[c] = Append(down[c], a) /\ \A d \in Conn \ {c} : down'[d] = down[d]
    BY <1>1 DEF Shapes
  <2>4. QED BY <2>1, <2>2, <2>3, <1>4, OneMessage
<1>8. \A t \in Thread : pc[t] = "recv" => sock[t] \in Conn
  BY DEF TypeOK, FollowsControl, Follows
<1>9. DropsHold'
  <2> SUFFICES ASSUME NEW t \in Thread, Asking(t)', NEW k \in Dropped(t)'
               PROVE  cache'[k] = None \/ k \in reput'[t]
    BY DEF DropsHold, StillDropped
  <2>1. k \in Dropped(t) BY <1>1 DEF Dropped
  <2>2. Asking(t) BY <1>1, <1>6, <1>8 DEF Asking
  <2>3. QED BY <2>1, <2>2, <1>1 DEF DropsHold, StillDropped
<1>10. AnswersFresh'
  <2> SUFFICES ASSUME NEW t \in Thread, op[t] \in Lookups, ~outdated'[t] PROVE Fresh(t)'
    BY <1>1 DEF AnswersFresh, Fresh
  <2>1. ~outdated[t] /\ (Answered(t) => asked[t] \notin changed) BY <1>3
  <2>2. pc[t] \in {"recv", "put"} => asked[t] \in KeysOf(op[t], path[t])
    BY DEF FollowsControl, Follows
  <2>3. KeysOf(op[t], path[t]) \subseteq Key
    <3>1. path[t] \in Path BY DEF TypeOK
    <3>2. QED BY <3>1 DEF KeysOf, Key, Tags
  <2>4. Answered(t) /\ pc[t] \in {"recv", "put"} =>
          Right(asked[t], kind', size') = Right(asked[t], kind, size)
    BY <2>1, <2>2, <2>3
  <2>5. CASE pc[t] = "put"
    <3>1. Answered(t) BY <2>5 DEF Answered
    <3>2. answer[t].value = Right(asked[t], kind, size) BY <2>1, <2>5 DEF AnswersFresh, Fresh
    <3>3. QED BY <3>1, <3>2, <2>4, <2>5, <1>1 DEF Fresh
  <2>6. CASE pc[t] = "recv" /\ t # r.by
    <3>1. down'[sock[t]] = down[sock[t]] BY <2>6, <1>4, <1>7, <1>8
    <3>2. CASE down[sock[t]] = <<>> BY <3>1, <3>2, <2>6, <1>1 DEF Fresh
    <3>3. CASE down[sock[t]] # <<>>
      <4>1. Answered(t) BY <2>6, <3>3 DEF Answered
      <4>2. Head(down[sock[t]]).type = "OK" =>
              Head(down[sock[t]]).value = Right(asked[t], kind, size)
        BY <2>1, <2>6, <3>3 DEF AnswersFresh, Fresh
      <4>3. QED BY <4>1, <4>2, <3>1, <2>4, <2>6, <1>1 DEF Fresh
    <3>4. QED BY <3>2, <3>3
  <2>7. CASE t = r.by
    <3>1. r.op \in Lookups /\ asked[t] \in KeysOf(r.op, r.path) BY <2>2, <2>7, <1>4
    <3>2. ASSUME type = "OK" PROVE ValueFor(r) = Right(asked[t], kind', size')
      <4>1. kind' = kind /\ size' = size
        BY <3>1, <3>2, <1>1 DEF KindAfter, SizeAfter, Lookups, ChangeOps
      <4>2. kind[r.path] # "none" BY <3>1, <3>2 DEF AnswerType, Lookups, ChangeOps
      <4>3. CASE r.op = "readdir"
        <5>1. asked[t] = <<"LC", r.path>> BY <4>3, <3>1 DEF KeysOf
        <5>2. asked[t][1] = "LC" /\ asked[t][2] = r.path BY <5>1
        <5>3. QED BY <5>2, <4>1, <4>2, <4>3 DEF ValueFor, Right
      <4>4. CASE r.op = "getattr"
        <5>1. asked[t] \in {<<"AC", r.path>>, <<"AC+", r.path>>} BY <4>4, <3>1 DEF KeysOf
        <5>2. asked[t][1] # "LC" /\ asked[t][2] = r.path BY <5>1
        <5>3. <<"AC", r.path>>[1] = "AC" /\ <<"AC", r.path>>[2] = r.path OBVIOUS
        <5>4. QED BY <5>2, <5>3, <4>1, <4>4 DEF ValueFor, Right
      <4>5. QED BY <4>3, <4>4, <3>1 DEF Lookups
    <3>3. QED BY <3>2, <2>7, <1>1, <1>4, <1>7 DEF Fresh
  <2>8. CASE pc[t] \notin {"recv", "put"} BY <2>8, <1>1 DEF Fresh
  <2>9. QED BY <2>5, <2>6, <2>7, <2>8
<1>11. CacheInv'
  <2>1. \A p \in Path : \A tag \in Tags : <<tag, p>> \in Key /\ <<tag, p>>[1] = tag
    BY DEF Key
  <2>2. ASSUME NEW k \in Key, k[1] # "AC+"
        PROVE  \/ why'[k] = why[k]
               \/ why'[k] = "write" /\ r.op = "write" /\ k \in changed
               \/ why'[k] = "race"
    BY <2>2, <1>2
  <2>3. todo[r.by] = <<>> /\ Asking(r.by)
    BY <1>1, <1>4 DEF FollowsControl, Follows, Asking
  <2>4. ASSUME NEW k \in Key, NEW i \in DOMAIN Drops(r.op, r.path), k = Drops(r.op, r.path)[i],
               k[1] # "AC+", k \in changed, r.op # "write"
        PROVE  cache[k] = None \/ why'[k] = "race"
    <3>1. k \in ToSet(Drops(r.op, r.path)) BY <2>4 DEF ToSet
    <3>2. ToSet(todo[r.by]) = {} BY <2>3 DEF ToSet
    <3>3. k \in Dropped(r.by) BY <3>1, <3>2, <1>4 DEF Dropped
    <3>4. cache[k] = None \/ k \in reput[r.by] BY <3>3, <2>3, <1>4 DEF DropsHold, StillDropped
    <3>5. QED BY <3>4, <2>4, <1>2
  <2>5. \A k : /\ r.op \in ChangeOps => Drops(r.op, r.path)[1] = <<"LC", Father[r.path]>>
                                        /\ 1 \in DOMAIN Drops(r.op, r.path)
               /\ r.op \in {"unlink", "rmdir"} => Drops(r.op, r.path)[2] = <<"AC", r.path>>
                                                  /\ 2 \in DOMAIN Drops(r.op, r.path)
               /\ r.op = "truncate" => Drops(r.op, r.path)[1] = <<"AC", r.path>>
                                       /\ 1 \in DOMAIN Drops(r.op, r.path)
    BY DEF Drops, ChangeOps
  <2>6. ASSUME NEW p \in Path
        PROVE  /\ Listing(kind', p) # Listing(kind, p) =>
                    /\ r.op \in ChangeOps /\ p = Father[r.path] /\ kind[p] # "none" /\ kind'[p] # "none"
               /\ Right(<<"AC", p>>, kind', size') # Right(<<"AC", p>>, kind, size) =>
                    /\ p = r.path
                    /\ \/ r.op \in {"unlink", "rmdir", "truncate", "write"}
                       \/ Right(<<"AC", p>>, kind, size) = None
               /\ r.op = "write" => kind' = kind
    <3>1. CASE type = "OK"
      <4>1. kind' = KindAfter(r) /\ size' = SizeAfter(r) BY <3>1, <1>1
      <4>2. QED BY <4>1, <3>1, <1>1, <1>4, <1>5, ServedKeys
    <3>2. CASE type # "OK" BY <3>2, <1>1
    <3>3. QED BY <3>1, <3>2
  <2>7. ASSUME NEW p \in Path
        PROVE  cache[<<"LC", p>>] \in {None, Listing(kind', p)} \/ why'[<<"LC", p>>] = "race"
    <3> DEFINE k == <<"LC", p>>
    <3>1. k \in Key /\ k[1] = "LC" /\ k[2] = p BY <2>1 DEF Tags
    <3>2. \A kk, s : Right(k, kk, s) = IF kk[p] = "none" THEN None ELSE Listing(kk, p)
      BY <3>1 DEF Right
    <3>3. CASE why[k] = "race"
      <4>1. k \in changed => r.op # "write" BY <3>2, <2>6
      <4>2. QED BY <4>1, <3>1, <3>3, <2>2
    <3>4. CASE cache[k] \in {None, Listing(kind, p)}
      <4>1. CASE Listing(kind', p) = Listing(kind, p) BY <3>4, <4>1
      <4>2. CASE Listing(kind', p) # Listing(kind, p)
        <5>1. /\ r.op \in ChangeOps /\ p = Father[r.path]
              /\ kind[p] # "none" /\ kind'[p] # "none"
          BY <4>2, <2>6
        <5>2. k \in changed BY <5>1, <4>2, <3>1, <3>2
        <5>3. r.op # "write" BY <5>1 DEF ChangeOps
        <5>4. QED BY <5>1, <5>2, <5>3, <3>1, <2>4, <2>5
      <4>3. QED BY <4>1, <4>2
    <3>5. QED BY <3>3, <3>4 DEF CacheInv
  <2>8. ASSUME NEW p \in Path
        PROVE  \/ cache[<<"AC", p>>] \in {None, Right(<<"AC", p>>, kind', size')}
               \/ why'[<<"AC", p>>] \in {"race", "write"}
    <3> DEFINE k == <<"AC", p>>
    <3>1. k \in Key /\ k[1] = "AC" BY <2>1 DEF Tags
    <3>2. CASE why[k] \in {"race", "write"} BY <3>1, <3>2, <2>2
    <3>3. CASE cache[k] \in {None, Right(k, kind, size)}
      <4>1. CASE k \notin changed BY <3>1, <3>3, <4>1
      <4>2. CASE k \in changed
        <5>1. /\ p = r.path
              /\ \/ r.op \in {"unlink", "rmdir", "truncate", "write"}
                 \/ Right(k, kind, size) = None
          BY <4>2, <2>6
        <5>2. CASE r.op = "write" BY <5>2, <4>2, <3>1, <1>2
        <5>3. CASE r.op \in {"unlink", "rmdir", "truncate"}
          <6>1. r.op # "write" BY <5>3
          <6>2. QED BY <5>1, <5>3, <6>1, <4>2, <3>1, <2>4, <2>5 DEF ChangeOps
        <5>4. CASE Right(k, kind, size) = None BY <5>4, <3>3
        <5>5. QED BY <5>1, <5>2, <5>3, <5>4
      <4>3. QED BY <4>1, <4>2
    <3>4. QED BY <3>2, <3>3 DEF CacheInv
  <2>9. cache' = cache BY <1>1
  <2>10. \A p \in Path : cache[<<"AC+", p>>] # None => p \in Unterminated BY DEF CacheInv
  <2>11. QED BY <2>7, <2>8, <2>9, <2>10 DEF CacheInv
<1>12. QED BY <1>9, <1>10, <1>11

-----------------------------------------------------------------------------
(* The theorems *)

\* connectionPool_init has opened every connection, and no callback runs
LEMMA InitInv == Init => IInv
<1> SUFFICES ASSUME Init PROVE IInv OBVIOUS
<1>1. /\ sockPool = [m \in Mount |-> SetToSeq(Connections[m])] /\ memcPool = sockPool
      /\ pc = [t \in Thread |-> "idle"] /\ op = [t \in Thread |-> "read"]
      /\ path = [t \in Thread |-> Root]
      /\ memc = [t \in Thread |-> NoConn] /\ sock = [t \in Thread |-> NoConn]
      /\ todo = [t \in Thread |-> <<>>] /\ asked = [t \in Thread |-> None]
      /\ answer = [t \in Thread |-> NoAnswer] /\ ret = [t \in Thread |-> "none"]
      /\ up = [c \in Conn |-> <<>>] /\ down = [c \in Conn |-> <<>>]
      /\ cache = [k \in Key |-> None] /\ kind = Tree /\ size = [p \in Path |-> 0]
      /\ serverUp = TRUE /\ calls = 0
      /\ why = [k \in Key |-> "fresh"] /\ outdated = [t \in Thread |-> FALSE]
      /\ reput = [t \in Thread |-> {}]
  BY DEF Init
<1>2. ASSUME NEW m \in Mount
      PROVE  /\ sockPool[m] \in Seq(Conn) /\ IsInjective(sockPool[m])
             /\ ToSet(sockPool[m]) = Connections[m]
  <2>1. Connections[m] \subseteq Conn /\ IsFiniteSet(Connections[m]) BY ClientAssumption
  <2>2. sockPool[m] = SetToSeq(Connections[m]) BY <1>1
  <2>3. sockPool[m] \in Seq(Connections[m]) BY <2>1, <2>2, InitialPool
  <2>4. QED BY <2>1, <2>2, <2>3, InitialPool
<1>3. TypeOK
  <2>1. sockPool \in [Mount -> Seq(Conn)] /\ memcPool \in [Mount -> Seq(Conn)] BY <1>1, <1>2
  <2>2. /\ pc \in [Thread -> Labels] /\ op \in [Thread -> Ops] /\ path \in [Thread -> Path]
        /\ memc \in [Thread -> Conn \cup {NoConn}] /\ sock \in [Thread -> Conn \cup {NoConn}]
        /\ asked \in [Thread -> Key \cup {None}]
        /\ ret \in [Thread -> Errors \cup {"none", "success"}]
    BY <1>1, ClientAssumption DEF Labels, Ops
  <2>3. todo \in [Thread -> Seq(Key)] /\ up \in [Conn -> Seq(Request)]
    BY <1>1, EmptySeq
  <2>4. \A t \in Thread : answer[t].type \in Errors \cup {"none", "OK"} BY <1>1 DEF NoAnswer
  <2>5. \A c \in Conn : \A i \in DOMAIN down[c] : down[c][i].type \in Errors \cup {"OK"}
    <3>1. \A c \in Conn : DOMAIN down[c] = {} BY <1>1
    <3>2. QED BY <3>1
  <2>6. /\ DOMAIN cache = Key /\ kind \in [Path -> Kinds] /\ size \in [Path -> 0..MaxCalls]
        /\ serverUp \in BOOLEAN /\ calls \in 0..MaxCalls
        /\ why \in [Key -> {"fresh", "race", "write", "key"}]
        /\ outdated \in [Thread -> BOOLEAN] /\ reput \in [Thread -> SUBSET Key]
    BY <1>1, ClientAssumption
  <2>7. QED BY <2>1, <2>2, <2>3, <2>4, <2>5, <2>6 DEF TypeOK
<1>4. Shapes
  <2>1. NoAnswer \in Answer BY DEF NoAnswer, Answer, Value
  <2>2. QED BY <2>1, <1>1, EmptySeq DEF Shapes
<1>5. FollowsControl BY <1>1 DEF FollowsControl, Follows, Lookups
<1>6. ConnectionsConserved
  <2>1. \A t \in Thread : Holds(t, sock) = {} /\ Holds(t, memc) = {} BY <1>1 DEF Holds
  <2>2. \A m \in Mount : Kept(m, sockPool, sock) BY <1>2, <2>1 DEF Kept
  <2>3. \A m \in Mount : Kept(m, memcPool, memc) BY <1>1, <2>2
  <2>4. QED BY <2>2, <2>3, <1>1 DEF ConnectionsConserved
<1>7. WireInv
  <2>1. \A c \in Conn : Len(up[c]) = 0 /\ Len(down[c]) = 0 BY <1>1, EmptySeq
  <2>2. QED BY <2>1, <1>1 DEF WireInv, Wire
<1>8. SizesBounded
  <2>1. Writing = {} BY <1>1 DEF Writing
  <2>2. QED BY <2>1, <1>1, FS_EmptySet DEF SizesBounded
<1>9. DropsHold /\ AnswersFresh
  BY <1>1 DEF DropsHold, StillDropped, Asking, AnswersFresh, Fresh
<1>10. CacheInv
  <2>1. \A p \in Path : \A tag \in Tags : <<tag, p>> \in Key BY DEF Key
  <2>2. QED BY <2>1, <1>1 DEF CacheInv, Tags
<1>11. QED BY <1>3, <1>4, <1>5, <1>6, <1>7, <1>8, <1>9, <1>10 DEF IInv, HandsInv

\* every step keeps the invariant
LEMMA NextInv == IInv /\ [Next]_vars => IInv'
<1> SUFFICES ASSUME IInv, [Next]_vars PROVE IInv' OBVIOUS
<1>1. HandsInv BY DEF IInv
<1>2. ASSUME NEW t \in Thread, Call(t) PROVE IInv' BY <1>1, <1>2, CallHands, CallKnown DEF IInv
<1>3. ASSUME NEW t \in Thread, TakeMemcached(t) PROVE IInv'
  BY <1>1, <1>3, TakeMemcachedHands, TakeMemcachedKnown DEF IInv
<1>4. ASSUME NEW t \in Thread, DropKey(t) PROVE IInv'
  BY <1>1, <1>4, DropKeyHands, DropKeyKnown DEF IInv
<1>5. ASSUME NEW t \in Thread, AskCache(t) PROVE IInv'
  BY <1>1, <1>5, AskCacheHands, AskCacheKnown DEF IInv
<1>6. ASSUME NEW t \in Thread, Send(t) PROVE IInv' BY <1>1, <1>6, SendHands, SendKnown DEF IInv
<1>7. ASSUME NEW t \in Thread, Receive(t) PROVE IInv'
  BY <1>1, <1>7, ReceiveHands, ReceiveKnown DEF IInv
<1>8. ASSUME NEW t \in Thread, Put(t) PROVE IInv' BY <1>1, <1>8, PutHands, PutKnown DEF IInv
<1>9. ASSUME NEW c \in Conn, Serve(c) PROVE IInv'
  <2>1. SizesBounded' /\ size' \in [Path -> 0..MaxCalls] BY <1>9, ServeSizes
  <2>2. HandsInv' BY <1>1, <1>9, <2>1, ServeHands
  <2>3. QED BY <1>9, <2>1, <2>2, ServeKnown DEF IInv
<1>10. ASSUME (\E c \in Conn : Die(c)) \/ (\E k \in Key : Evict(k)) \/ UNCHANGED vars PROVE IInv'
  BY <1>1, <1>10, OtherHands, OtherKnown DEF IInv
<1>11. QED BY <1>2, <1>3, <1>4, <1>5, <1>6, <1>7, <1>8, <1>9, <1>10 DEF Next, Step

\* The inductive invariant holds in every reachable state, however many mounts, threads,
\* connections, paths and calls there are.
THEOREM Invariance == Spec => []IInv
<1>1. Init => IInv BY InitInv
<1>2. IInv /\ [Next]_vars => IInv' BY NextInv
<1>3. QED BY <1>1, <1>2, PTL DEF Spec

\* Every variable of the client keeps its type.
THEOREM TypeCorrect == Spec => []TypeOK
<1>1. IInv => TypeOK BY DEF IInv, HandsInv
<1>2. QED BY <1>1, Invariance, PTL

\* connectionPool.c loses no connection and gives none to two callbacks, whatever a callback
\* of fuse.c returns: each is in its mount's pool or in the hands of one callback, and an
\* idle thread has none.
THEOREM NoConnectionIsLost == Spec => []ConnectionsConserved
<1>1. IInv => ConnectionsConserved BY DEF IInv, HandsInv
<1>2. QED BY <1>1, Invariance, PTL

\* A socket in the pool is quiet, and one in use carries one request or one answer of the
\* callback that holds it.
THEOREM SocketsCarryOneMessage == Spec => []OneOutstanding
<1>1. ASSUME IInv PROVE OneOutstanding
  <2> USE <1>1 DEF IInv, HandsInv
  <2>1. \A c \in Conn : Len(up[c]) + Len(down[c]) <= 1 BY DEF WireInv, Wire
  <2>2. \A c \in Conn : up[c] # <<>> => sock[Head(up[c]).by] = c BY DEF WireInv, Wire
  <2>3. ASSUME NEW m \in Mount, NEW c \in ToSet(sockPool[m]) PROVE up[c] = <<>> /\ down[c] = <<>>
    <3>1. sockPool[m] \in Seq(Conn) BY DEF TypeOK
    <3>2. c \in Conn /\ c # NoConn BY <3>1, ToSetOf, ClientAssumption
    <3>3. \A t \in Thread : sock[t] # c BY <3>2 DEF ConnectionsConserved, Kept, Holds
    <3>4. up[c] # <<>> => Head(up[c]).by \in Thread BY <3>2, RequestInFlight
    <3>5. QED BY <2>2, <3>2, <3>3, <3>4 DEF WireInv, Wire
  <2>4. QED BY <2>1, <2>2, <2>3 DEF OneOutstanding
<1>2. QED BY <1>1, Invariance, PTL

\* What a client finds in the cache is true of the volume, but for a value that another
\* callback stored while the change was on its way, the attributes after a write, and the
\* keys that nobody drops.
THEOREM CacheIsStaleOnlyAsKnown == Spec => []StaleOnlyAsKnown
<1>1. ASSUME IInv PROVE StaleOnlyAsKnown
  <2>1. CacheInv BY <1>1 DEF IInv
  <2>2. ASSUME NEW p \in Path, kind[p] = "dir", Stale(<<"LC", p>>) PROVE why[<<"LC", p>>] = "race"
    <3>1. <<"LC", p>>[1] = "LC" /\ <<"LC", p>>[2] = p OBVIOUS
    <3>2. Right(<<"LC", p>>, kind, size) = Listing(kind, p) BY <2>2, <3>1 DEF Right
    <3>3. QED BY <2>1, <2>2, <3>2 DEF CacheInv, Stale
  <2>3. \A p \in Path : Stale(<<"AC", p>>) => why[<<"AC", p>>] \in {"race", "write"}
    BY <2>1 DEF CacheInv, Stale
  <2>4. \A p \in Path : Stale(<<"AC+", p>>) => p \in Unterminated BY <2>1 DEF CacheInv, Stale
  <2>5. QED BY <2>2, <2>3, <2>4
        DEF StaleOnlyAsKnown, ListingsStaleByRace, AttributesStaleByRaceOrWrite
<1>2. QED BY <1>1, Invariance, PTL

\* A callback reports success exactly when the server said OK, but for the YA_EXISTE of a
\* mkdir, which create_dir of fuse.c does not know.
THEOREM NoRefusalIsLost == Spec => RefusalsAreReported
<1> DEFINE A == \A t \in Thread : pc[t] = "recv" /\ pc'[t] = "idle" =>
                  ((ret'[t] = "success") <=>
                     (answer'[t].type = "OK" \/ (op[t] = "mkdir" /\ answer'[t].type = "YA_EXISTE")))
<1>1. ASSUME IInv, [Next]_vars PROVE [A]_vars
  <2> SUFFICES ASSUME NEW t \in Thread, Next, pc[t] = "recv", pc'[t] = "idle"
               PROVE  (ret'[t] = "success") <=>
                        (answer'[t].type = "OK" \/ (op[t] = "mkdir" /\ answer'[t].type = "YA_EXISTE"))
    BY <1>1
  <2> USE <1>1 DEF IInv, HandsInv
  <2>1. Receive(t)
    <3>1. ASSUME NEW u \in Thread, Call(u) \/ Step(u) PROVE u = t
      <4>1. \A v \in Thread \ {u} : pc'[v] = pc[v]
        BY <3>1 DEF Call, Step, TakeMemcached, DropKey, AskCache, Send, Receive, Put, Return, Goto, TypeOK
      <4>2. QED BY <4>1
    <3>2. \A c \in Conn : ~Serve(c) /\ ~Die(c) BY DEF Serve, Die
    <3>3. \A k \in Key : ~Evict(k) BY DEF Evict
    <3>4. Call(t) \/ Step(t) BY <3>1, <3>2, <3>3 DEF Next
    <3>5. QED BY <3>4 DEF Call, Step, TakeMemcached, DropKey, AskCache, Send, Put, At
  <2> DEFINE a == Head(down[sock[t]])
  <2>2. down[sock[t]] # <<>> /\ answer'[t] = a BY <2>1 DEF Receive, Shapes
  <2>3. Explained(op[t], a.type) BY <2>2, AnswerTaken
  <2>4. \/ a.type \in Handles(op[t]) /\ ret'[t] = a.type
        \/ a.type \notin Handles(op[t]) /\ ret'[t] = "success"
    BY <2>1 DEF Receive, Return, Goto, TypeOK
  <2>5. /\ {"OK", "success"} \cap Handles(op[t]) = {}
        /\ op[t] = "mkdir" => "YA_EXISTE" \notin Handles(op[t])
    BY DEF Handles
  <2>6. QED BY <2>2, <2>3, <2>4, <2>5 DEF Explained
<1>2. QED BY <1>1, Invariance, PTL DEF Spec, RefusalsAreReported

=============================================================================
