------------------------ MODULE EventLoopStreams_proofs ------------------------
(***************************************************************************)
(* Proofs about the streams of EventLoop: whole messages stay whole, one   *)
(* party of each conversation has the word, nothing that was sent waits    *)
(* without an event, and the loop stops only through clients.              *)
(***************************************************************************)
EXTENDS EventLoop_proofs

-----------------------------------------------------------------------------
(* Sequences of messages *)

\* one more message at the end of whole messages
LEMMA FramedAppend ==
  ASSUME NEW s \in Seq(Unit), Framed(s), NEW c \in Client, NEW n \in 0..MaxRequests,
         NEW size \in Nat, size < Width
  PROVE  LET w == s \o Message(c, n, size) IN
         /\ Framed(w) /\ w \in Seq(Unit) /\ w # <<>>
         /\ s # <<>> => w[1] = s[1] /\ Ends(w, 1) < Len(w)
         /\ s = <<>> => w = Message(c, n, size)
<1> DEFINE m == Message(c, n, size)  w == s \o m  k == Len(s)
<1>1. /\ m \in Seq(Unit) /\ Len(m) = size + 2
      /\ m[1] = <<"h", Declared(size), c, n>> /\ m[2] = <<"l", 0, c, n>>
      /\ \A i \in 3..(size + 2) : m[i] = <<"p", 0, c, n>>
  BY MessageShape
<1>2. Declared(size) = size BY LoopAssumption DEF Declared
<1>3. k \in Nat /\ s \in Seq(Unit) BY LenProperties
<1> HIDE DEF m
<1>4. /\ w \in Seq(Unit) /\ Len(w) = k + Len(m)
      /\ \A i \in 1..(k + Len(m)) : w[i] = IF i <= k THEN s[i] ELSE m[i - k]
  BY <1>1, <1>3, ConcatProperties
<1> HIDE DEF w, k
<1>5. Len(w) = k + size + 2 /\ Len(w) \in Nat BY <1>1, <1>3, <1>4
<1>6. \A i \in 1..k : w[i] = s[i] BY <1>1, <1>3, <1>4
<1>7. \A i \in 1..(size + 2) : w[k + i] = m[i]
  <2> SUFFICES ASSUME NEW i \in 1..(size + 2) PROVE w[k + i] = m[i] OBVIOUS
  <2>1. k + i \in 1..(k + Len(m)) /\ ~(k + i <= k) /\ (k + i) - k = i BY <1>1, <1>3
  <2>2. QED BY <1>4, <2>1
<1>8. w[k + 1] = <<"h", size, c, n>> /\ w[k + 2] = <<"l", 0, c, n>> BY <1>1, <1>2, <1>7
<1>9. \A i \in (k + 3)..(k + size + 2) : w[i] = <<"p", 0, c, n>>
  <2> SUFFICES ASSUME NEW i \in (k + 3)..(k + size + 2) PROVE w[i] = <<"p", 0, c, n>> OBVIOUS
  <2>1. i - k \in 3..(size + 2) /\ i - k \in 1..(size + 2) /\ k + (i - k) = i BY <1>3
  <2>2. QED BY <1>1, <1>7, <2>1
<1>10. \A i \in 1..k : s[i] \in Unit /\ s[i][2] \in Nat
  <2>1. \A i \in 1..k : s[i] \in Unit BY <1>3, ElementOfSeq DEF k
  <2>2. QED BY <2>1, UnitFields, LoopAssumption
<1>11. \A i \in 1..k : s[i][1] = "h" =>
         /\ Ends(s, i) <= k /\ s[i + 1][1] = "l" /\ i + 1 <= Ends(s, i) /\ Ends(s, i) \in Nat
         /\ \A j \in (i + 2)..Ends(s, i) : s[j][1] = "p"
         /\ Ends(s, i) < k => s[Ends(s, i) + 1][1] = "h"
  <2>1. DOMAIN s = 1..k BY <1>3, LenProperties DEF k
  <2>2. QED BY <1>3, <1>10, <2>1 DEF Framed, Ends, k
<1>12. \A i \in 1..(k + size + 2) :
         i \in 1..k \/ i = k + 1 \/ i = k + 2 \/ i \in (k + 3)..(k + size + 2)
  BY <1>3
<1>13. ASSUME NEW i \in 1..Len(w), w[i][1] = "h"
       PROVE  /\ Ends(w, i) <= Len(w) /\ w[i + 1][1] = "l"
              /\ \A j \in (i + 2)..Ends(w, i) : w[j][1] = "p"
              /\ Ends(w, i) < Len(w) => w[Ends(w, i) + 1][1] = "h"
              /\ i \in 1..k => Ends(w, i) < Len(w)
  <2>1. CASE i \in 1..k
    <3>1. /\ s[i][1] = "h" /\ Ends(w, i) = Ends(s, i) /\ i \in Nat
      BY <1>6, <1>13, <2>1 DEF Ends
    <3>2. /\ Ends(s, i) <= k /\ s[i + 1][1] = "l" /\ i + 1 <= Ends(s, i) /\ Ends(s, i) \in Nat
          /\ \A j \in (i + 2)..Ends(s, i) : s[j][1] = "p"
          /\ Ends(s, i) < k => s[Ends(s, i) + 1][1] = "h"
      BY <1>11, <2>1, <3>1
    <3> DEFINE e == Ends(s, i)
    <3> HIDE DEF e
    <3>3. /\ e <= k /\ s[i + 1][1] = "l" /\ i + 1 <= e /\ e \in Nat /\ Ends(w, i) = e
          /\ \A j \in (i + 2)..e : s[j][1] = "p"
          /\ e < k => s[e + 1][1] = "h"
      BY <3>1, <3>2 DEF e
    <3>4. w[i + 1] = s[i + 1] /\ \A j \in (i + 2)..e : w[j] = s[j]
      BY <1>3, <1>6, <3>1, <3>3
    <3>5. w[e + 1][1] = "h"
      <4>1. CASE e < k BY <1>3, <1>6, <3>3, <4>1
      <4>2. CASE e = k BY <1>8, <4>2
      <4>3. QED BY <1>3, <3>3, <4>1, <4>2
    <3>6. e <= Len(w) /\ e < Len(w) BY <1>3, <1>5, <3>3
    <3>7. \A j \in (i + 2)..e : w[j][1] = "p" BY <3>3, <3>4
    <3>8. w[i + 1][1] = "l" BY <3>3, <3>4
    <3>9. QED BY <3>3, <3>5, <3>6, <3>7, <3>8
  <2>2. CASE i = k + 1
    <3>1. Ends(w, i) = Len(w) BY <1>3, <1>5, <1>8, <2>2 DEF Ends
    <3>2. i + 1 = k + 2 /\ i + 2 = k + 3 /\ i \notin 1..k BY <1>3, <2>2
    <3>3. QED BY <1>3, <1>5, <1>8, <1>9, <3>1, <3>2
  <2>3. CASE i = k + 2 BY <1>8, <1>13, <2>3
  <2>4. CASE i \in (k + 3)..(k + size + 2) BY <1>9, <1>13, <2>4
  <2>5. QED BY <1>5, <1>12, <2>1, <2>2, <2>3, <2>4
<1>14. w[1][1] = "h" /\ (s # <<>> => 1 \in 1..k /\ w[1] = s[1])
  <2>1. CASE k = 0
    <3>1. s = <<>> BY <1>3, <2>1, EmptySeq DEF k
    <3>2. QED BY <1>8, <2>1, <3>1
  <2>2. CASE k > 0
    <3>1. 1 \in 1..k /\ s # <<>> BY <1>3, <2>2, EmptySeq DEF k
    <3>2. QED BY <1>6, <3>1 DEF Framed
  <2>3. QED BY <1>3, <2>1, <2>2
<1>15. DOMAIN w = 1..Len(w) BY <1>4, LenProperties
<1>16. Framed(w) BY <1>13, <1>14, <1>15 DEF Framed
<1>17. w # <<>> BY <1>3, <1>5, EmptySeq
<1>18. s = <<>> => w = m BY <1>1, ConcatEmptySeq DEF w
<1>19. s # <<>> => Ends(w, 1) < Len(w)
  <2>1. 1 \in 1..Len(w) BY <1>3, <1>5
  <2>2. QED BY <1>13, <1>14, <2>1
<1>20. QED BY <1>4, <1>14, <1>16, <1>17, <1>18, <1>19 DEF w, m

\* what is left after the first message
LEMMA FramedRest ==
  ASSUME NEW b \in Seq(Unit), NEW u \in Seq(Unit), Framed(b \o u), Len(b) > 0,
         Len(b) = Ends(b, 1)
  PROVE  /\ Framed(u) /\ Ends(b \o u, 1) = Len(b)
         /\ u # <<>> <=> Len(b) < Len(b \o u)
<1> DEFINE s == b \o u  n == Len(b)  k == Len(u)
<1>1. /\ s \in Seq(Unit) /\ Len(s) = n + k /\ n \in Nat /\ k \in Nat
      /\ \A i \in 1..(n + k) : s[i] = IF i <= n THEN b[i] ELSE u[i - n]
  BY ConcatProperties, LenProperties
<1>2. u = <<>> <=> k = 0 BY <1>1, EmptySeq
<1>3. DOMAIN s = 1..(n + k) /\ DOMAIN u = 1..k BY <1>1, LenProperties
<1>4. Framed(s) /\ n > 0 /\ n = Ends(b, 1) OBVIOUS
<1>5. \A i \in 1..k : u[i] \in Unit /\ u[i][2] \in Nat
  <2>1. \A i \in 1..k : u[i] \in Unit BY ElementOfSeq
  <2>2. QED BY <2>1, UnitFields, LoopAssumption
<1> HIDE DEF s, n, k
<1>6. s[1] = b[1] /\ 1 \in 1..(n + k) BY <1>1, <1>4
<1>7. Ends(s, 1) = n BY <1>4, <1>6 DEF Ends
<1>8. s[1][1] = "h" BY <1>1, <1>3, <1>4, <1>6 DEF Framed
<1>9. \A i \in 1..k : u[i] = s[i + n] /\ i + n \in 1..(n + k) BY <1>1, <1>4
<1>10. k > 0 => u[1][1] = "h"
  <2>1. Ends(s, 1) < Len(s) => s[Ends(s, 1) + 1][1] = "h" BY <1>3, <1>4, <1>6, <1>8 DEF Framed
  <2>2. n < n + k => s[n + 1][1] = "h" BY <1>1, <1>7, <2>1
  <2>3. k > 0 => 1 \in 1..k /\ 1 + n = n + 1 /\ n < n + k BY <1>1
  <2>4. QED BY <1>9, <2>2, <2>3
<1>11. ASSUME NEW i \in 1..k, u[i][1] = "h"
       PROVE  /\ Ends(u, i) <= k /\ u[i + 1][1] = "l"
              /\ \A j \in (i + 2)..Ends(u, i) : u[j][1] = "p"
              /\ Ends(u, i) < k => u[Ends(u, i) + 1][1] = "h"
  <2> DEFINE e == Ends(u, i)
  <2>1. s[i + n] = u[i] /\ i + n \in 1..(n + k) /\ i \in Nat BY <1>9
  <2> DEFINE d == u[i][2]  h == i + n
  <2>2. e = i + 1 + d /\ d \in Nat /\ s[h][2] = d /\ s[h][1] = "h" /\ Ends(s, h) = h + 1 + s[h][2]
    BY <1>5, <1>11, <2>1 DEF Ends
  <2>3. h \in DOMAIN s /\ h = i + n BY <1>3, <2>1
  <2> HIDE DEF e, d, h
  <2>4. e \in Nat /\ e >= i + 1 /\ Ends(s, h) = e + n BY <1>1, <2>1, <2>2, <2>3
  <2>5. /\ Ends(s, h) <= Len(s) /\ s[h + 1][1] = "l"
        /\ \A j \in (h + 2)..Ends(s, h) : s[j][1] = "p"
        /\ Ends(s, h) < Len(s) => s[Ends(s, h) + 1][1] = "h"
    BY <1>4, <2>2, <2>3 DEF Framed
  <2>6. /\ e + n <= n + k /\ s[(i + n) + 1][1] = "l"
        /\ \A j \in ((i + n) + 2)..(e + n) : s[j][1] = "p"
        /\ e + n < n + k => s[(e + n) + 1][1] = "h"
    BY <1>1, <2>3, <2>4, <2>5
  <2>7. e <= k BY <1>1, <2>4, <2>6
  <2>8. u[i + 1][1] = "l"
    <3>1. i + 1 \in 1..k /\ (i + 1) + n = (i + n) + 1 BY <1>1, <2>1, <2>4, <2>7
    <3>2. QED BY <1>9, <2>6, <3>1
  <2>9. ASSUME NEW j \in (i + 2)..e PROVE u[j][1] = "p"
    <3>1. j \in 1..k /\ j + n \in ((i + n) + 2)..(e + n) BY <1>1, <2>1, <2>4, <2>7
    <3>2. QED BY <1>9, <2>6, <3>1
  <2>10. ASSUME e < k PROVE u[e + 1][1] = "h"
    <3>1. e + 1 \in 1..k /\ (e + 1) + n = (e + n) + 1 /\ e + n < n + k BY <1>1, <2>4, <2>10
    <3>2. QED BY <1>9, <2>6, <3>1
  <2>11. QED BY <2>7, <2>8, <2>9, <2>10 DEF e
<1>12. Framed(u) BY <1>1, <1>2, <1>3, <1>10, <1>11 DEF Framed, k
<1>13. u # <<>> <=> n < Len(s) BY <1>1, <1>2
<1>14. QED BY <1>7, <1>12, <1>13 DEF s, n

-----------------------------------------------------------------------------
(* Steps that move no stream *)

LEMMA StreamsAssociate ==
  ASSUME NEW s \in Seq(Unit), NEW t \in Seq(Unit), NEW u \in Seq(Unit)
  PROVE  (s \o t) \o u = s \o (t \o u)
BY ConcatAssociative

LEMMA StreamKept ==
  ASSUME NEW c \in Client, up'[c] = up[c],
         \/ cur' = cur /\ buf' = buf /\ (cur \in Fd => (file'[cur] = c <=> file[cur] = c))
         \/ buf = <<>> /\ buf' = <<>>
  PROVE  Stream(c)' = Stream(c)
BY DEF Stream, InHand, Peer

\* what a step keeps of a client: all that the loop will see of it, and what it has seen
SameClient(c) ==
  /\ Stream(c)' = Stream(c) /\ damage[c] \subseteq damage'[c] /\ (Alive(c)' <=> Alive(c))
  /\ Alive(c) => (Greeted(c)' <=> Greeted(c))
  /\ conn'[c] \in {"away", "syn"} <=> conn[c] \in {"away", "syn"}

\* the loop's steps that only move events and buffers
LEMMA LoopKeepsClients ==
  ASSUME LoopInv,
         \/ EpollWait \/ BatchDone \/ Accept \/ AcceptFails \/ CloseReset \/ BeginRead
         \/ ServerReads \/ Spin \/ ShakeRefused \/ HeaderUnread \/ HeaderRead,
         NEW c \in Client
  PROVE  SameClient(c)
<1> USE DEF LoopInv
<1>1. CASE EpollWait \/ BatchDone \/ AcceptFails \/ Spin \/ ShakeRefused \/ HeaderRead
  <2>1. UNCHANGED <<file, watched, cur, buf, up, conn, damage>>
    BY <1>1, EventFrame
    DEF EpollWait, BatchDone, AcceptFails, Spin, ShakeRefused, HeaderRead, CloseListener, epollVars
  <2>2. Stream(c)' = Stream(c) BY <2>1, StreamKept
  <2>3. QED BY <2>1, <2>2 DEF SameClient, Alive, Greeted
<1>2. CASE Accept
  <2>1. PICK f \in Fd, d \in Client :
           /\ file[f] = NoClient /\ f \notin watched /\ file' = [file EXCEPT ![f] = d]
           /\ pc = "next" /\ buf' = <<>>
           /\ UNCHANGED <<watched, up, conn, damage>>
    BY <1>2, AcceptTakes
  <2>2. buf = <<>> BY <2>1 DEF LoopFollows
  <2>3. Stream(c)' = Stream(c) BY <2>1, <2>2, StreamKept
  <2>4. \A g \in watched : file'[g] = file[g] BY <2>1 DEF TypeOK
  <2>5. QED BY <2>1, <2>3, <2>4 DEF SameClient, Alive, Greeted
<1>3. CASE BeginRead
  <2>1. UNCHANGED <<file, watched, up, conn, damage>> /\ buf = <<>> /\ buf' = <<>>
    BY <1>3, BeginReadTakes
  <2>2. Stream(c)' = Stream(c) BY <2>1, StreamKept
  <2>3. QED BY <2>1, <2>2 DEF SameClient, Alive, Greeted
<1>4. CASE CloseReset \/ HeaderUnread
  <2>1. PICK f \in Fd :
        /\ UNCHANGED <<buf, up, conn, damage>> /\ buf = <<>>
        /\ CloseFd(f) \/ UNCHANGED <<file, watched, ready>>
        /\ file[f] \in Client => ~Alive(file[f])
    <3>1. CASE CloseReset
      <4>1. PICK f \in batch \ {Listener} : file[f] \in reset /\ CloseFd(f)
        BY <3>1 DEF CloseReset
      <4>2. f \in Fd /\ ~Alive(file[f]) BY <4>1 DEF TypeOK, EventsAreOfWatched
      <4>3. QED
        BY <3>1, <4>1, <4>2, EventFrame DEF CloseReset, In, loopVars, LoopFollows
    <3>2. CASE HeaderUnread
      <4>1. pc = "header" /\ cur \in Fd /\ ~Alive(Peer)
        BY <3>2 DEF HeaderUnread, In, LoopFollows, Busy, ReadNothing, AtEnd
      <4>2. buf = <<>>
        <5>1. Len(buf) = 0 BY <3>2, <4>1 DEF HeaderUnread, ReadNothing, Used, In
        <5>2. QED BY <5>1, EmptySeq DEF TypeOK
      <4>3. QED BY <3>2, <4>1, <4>2, EventFrame DEF HeaderUnread, Peer
    <3>3. QED BY <1>4, <3>1, <3>2
  <2>2. Stream(c)' = Stream(c) BY <2>1, StreamKept
  <2>3. CASE UNCHANGED <<file, watched, ready>>
    BY <2>1, <2>2, <2>3 DEF SameClient, Alive, Greeted
  <2>4. CASE CloseFd(f)
    <3>1. \A g \in Fd \ {f} : file'[g] = file[g] BY <2>4 DEF CloseFd, TypeOK
    <3>2. watched' = watched \ {f} /\ watched \subseteq Fd BY <2>4 DEF CloseFd, TypeOK
    <3>3. Alive(c) => file[f] # c BY <2>1
    <3>4. Alive(c) => (Greeted(c)' <=> Greeted(c)) BY <3>1, <3>2, <3>3 DEF Greeted
    <3>5. QED BY <2>1, <2>2, <3>4 DEF SameClient, Alive
  <2>5. QED BY <2>1, <2>3, <2>4
<1>5. CASE ServerReads
  <2>1. Busy /\ UNCHANGED <<file, watched, cur, conn, damage>> BY <1>5, ServerReadsMoves
  <2>2. PICK n \in 1..Len(up[Peer]) :
              /\ buf' = buf \o SubSeq(up[Peer], 1, n)
              /\ up' = [up EXCEPT ![Peer] = SubSeq(up[Peer], n + 1, Len(up[Peer]))]
              /\ SubSeq(up[Peer], 1, n) \in Seq(Unit)
              /\ SubSeq(up[Peer], n + 1, Len(up[Peer])) \in Seq(Unit)
              /\ SubSeq(up[Peer], 1, n) \o SubSeq(up[Peer], n + 1, Len(up[Peer])) = up[Peer]
    BY <1>5, ServerReadsMoves
  <2>3. cur \in Fd /\ Peer \in Client /\ buf \in Seq(Unit) BY <2>1, PeerIsClient
  <2>4. Stream(c)' = Stream(c)
    <3> DEFINE a == SubSeq(up[Peer], 1, n)  b == SubSeq(up[Peer], n + 1, Len(up[Peer]))
    <3>1. a \in Seq(Unit) /\ b \in Seq(Unit) /\ a \o b = up[Peer] BY <2>2
    <3>2. buf' = buf \o a /\ up' = [up EXCEPT ![Peer] = b] BY <2>2
    <3> HIDE DEF a, b
    <3>3. (buf \o a) \o b = buf \o (a \o b) BY <2>3, <3>1, StreamsAssociate
    <3>4. CASE c = Peer
      <4>1. Stream(c) = buf \o (a \o b) BY <2>3, <3>1, <3>4 DEF Stream, InHand
      <4>2. up'[c] = b /\ file' = file BY <2>1, <2>3, <3>2, <3>4 DEF TypeOK
      <4>3. Stream(c)' = buf' \o up'[c] BY <2>1, <2>3, <3>4 DEF Stream, InHand, Peer
      <4>4. QED BY <3>2, <3>3, <4>1, <4>2, <4>3
    <3>5. CASE c # Peer
      <4>1. up'[c] = up[c] BY <3>2, <3>5 DEF TypeOK
      <4>2. InHand(c) = <<>> /\ InHand(c)' = <<>> BY <2>1, <3>5 DEF InHand, Peer
      <4>3. QED BY <4>1, <4>2 DEF Stream
    <3>6. QED BY <3>4, <3>5
  <2>5. QED BY <2>1, <2>4 DEF SameClient, Alive, Greeted
<1>6. QED BY <1>1, <1>2, <1>3, <1>4, <1>5

\* the clients' and the workers' steps that send the loop nothing
LEMMA OthersKeepClients ==
  ASSUME LoopInv,
         \/ \E d \in Client : \/ Connect(d) \/ ReadHeaderOf(d) \/ UseHeader(d)
                              \/ ReadBodyOf(d) \/ UseBody(d)
         \/ \E j \in jobs : Answer(j),
         NEW c \in Client
  PROVE  SameClient(c)
<1> USE DEF LoopInv
<1>1. ASSUME NEW d \in Client, Connect(d) PROVE SameClient(c)
  <2>1. /\ UNCHANGED <<up, file, watched, cur, buf, damage>>
        /\ conn' = [conn EXCEPT ![d] = "syn"] /\ conn[d] = "away"
    BY <1>1 DEF Connect, streamVars, loopVars
  <2>2. Stream(c)' = Stream(c) BY <2>1, StreamKept
  <2>3. QED BY <2>1, <2>2 DEF SameClient, Alive, Greeted, TypeOK
<1>2. ASSUME NEW d \in Client, ReadHeaderOf(d) \/ ReadBodyOf(d) PROVE SameClient(c)
  <2>1. /\ UNCHANGED <<up, file, watched, cur, buf, conn>>
        /\ \E s \in {damage[d], damage[d] \cup {"recv"}} : damage' = [damage EXCEPT ![d] = s]
    BY <1>2 DEF ReadHeaderOf, ReadBodyOf, ClientReads, epollVars, loopVars
  <2>2. Stream(c)' = Stream(c) BY <2>1, StreamKept
  <2>3. damage[c] \subseteq damage'[c] BY <2>1 DEF TypeOK
  <2>4. QED BY <2>1, <2>2, <2>3 DEF SameClient, Alive, Greeted
<1>3. ASSUME NEW d \in Client, UseHeader(d) \/ UseBody(d) PROVE SameClient(c)
  <2>1. /\ UNCHANGED <<up, file, watched, cur, buf, damage>>
        /\ conn[d] \in {"shaking", "asked", "body"}
        /\ \E s \in {"lost", "idle", "body"} : conn' = [conn EXCEPT ![d] = s]
    BY <1>3 DEF UseHeader, UseBody, streamVars, epollVars, loopVars, ghostVars
  <2>2. Stream(c)' = Stream(c) BY <2>1, StreamKept
  <2>3. QED BY <2>1, <2>2 DEF SameClient, Alive, Greeted, TypeOK
<1>4. ASSUME NEW j \in jobs, Answer(j) PROVE SameClient(c)
  <2>1. UNCHANGED <<up, file, watched, cur, buf, conn>>
    BY <1>4 DEF Answer, clientVars, epollVars
  <2>2. damage[c] \subseteq damage'[c]
    <3>1. j.fd \in Fd BY DEF TypeOK
    <3> DEFINE d == file[j.fd]
    <3>2. \E size \in AnswerSizes :
            IF d = NoClient THEN damage' = damage
            ELSE damage' = [damage EXCEPT ![d] = IF Alive(d) /\ size >= Width THEN @ \cup {"wrap"} ELSE @]
      BY <1>4, <3>1 DEF Answer, AnswerFd
    <3> HIDE DEF d
    <3>3. damage' = damage \/ \E s : damage' = [damage EXCEPT ![d] = s] /\ damage[d] \subseteq s
      BY <3>2
    <3>4. QED BY <3>3 DEF TypeOK
  <2>3. Stream(c)' = Stream(c) BY <2>1, StreamKept
  <2>4. QED BY <2>1, <2>2, <2>3 DEF SameClient, Alive, Greeted
<1>5. QED BY <1>1, <1>2, <1>3, <1>4

\* what a client sends when it says something whole
LEMMA Says ==
  ASSUME LoopInv, NEW c \in Client, SendShake(c) \/ Ask(c), "send" \notin damage'[c]
  PROVE  \E n \in 0..MaxRequests, size \in Nat :
           /\ size < Width /\ Stream(c)' = Stream(c) \o Message(c, n, size)
           /\ up'[c] = up[c] \o Message(c, n, size)
           /\ Stream(c) \in Seq(Unit) /\ up[c] \in Seq(Unit) /\ Message(c, n, size) \in Seq(Unit)
           /\ SendShake(c) => n = 0 /\ size = 0
           /\ Ask(c) => n = turn'[c]
<1> USE DEF LoopInv
<1>1. \E n \in 0..MaxRequests, size \in Nat :
           /\ size < Width /\ up'[c] = up[c] \o Message(c, n, size)
           /\ SendShake(c) => n = 0 /\ size = 0
           /\ Ask(c) => n = turn'[c]
  <2>1. CASE SendShake(c)
    <3>1. up'[c] = up[c] \o Message(c, 0, 0) BY <2>1 DEF SendShake, Handshake, TypeOK
    <3>2. ~Ask(c) BY <2>1 DEF SendShake, Ask, Askers
    <3>3. 0 \in 0..MaxRequests /\ 0 < Width BY LoopAssumption
    <3>4. QED BY <3>1, <3>2, <3>3
  <2>2. CASE Ask(c)
    <3>1. PICK size \in RequestSizes :
            LET m == Message(c, sent + 1, size) IN
            \/ up' = [up EXCEPT ![c] = @ \o m]
            \/ \E part \in 1..(Len(m) - 1) : damage' = [damage EXCEPT ![c] = @ \cup {"send"}]
      BY <2>2 DEF Ask
    <3>2. \A s : damage' # [damage EXCEPT ![c] = s \cup {"send"}] BY DEF TypeOK
    <3>3. up' = [up EXCEPT ![c] = up[c] \o Message(c, sent + 1, size)] BY <3>1, <3>2
    <3>4. sent + 1 \in 0..MaxRequests /\ turn'[c] = sent + 1
      BY <2>2, LoopAssumption DEF Ask, TypeOK
    <3>5. size \in Nat /\ size < Width BY LoopAssumption
    <3>6. up'[c] = up[c] \o Message(c, sent + 1, size) BY <3>3 DEF TypeOK
    <3>7. ~SendShake(c) BY <2>2 DEF SendShake, Ask, Askers
    <3>8. QED BY <3>4, <3>5, <3>6, <3>7
  <2>3. QED BY <2>1, <2>2
<1>2. PICK n \in 0..MaxRequests, size \in Nat :
           /\ size < Width /\ up'[c] = up[c] \o Message(c, n, size)
           /\ SendShake(c) => n = 0 /\ size = 0
           /\ Ask(c) => n = turn'[c]
  BY <1>1
<1> DEFINE m == Message(c, n, size)
<1>3. m \in Seq(Unit) BY <1>2, MessageShape
<1>4. InHand(c) \in Seq(Unit) /\ up[c] \in Seq(Unit) BY EmptySeq DEF InHand, TypeOK
<1>5. Stream(c) \in Seq(Unit) BY <1>4, StreamGrows DEF Stream
<1>6. InHand(c)' = InHand(c) BY DEF SendShake, Ask, loopVars, InHand, Peer
<1>7. Stream(c)' = Stream(c) \o m
  <2>1. up'[c] = up[c] \o m BY <1>2
  <2> HIDE DEF m
  <2>2. InHand(c) \o (up[c] \o m) = (InHand(c) \o up[c]) \o m
    BY <1>3, <1>4, StreamsAssociate
  <2>3. QED BY <1>6, <2>1, <2>2 DEF Stream
<1>8. QED BY <1>2, <1>3, <1>4, <1>5, <1>7

\* ... and of anybody else it keeps the stream
LEMMA SaysForItself ==
  ASSUME LoopInv, NEW c \in Client, SendShake(c) \/ Ask(c) \/ Die(c)
  PROVE  /\ UNCHANGED <<file, watched, batch, cur, buf, pc, listening>> /\ Serving
         /\ conn[c] \notin {"away", "dead"} /\ conn'[c] # "away" /\ conn'[c] # "syn"
         /\ SendShake(c) \/ Ask(c) => Alive(c)'
         /\ \A f \in watched : file[f] = c => f \in ready'
         /\ \A f \in watched : file[f] # c => (f \in ready' <=> f \in ready)
         /\ \A d \in Client \ {c} : SameClient(d) /\ up'[d] = up[d]
<1> USE DEF LoopInv, TypeOK
<1>1. /\ UNCHANGED <<file, watched, batch, cur, buf, pc, listening>> /\ Serving
      /\ conn[c] \notin {"away", "dead"} /\ ready' = ready \cup FdsOf(c)
      /\ \E s \in {"shaking", "asked", "dead"} : conn' = [conn EXCEPT ![c] = s]
      /\ SendShake(c) \/ Ask(c) =>
           \E s \in {"shaking", "asked"} : conn' = [conn EXCEPT ![c] = s]
  BY DEF SendShake, Ask, Die, Askers, Notify, loopVars
<1>2. \E s : up' = [up EXCEPT ![c] = s] BY DEF SendShake, Ask, Die
<1>3. damage' = damage \/ \E s : damage' = [damage EXCEPT ![c] = s]
  BY DEF SendShake, Ask, Die, ghostVars
<1>4. ASSUME NEW d \in Client \ {c} PROVE SameClient(d) /\ up'[d] = up[d]
  <2>1. up'[d] = up[d] /\ damage'[d] = damage[d] /\ conn'[d] = conn[d] BY <1>1, <1>2, <1>3
  <2>2. Stream(d)' = Stream(d) BY <1>1, <2>1, StreamKept
  <2>3. QED BY <1>1, <2>1, <2>2 DEF SameClient, Alive, Greeted
<1>5. conn'[c] \notin {"away", "syn"} /\ (SendShake(c) \/ Ask(c) => Alive(c)') BY <1>1 DEF Alive
<1>6. QED BY <1>1, <1>4, <1>5 DEF FdsOf

-----------------------------------------------------------------------------
(* Whole messages stay whole *)

LEMMA FramedKept ==
  ASSUME NEW c \in Client, Whole(c) => StreamFramed(c), SameClient(c)
  PROVE  (Whole(c) => StreamFramed(c))'
<1> SUFFICES ASSUME Whole(c)' PROVE StreamFramed(c)' OBVIOUS
<1>1. Whole(c) /\ Alive(c) /\ StreamFramed(c) BY DEF Whole, SameClient
<1>2. Stream(c)' = Stream(c) /\ (Greeted(c)' <=> Greeted(c)) BY <1>1 DEF SameClient
<1>3. conn'[c] \in {"away", "syn"} <=> conn[c] \in {"away", "syn"} BY DEF SameClient
<1>4. Framed(Stream(c))' BY <1>1, <1>2 DEF StreamFramed, Framed, Ends
<1>5. QED BY <1>1, <1>2, <1>3, <1>4 DEF StreamFramed

EventsFit(f) == Alive(file[f]) /\ damage[file[f]] = {} => EventsHaveMessages(f)

LEMMA EventsKept ==
  ASSUME NEW f \in watched, EventsFit(f), file'[f] = file[f], file[f] \in Client,
         SameClient(file[f]),
         f \in ready' \/ Reports(f)' => f \in ready \/ Reports(f),
         f \in ready' /\ Reports(f)' => f \in ready /\ Reports(f)
  PROVE  EventsFit(f)'
<1> DEFINE c == file[f]
<1> SUFFICES ASSUME Alive(c)', damage'[c] = {} PROVE EventsHaveMessages(f)'
  BY DEF EventsFit, Alive
<1>1. Alive(c) /\ damage[c] = {} /\ Stream(c)' = Stream(c) BY DEF SameClient
<1>2. EventsHaveMessages(f) BY <1>1 DEF EventsFit
<1>3. Stream(file[f])' = Stream(c) BY <1>1 DEF Stream, InHand, Peer
<1> HIDE DEF c
<1>4. QED BY <1>2, <1>3 DEF EventsHaveMessages, Ends, c

\* the quiet steps
QuietLoop ==
  EpollWait \/ BatchDone \/ Accept \/ AcceptFails \/ CloseReset \/ BeginRead
    \/ ServerReads \/ Spin \/ ShakeRefused \/ HeaderUnread \/ HeaderRead
QuietOthers ==
  \/ \E d \in Client : Connect(d) \/ ReadHeaderOf(d) \/ UseHeader(d) \/ ReadBodyOf(d) \/ UseBody(d)
  \/ \E j \in jobs : Answer(j)

\* ... keep what is watched, and take events from the ready list to the batch and the hand
LEMMA LoopMovesEvents ==
  ASSUME LoopInv, QuietLoop, NEW f \in watched'
  PROVE  /\ f \in watched /\ file'[f] = file[f]
         /\ f \in ready' \/ Reports(f)' => f \in ready \/ Reports(f)
         /\ f \in ready' /\ Reports(f)' => f \in ready /\ Reports(f)
<1> USE DEF LoopInv
<1>1. CASE EpollWait
  <2>1. UNCHANGED <<file, watched>> /\ ready' = {} /\ pc' = "next" /\ batch' \subseteq ready
    BY <1>1 DEF EpollWait
  <2>2. QED BY <2>1 DEF Reports
<1>2. CASE BatchDone
  <2>1. UNCHANGED <<file, watched, ready, batch>> /\ pc' = "wait"
    BY <1>2 DEF BatchDone, epollVars
  <2>2. QED BY <2>1 DEF Reports
<1>3. CASE AcceptFails \/ ShakeRefused
  <2>1. UNCHANGED <<file, watched, cur>> /\ ready' \subseteq ready /\ batch' \subseteq batch
        /\ pc' \in {"wait", "crashed"}
    BY <1>3 DEF AcceptFails, ShakeRefused, CloseListener
  <2>2. QED BY <2>1 DEF Reports
<1>4. CASE Spin \/ HeaderRead
  <2>1. UNCHANGED <<file, watched, cur, ready, batch>>
        /\ (pc' \in {"header", "payload"} => pc = "header")
    BY <1>4 DEF Spin, HeaderRead, epollVars, In
  <2>2. QED BY <2>1 DEF Reports
<1>5. CASE ServerReads
  <2>1. UNCHANGED <<file, watched, cur, ready, batch, pc>> BY <1>5, ServerReadsMoves
  <2>2. QED BY <2>1 DEF Reports
<1>6. CASE Accept
  <2>1. PICK g \in Fd, d \in Client :
           /\ g \notin watched /\ file' = [file EXCEPT ![g] = d] /\ pc' = "shake"
           /\ batch' = batch \ {Listener} /\ UNCHANGED <<watched, ready>>
    BY <1>6, AcceptTakes
  <2>2. f \in Fd /\ f # g BY <2>1 DEF TypeOK
  <2>3. QED BY <2>1, <2>2 DEF Reports, TypeOK
<1>7. CASE BeginRead
  <2>1. PICK g \in watched :
           /\ g \in batch /\ batch' = batch \ {g} /\ cur' = g /\ pc = "next" /\ pc' = "header"
           /\ UNCHANGED <<file, watched, ready>>
    BY <1>7, BeginReadTakes
  <2>2. QED BY <2>1 DEF Reports
<1>8. CASE CloseReset \/ HeaderUnread
  <2>1. /\ batch' \subseteq batch /\ pc' = "next"
        /\ (\E g : CloseFd(g)) \/ UNCHANGED <<file, watched, ready>>
    BY <1>8 DEF CloseReset, HeaderUnread, loopVars, In
  <2>2. CASE UNCHANGED <<file, watched, ready>> BY <2>1, <2>2 DEF Reports
  <2>3. CASE \E g : CloseFd(g)
    <3>1. f \in watched /\ ready' \subseteq ready /\ file'[f] = file[f]
      BY <2>3 DEF CloseFd, TypeOK
    <3>2. QED BY <2>1, <3>1 DEF Reports
  <2>4. QED BY <2>1, <2>2, <2>3
<1>9. QED BY <1>1, <1>2, <1>3, <1>4, <1>5, <1>6, <1>7, <1>8 DEF QuietLoop

LEMMA OthersMoveEvents ==
  ASSUME LoopInv, QuietOthers
  PROVE  /\ UNCHANGED <<watched, file, batch, cur, listening>>
         /\ ready' = ready \/ ready' = ready \cup {Listener}
         /\ pc' = pc \/ pc' = "crashed"
<1>1. ASSUME NEW d \in Client, Connect(d)
      PROVE  UNCHANGED <<watched, file, batch, cur, pc, listening>> /\ ready' = ready \cup {Listener}
  BY <1>1 DEF Connect, loopVars
<1>2. ASSUME NEW d \in Client, ReadHeaderOf(d) \/ UseHeader(d) \/ ReadBodyOf(d) \/ UseBody(d)
      PROVE  UNCHANGED <<watched, file, batch, cur, pc, ready, listening>>
  BY <1>2 DEF ReadHeaderOf, UseHeader, ReadBodyOf, UseBody, epollVars, loopVars
<1>3. ASSUME NEW j \in jobs, Answer(j)
      PROVE  UNCHANGED <<watched, file, batch, cur, ready, listening>> /\ (pc' = pc \/ pc' = "crashed")
  <2>1. j.fd \in Fd BY DEF LoopInv, TypeOK
  <2>2. pc' = pc \/ pc' = "crashed" BY <1>3, <2>1 DEF Answer, AnswerFd, Deliver
  <2>3. QED BY <1>3, <2>2 DEF Answer, epollVars
<1>4. QED BY <1>1, <1>2, <1>3 DEF QuietOthers

LEMMA QuietFraming ==
  ASSUME LoopInv, FramingInv, QuietLoop \/ QuietOthers PROVE FramingInv'
<1>1. \A c \in Client : SameClient(c)
  BY LoopKeepsClients, OthersKeepClients DEF QuietLoop, QuietOthers
<1>2. \A c \in Client : (Whole(c) => StreamFramed(c))' BY <1>1, FramedKept DEF FramingInv
<1>3. ASSUME NEW f \in watched' PROVE EventsFit(f)'
  <2>1. /\ f \in watched /\ file'[f] = file[f]
        /\ f \in ready' \/ Reports(f)' => f \in ready \/ Reports(f)
        /\ f \in ready' /\ Reports(f)' => f \in ready /\ Reports(f)
    <3>1. CASE QuietLoop BY <3>1, LoopMovesEvents
    <3>2. CASE QuietOthers
      <4>1. f \in watched BY <3>2, OthersMoveEvents
      <4>2. f # Listener BY <4>1, LoopAssumption DEF LoopInv, TypeOK
      <4>3. QED BY <3>2, <4>1, <4>2, OthersMoveEvents DEF Reports
    <3>3. QED BY <3>1, <3>2
  <2>2. file[f] \in Client BY <2>1 DEF LoopInv, TypeOK, EventsAreOfWatched
  <2>3. EventsFit(f) BY <2>1 DEF FramingInv, EventsFit
  <2>4. QED BY <1>1, <2>1, <2>2, <2>3, EventsKept
<1>4. QED BY <1>2, <1>3 DEF FramingInv, EventsFit

\* a client that dies has nothing to keep
LEMMA DieFraming ==
  ASSUME LoopInv, FramingInv, NEW c \in Client, Die(c) PROVE FramingInv'
<1>1. /\ UNCHANGED <<file, watched, batch, cur, buf, pc>>
      /\ \A f \in watched : file[f] # c => (f \in ready' <=> f \in ready)
      /\ \A d \in Client \ {c} : SameClient(d)
  BY SaysForItself
<1>2. ~Alive(c)' BY DEF Die, Alive, LoopInv, TypeOK
<1>3. ASSUME NEW d \in Client PROVE (Whole(d) => StreamFramed(d))'
  <2>1. CASE d = c BY <1>2, <2>1 DEF Whole
  <2>2. CASE d # c BY <1>1, <2>2, FramedKept DEF FramingInv
  <2>3. QED BY <2>1, <2>2
<1>4. ASSUME NEW f \in watched' PROVE EventsFit(f)'
  <2>1. f \in watched /\ file[f] \in Client /\ file'[f] = file[f]
    BY <1>1 DEF LoopInv, TypeOK, EventsAreOfWatched
  <2>2. CASE file[f] = c BY <1>1, <1>2, <2>2 DEF EventsFit, Alive
  <2>3. CASE file[f] # c
    <3>1. EventsFit(f) BY <2>1 DEF FramingInv, EventsFit
    <3>2. (f \in ready' <=> f \in ready) /\ (Reports(f)' <=> Reports(f))
      BY <1>1, <2>1, <2>3 DEF Reports
    <3>3. QED BY <1>1, <2>1, <2>3, <3>1, <3>2, EventsKept
  <2>4. QED BY <2>2, <2>3
<1>5. QED BY <1>3, <1>4 DEF FramingInv, EventsFit

\* one message more, and one event more
LEMMA SayFraming ==
  ASSUME LoopInv, FramingInv, NEW c \in Client, SendShake(c) \/ Ask(c) PROVE FramingInv'
<1>1. /\ UNCHANGED <<file, watched, batch, cur, buf, pc>>
      /\ conn[c] \notin {"away", "dead"} /\ conn'[c] # "away" /\ conn'[c] # "syn" /\ Alive(c)'
      /\ \A f \in watched : file[f] # c => (f \in ready' <=> f \in ready)
      /\ \A d \in Client \ {c} : SameClient(d)
  BY SaysForItself
<1>2. Greeted(c)' <=> Greeted(c) BY <1>1 DEF Greeted
<1>3. Alive(c) BY <1>1 DEF Alive
<1>4. damage[c] \subseteq damage'[c]
  BY DEF SendShake, Ask, LoopInv, TypeOK, ghostVars
<1>5. ASSUME Whole(c)'
      PROVE  /\ Whole(c) /\ StreamFramed(c) /\ Framed(Stream(c))' /\ Stream(c)' # <<>>
             /\ Stream(c) # <<>> =>
                  Stream(c)'[1] = Stream(c)[1] /\ Ends(Stream(c)', 1) < Len(Stream(c)')
             /\ Stream(c) = <<>> /\ SendShake(c) => Stream(c)'[1][2] = 0
  <2>1. Whole(c) /\ "send" \notin damage'[c] BY <1>3, <1>4, <1>5 DEF Whole
  <2>2. StreamFramed(c) /\ Framed(Stream(c)) BY <2>1 DEF FramingInv, StreamFramed
  <2>3. PICK n \in 0..MaxRequests, size \in Nat :
           /\ size < Width /\ Stream(c)' = Stream(c) \o Message(c, n, size)
           /\ Stream(c) \in Seq(Unit)
           /\ SendShake(c) => n = 0 /\ size = 0
    BY <2>1, Says
  <2> DEFINE s == Stream(c)  w == Stream(c)'
  <2>4. w = s \o Message(c, n, size) BY <2>3
  <2>5. s \in Seq(Unit) /\ Framed(s) BY <2>2, <2>3
  <2> HIDE DEF s, w
  <2>6. /\ Framed(w) /\ w # <<>>
        /\ s # <<>> => w[1] = s[1] /\ Ends(w, 1) < Len(w)
        /\ s = <<>> => w = Message(c, n, size)
    BY <2>3, <2>4, <2>5, FramedAppend
  <2>7. s = <<>> /\ SendShake(c) => w[1][2] = 0
    <3>1. Message(c, n, size)[1] = <<"h", Declared(size), c, n>> BY MessageShape
    <3>2. size = 0 => Declared(size) = 0 BY LoopAssumption DEF Declared
    <3>3. QED BY <2>3, <2>6, <3>1, <3>2
  <2>8. Framed(Stream(c))' BY <2>6 DEF w, Framed, Ends
  <2>9. QED BY <2>1, <2>2, <2>6, <2>7, <2>8 DEF s, w
<1>6. ASSUME NEW d \in Client PROVE (Whole(d) => StreamFramed(d))'
  <2>1. CASE d = c
    <3> SUFFICES ASSUME Whole(c)' PROVE StreamFramed(c)' BY <2>1
    <3>1. Framed(Stream(c))' /\ Stream(c)' # <<>> BY <1>5
    <3>2. ASSUME ~Greeted(c)' PROVE Stream(c)'[1][2] = 0
      <4>1. StreamFramed(c) /\ ~Greeted(c) BY <1>2, <1>5, <3>2
      <4>2. CASE Stream(c) # <<>> BY <1>5, <4>1, <4>2 DEF StreamFramed
      <4>3. CASE Stream(c) = <<>>
        <5>1. conn[c] \in {"away", "syn"} BY <4>1, <4>3 DEF StreamFramed
        <5>2. SendShake(c) BY <5>1 DEF Ask, Askers
        <5>3. QED BY <1>5, <4>3, <5>2
      <4>4. QED BY <4>2, <4>3
    <3>3. QED BY <1>1, <3>1, <3>2 DEF StreamFramed
  <2>2. CASE d # c BY <1>1, <2>2, FramedKept DEF FramingInv
  <2>3. QED BY <2>1, <2>2
<1>7. ASSUME NEW f \in watched' PROVE EventsFit(f)'
  <2>1. f \in watched /\ file[f] \in Client /\ file'[f] = file[f] /\ EventsFit(f)
        /\ (Reports(f)' <=> Reports(f))
    BY <1>1 DEF LoopInv, TypeOK, EventsAreOfWatched, FramingInv, EventsFit, Reports
  <2>2. CASE file[f] = c
    <3> SUFFICES ASSUME Alive(c)', damage'[c] = {} PROVE EventsHaveMessages(f)'
      BY <2>1, <2>2 DEF EventsFit, Alive
    <3>1. Whole(c)' BY DEF Whole
    <3>2. Stream(c)' # <<>> /\ (Stream(c) # <<>> => Ends(Stream(c)', 1) < Len(Stream(c)'))
      BY <1>5, <3>1
    <3>3. EventsHaveMessages(f) BY <1>3, <1>4, <2>1, <2>2 DEF EventsFit
    <3>4. Reports(f) => Stream(c) # <<>> BY <2>2, <3>3 DEF EventsHaveMessages
    <3>5. Stream(file[f])' = Stream(c)' BY <1>1, <2>2 DEF Stream, InHand, Peer
    <3>6. QED BY <2>1, <3>2, <3>4, <3>5 DEF EventsHaveMessages, Ends
  <2>3. CASE file[f] # c
    <3>1. f \in ready' <=> f \in ready BY <1>1, <2>1, <2>3
    <3>2. QED BY <1>1, <2>1, <2>3, <3>1, EventsKept
  <2>4. QED BY <2>2, <2>3
<1>8. QED BY <1>6, <1>7 DEF FramingInv, EventsFit

\* the loop lets go of what it has read
LEMMA LetsGo ==
  ASSUME LoopInv, Busy, UNCHANGED <<up, file, cur, conn, damage>>, buf' = <<>>,
         NEW p \in Client, p = Peer
  PROVE  /\ Stream(p) = buf \o up[p] /\ Stream(p)' = up[p]
         /\ \A d \in Client : d # p => Stream(d)' = Stream(d) /\ damage'[d] = damage[d]
<1>1. cur \in Fd /\ file[cur] = p BY PeerIsClient DEF Peer
<1>2. up[p] \in Seq(Unit) BY DEF LoopInv, TypeOK
<1>3. Stream(p) = buf \o up[p] BY <1>1 DEF Stream, InHand, Peer
<1>4. Stream(p)' = up[p]
  <2>1. InHand(p)' = <<>> BY DEF InHand
  <2>2. Stream(p)' = <<>> \o up[p] BY <2>1 DEF Stream
  <2>3. QED BY <1>2, <2>2, ConcatEmptySeq
<1>5. ASSUME NEW d \in Client, d # p PROVE Stream(d)' = Stream(d) /\ damage'[d] = damage[d]
  <2>1. InHand(d) = <<>> /\ InHand(d)' = <<>> BY <1>5 DEF InHand
  <2>2. QED BY <2>1 DEF Stream
<1>6. QED BY <1>3, <1>4, <1>5

\* what it lets go of is the first message of a whole stream
LEMMA LetsGoOfMessage ==
  ASSUME LoopInv, Busy, Framed(buf \o up[Peer]), Len(buf) > 0,
         Len(buf) = Ends(buf, 1)
  PROVE  /\ Framed(up[Peer])
         /\ Ends(buf \o up[Peer], 1) < Len(buf \o up[Peer]) => up[Peer] # <<>>
<1>1. buf \in Seq(Unit) /\ up[Peer] \in Seq(Unit) BY PeerIsClient
<1>2. QED BY <1>1, FramedRest

\* the first unit of the stream is the first of the buffer
LEMMA StreamStarts ==
  ASSUME LoopInv, Busy, Len(buf) > 0
  PROVE  /\ (buf \o up[Peer])[1] = buf[1] /\ buf \o up[Peer] # <<>>
         /\ Len(buf \o up[Peer]) = Len(buf) + Len(up[Peer]) /\ Len(up[Peer]) \in Nat
         /\ \A i \in 1..Len(buf) : (buf \o up[Peer])[i] = buf[i]
<1>1. buf \in Seq(Unit) /\ up[Peer] \in Seq(Unit) /\ Len(buf) \in Nat /\ Len(up[Peer]) \in Nat
  BY PeerIsClient, LenProperties
<1> DEFINE u == up[Peer]  w == buf \o u  m == Len(buf)  k == Len(u)
<1>2. /\ w \in Seq(Unit) /\ Len(w) = m + k
      /\ \A i \in 1..(m + k) : w[i] = IF i <= m THEN buf[i] ELSE u[i - m]
  BY <1>1, ConcatProperties
<1>3. m \in Nat /\ k \in Nat /\ m > 0 BY <1>1
<1> HIDE DEF u, w, m, k
<1>4. 1 \in 1..(m + k) /\ 1 <= m /\ Len(w) # 0 /\ \A i \in 1..m : i \in 1..(m + k) /\ i <= m
  BY <1>2, <1>3
<1>5. w # <<>> BY <1>4, EmptySeq
<1>6. w[1] = buf[1] /\ \A i \in 1..m : w[i] = buf[i] BY <1>2, <1>4
<1>7. QED BY <1>2, <1>3, <1>5, <1>6 DEF u, w, m, k

\* a client that has not been greeted has the descriptor that the loop reads the handshake from
LEMMA ShakesUngreeted ==
  ASSUME LoopInv, pc = "shake" PROVE ~Greeted(Peer) /\ conn[Peer] # "away"
BY PeerIsClient DEF LoopInv, LoopFollows, FilesAreApart, Greeted, Peer, Busy, TypeOK

LEMMA ShakenFrame ==
  ASSUME LoopInv, Shaken
  PROVE  /\ Busy /\ pc = "shake" /\ pc' = "next" /\ buf' = <<>>
         /\ UNCHANGED <<up, backlog, listening, file, batch, cur, faults, crowded, inherited,
                        conn, heard, lacks, turn, jobs, sent, damage>>
         /\ down' = [down EXCEPT ![Peer] = IF Alive(Peer) THEN @ \o Handshake(Peer) ELSE @]
         /\ watched' = watched \cup {cur} /\ cur \notin watched /\ cur \notin batch /\ cur \notin ready
         /\ ready' = IF up[Peer] # <<>> \/ ~Alive(Peer) THEN ready \cup {cur} ELSE ready
         /\ Len(buf) = 2 \/ (up[Peer] = <<>> /\ ~Alive(Peer))
<1>1. Busy /\ pc = "shake" BY DEF Shaken, In, Busy
<1>2. cur \notin watched /\ cur \notin batch BY <1>1 DEF LoopInv, LoopFollows
<1>3. cur # Listener BY <1>1, PeerIsClient, LoopAssumption
<1>4. cur \notin ready BY <1>2, <1>3 DEF LoopInv, EventsAreOfWatched
<1>5. QED
  BY <1>1, <1>2, <1>4
  DEF Shaken, Watch, UntouchedByLoop, clientVars, ReadNothing, AtEnd, Peer

LEMMA ShakenFraming ==
  ASSUME LoopInv, FramingInv, Shaken PROVE FramingInv'
<1>1. PICK p \in Client : p = Peer BY ShakenFrame, PeerIsClient
<1>2. /\ Busy /\ pc = "shake" /\ pc' = "next" /\ buf' = <<>>
      /\ UNCHANGED <<up, file, batch, cur, conn, damage>>
      /\ watched' = watched \cup {cur} /\ cur \notin watched /\ cur \notin batch /\ cur \notin ready
      /\ ready' = IF up[p] # <<>> \/ ~Alive(p) THEN ready \cup {cur} ELSE ready
      /\ Len(buf) = 2 \/ (up[p] = <<>> /\ ~Alive(p))
  BY <1>1, ShakenFrame
<1>3. p \in Client /\ cur \in Fd /\ file[cur] = p BY <1>2, <1>1, PeerIsClient DEF Peer
<1>4. /\ Stream(p) = buf \o up[p] /\ Stream(p)' = up[p]
      /\ \A d \in Client : d # p => Stream(d)' = Stream(d) /\ damage'[d] = damage[d]
  BY <1>2, <1>1, LetsGo
<1>5. \A d \in Client : d # p => (Greeted(d)' <=> Greeted(d)) BY <1>2, <1>1, <1>3 DEF Greeted
<1>6. \A d \in Client : d # p => SameClient(d) BY <1>2, <1>1, <1>4, <1>5 DEF SameClient, Alive
<1>7. ASSUME Whole(p)' PROVE StreamFramed(p)'
  <2>1. Whole(p) /\ Alive(p) /\ Len(buf) = 2 BY <1>2, <1>1, <1>7 DEF Whole, Alive
  <2>2. StreamFramed(p) /\ ~Greeted(p) BY <1>2, <1>1, <1>3, <2>1, ShakesUngreeted DEF FramingInv
  <2>3. Stream(p) # <<>> /\ Stream(p)[1] = buf[1]
    BY <1>2, <1>1, <1>4, <2>1, StreamStarts
  <2>4. buf[1][2] = 0 /\ conn[p] \notin {"away", "syn"} /\ Framed(buf \o up[p])
    BY <1>4, <2>2, <2>3 DEF StreamFramed
  <2>5. Len(buf) = Ends(buf, 1) /\ Len(buf) > 0 BY <2>1, <2>4 DEF Ends
  <2>6. Framed(up[p]) BY <1>2, <1>1, <2>4, <2>5, LetsGoOfMessage
  <2>7. Framed(Stream(p))' BY <1>4, <2>6 DEF Framed, Ends
  <2>8. Greeted(p)' BY <1>2, <1>1, <1>3 DEF Greeted
  <2>9. QED BY <1>2, <1>1, <2>4, <2>7, <2>8 DEF StreamFramed
<1>8. ASSUME NEW f \in watched' PROVE EventsFit(f)'
  <2>1. CASE f = cur
    <3>1. ~Reports(f)' BY <1>2, <1>1, <2>1 DEF Reports
    <3>2. Alive(p) /\ f \in ready' => up[p] # <<>> BY <1>2, <1>1, <2>1
    <3>3. file'[f] = p /\ Stream(file[f])' = up[p] /\ (Alive(file[f])' <=> Alive(p))
      BY <1>2, <1>1, <1>3, <1>4, <2>1 DEF Stream, InHand, Peer, Alive
    <3>4. QED BY <3>1, <3>2, <3>3 DEF EventsFit, EventsHaveMessages
  <2>2. CASE f # cur
    <3>1. f \in watched /\ f \in Fd /\ file[f] \in Client /\ file'[f] = file[f] /\ EventsFit(f)
      BY <1>2, <1>1, <2>2 DEF LoopInv, TypeOK, EventsAreOfWatched, FramingInv, EventsFit
    <3>2. file[f] # p BY <1>1, <1>3, <2>2, <3>1, PeerIsClient, <1>2 DEF LoopInv, FilesAreApart, LoopFollows
    <3>3. (f \in ready' <=> f \in ready) /\ (Reports(f)' => Reports(f)) BY <1>2, <1>1, <2>2 DEF Reports
    <3>4. QED BY <1>6, <3>1, <3>2, <3>3, EventsKept
  <2>3. QED BY <2>1, <2>2
<1>9. \A d \in Client : (Whole(d) => StreamFramed(d))' BY <1>6, <1>7, FramedKept DEF FramingInv
<1>10. QED BY <1>8, <1>9 DEF FramingInv, EventsFit

LEMMA RequestReadFrame ==
  ASSUME LoopInv, RequestRead
  PROVE  /\ Busy /\ pc = "payload" /\ cur \in watched /\ cur \notin batch
         /\ UNCHANGED <<up, down, backlog, listening, file, watched, ready, batch, cur, faults, crowded,
                        inherited, reset, conn, heard, lacks, turn, sent, damage>>
         /\ Len(buf) = Ends(buf, 1) \/ (up[Peer] = <<>> /\ ~Alive(Peer))
         /\ Len(buf) >= 2 /\ buf[1] \in Unit /\ buf[1][1] = "h"
         /\ \/ pc' = "next" /\ buf' = <<>>
               /\ jobs' = jobs \cup {[fd |-> cur, by |-> buf[1][3], turn |-> buf[1][4]]}
            \/ pc' = "crashed" /\ UNCHANGED <<buf, jobs>> /\ ~Alive(Peer)
<1>1. Busy /\ pc = "payload" BY DEF RequestRead, In, Busy
<1>2. cur \in watched /\ cur \notin batch /\ Len(buf) >= 2 BY <1>1 DEF LoopInv, LoopFollows
<1>3. buf[1] \in Unit /\ buf[1][1] = "h" /\ Want = buf[1][2] + 2 /\ buf[1][2] \in Nat
  BY <1>1, PeerIsClient
<1>4. Want = Ends(buf, 1) BY <1>3 DEF Ends
<1>5. UNCHANGED <<up, down, backlog, listening, file, watched, ready, cur, faults, crowded,
                  inherited, reset, conn, heard, lacks, turn, sent, damage>>
  BY DEF RequestRead, streamVars, clientVars, countVars, ghostVars
<1>6. Len(buf) = Want \/ (up[Peer] = <<>> /\ ~Alive(Peer))
  BY DEF RequestRead, ReadNothing, AtEnd
<1>7. /\ batch' = batch
      /\ \/ pc' = "next" /\ buf' = <<>>
            /\ jobs' = jobs \cup {[fd |-> cur, by |-> buf[1][3], turn |-> buf[1][4]]}
         \/ pc' = "crashed" /\ UNCHANGED <<buf, jobs>> /\ ~Alive(Peer)
  BY DEF RequestRead, Deposit, ReadNothing, AtEnd
<1>8. QED BY <1>1, <1>2, <1>3, <1>4, <1>5, <1>6, <1>7

LEMMA RequestReadFraming ==
  ASSUME LoopInv, FramingInv, RequestRead PROVE FramingInv'
<1>1. PICK p \in Client : p = Peer BY RequestReadFrame, PeerIsClient
<1>2. /\ Busy /\ pc = "payload" /\ cur \in watched /\ cur \notin batch
      /\ UNCHANGED <<up, file, watched, ready, batch, cur, conn, damage>>
      /\ Len(buf) = Ends(buf, 1) \/ (up[p] = <<>> /\ ~Alive(p))
      /\ Len(buf) >= 2
      /\ \/ pc' = "next" /\ buf' = <<>>
         \/ pc' = "crashed" /\ UNCHANGED buf /\ ~Alive(p)
  BY <1>1, RequestReadFrame
<1>3. p \in Client /\ cur \in Fd /\ file[cur] = p /\ Len(buf) \in Nat BY <1>2, <1>1, PeerIsClient DEF Peer
<1>4. \A d \in Client : d # p \/ buf' = buf => SameClient(d)
  <2>1. ASSUME NEW d \in Client, buf' = buf PROVE Stream(d)' = Stream(d)
    BY <1>2, <1>1, <2>1, StreamKept
  <2>2. ASSUME NEW d \in Client, d # p, buf' = <<>> PROVE Stream(d)' = Stream(d)
    BY <1>2, <1>1, <2>2, LetsGo
  <2>3. QED BY <1>2, <1>1, <2>1, <2>2 DEF SameClient, Alive, Greeted
<1>5. ASSUME Alive(p)
      PROVE  Len(buf) = Ends(buf, 1) /\ Len(buf) > 0 /\ Stream(p) = buf \o up[p] /\ Stream(p)' = up[p]
  BY <1>2, <1>1, <1>3, <1>5, LetsGo
<1>6. Greeted(p) /\ Greeted(p)' BY <1>2, <1>1, <1>3 DEF Greeted
<1>7. ASSUME Whole(p)' PROVE StreamFramed(p)'
  <2>1. Whole(p) /\ Alive(p) BY <1>2, <1>1, <1>7 DEF Whole, Alive
  <2>2. StreamFramed(p) BY <1>1, <1>3, <2>1 DEF FramingInv
  <2>3. Framed(up[p]) BY <1>2, <1>1, <1>5, <2>1, <2>2, LetsGoOfMessage DEF StreamFramed
  <2>4. Framed(Stream(p))' BY <1>5, <2>1, <2>3 DEF Framed, Ends
  <2>5. conn'[p] \notin {"away", "syn"} BY <1>2, <1>1, <1>6, <2>2 DEF StreamFramed
  <2>6. QED BY <1>6, <2>4, <2>5 DEF StreamFramed
<1>8. ASSUME NEW f \in watched' PROVE EventsFit(f)'
  <2>1. f \in watched /\ f \in Fd /\ file[f] \in Client /\ file'[f] = file[f] /\ EventsFit(f)
    BY <1>2 DEF LoopInv, TypeOK, EventsAreOfWatched, FramingInv, EventsFit
  <2>2. CASE f = cur
    <3> SUFFICES ASSUME Alive(p), damage[p] = {} PROVE EventsHaveMessages(f)'
      BY <1>2, <1>1, <1>3, <2>2 DEF EventsFit, Alive
    <3>1. ~Reports(f)' /\ Reports(f) /\ ready' = ready BY <1>2, <1>1, <2>2 DEF Reports
    <3>2. EventsHaveMessages(f) /\ StreamFramed(p)
      BY <1>1, <1>3, <2>1, <2>2 DEF EventsFit, FramingInv, Whole
    <3>3. f \in ready => Ends(Stream(p), 1) < Len(Stream(p))
      BY <1>1, <1>3, <2>2, <3>1, <3>2 DEF EventsHaveMessages
    <3>4. f \in ready => up[p] # <<>>
      BY <1>2, <1>1, <1>5, <3>2, <3>3, LetsGoOfMessage DEF StreamFramed
    <3>5. Stream(file[f])' = up[p] BY <1>2, <1>1, <1>3, <1>5, <2>2 DEF Stream, InHand, Peer
    <3>6. QED BY <3>1, <3>4, <3>5 DEF EventsHaveMessages
  <2>3. CASE f # cur
    <3>1. file[f] # p BY <1>2, <1>1, <1>3, <2>1, <2>3 DEF LoopInv, FilesAreApart, EventsAreOfWatched
    <3>2. (f \in ready' <=> f \in ready) /\ (Reports(f)' => Reports(f)) BY <1>2, <1>1, <2>3 DEF Reports
    <3>3. QED BY <1>4, <2>1, <3>1, <3>2, EventsKept
  <2>4. QED BY <2>2, <2>3
<1>9. \A d \in Client : (Whole(d) => StreamFramed(d))' BY <1>4, <1>7, FramedKept DEF FramingInv
<1>10. QED BY <1>8, <1>9 DEF FramingInv, EventsFit

LEMMA InitFraming == Init => FramingInv
<1> SUFFICES ASSUME Init, NEW c \in Client PROVE StreamFramed(c)
  BY DEF Init, FramingInv
<1>1. Stream(c) = <<>> BY ConcatEmptySeq, EmptySeq DEF Init, Stream, InHand
<1>2. ~Greeted(c) /\ conn[c] = "away" BY DEF Init, Greeted
<1>3. QED BY <1>1, <1>2 DEF StreamFramed, Framed

LEMMA NextFraming == LoopInv /\ FramingInv /\ [Next]_vars => FramingInv'
<1> SUFFICES ASSUME LoopInv, FramingInv, [Next]_vars PROVE FramingInv' OBVIOUS
<1>1. CASE QuietLoop \/ QuietOthers BY <1>1, QuietFraming
<1>2. ASSUME NEW c \in Client, SendShake(c) \/ Ask(c) PROVE FramingInv' BY <1>2, SayFraming
<1>3. ASSUME NEW c \in Client, Die(c) PROVE FramingInv' BY <1>3, DieFraming
<1>4. CASE Shaken BY <1>4, ShakenFraming
<1>5. CASE RequestRead BY <1>5, RequestReadFraming
<1>6. CASE UNCHANGED vars
  <2>1. UNCHANGED <<conn, up, file, watched, ready, batch, pc, cur, buf, damage>>
    BY <1>6 DEF vars, streamVars, clientVars, epollVars, loopVars, ghostVars
  <2>2. \A c \in Client : Stream(c)' = Stream(c) BY <2>1, StreamKept
  <2>3. \A c \in Client : SameClient(c) BY <2>1, <2>2 DEF SameClient, Alive, Greeted
  <2>4. \A c \in Client : (Whole(c) => StreamFramed(c))' BY <2>3, FramedKept DEF FramingInv
  <2>5. ASSUME NEW f \in watched' PROVE EventsFit(f)'
    <3>1. f \in watched /\ file[f] \in Client /\ EventsFit(f)
      BY <2>1 DEF LoopInv, TypeOK, EventsAreOfWatched, FramingInv, EventsFit
    <3>2. QED BY <2>1, <2>3, <3>1, EventsKept DEF Reports
  <2>6. QED BY <2>4, <2>5 DEF FramingInv, EventsFit
<1>7. QED BY <1>1, <1>2, <1>3, <1>4, <1>5, <1>6 DEF Next, Loop, Listen, QuietLoop, QuietOthers

-----------------------------------------------------------------------------
(* The loop and its clients *)

\* a stream that starts with a header has all of its message
LEMMA FirstMessage ==
  ASSUME NEW s \in Seq(Unit), Framed(s), s # <<>>
  PROVE  /\ s[1][1] = "h" /\ s[2][1] = "l" /\ s[1][2] \in Nat
         /\ Ends(s, 1) = s[1][2] + 2 /\ Ends(s, 1) <= Len(s) /\ Len(s) \in Nat
<1>1. Len(s) \in Nat /\ Len(s) > 0 /\ 1 \in DOMAIN s BY LenProperties, EmptySeq
<1>2. s[1] \in Unit BY <1>1, ElementOfSeq
<1>3. s[1][2] \in Nat BY <1>2, UnitFields, LoopAssumption
<1>4. s[1][1] = "h" BY DEF Framed
<1>5. Ends(s, 1) <= Len(s) /\ s[1 + 1][1] = "l" BY <1>1, <1>4 DEF Framed
<1>6. QED BY <1>1, <1>3, <1>4, <1>5 DEF Ends

LEMMA NobodyHolds == LoopInv /\ FramingInv => NobodyHoldsTheLoop
<1> SUFFICES ASSUME LoopInv, FramingInv, Reading, up[Peer] = <<>>, Alive(Peer), damage[Peer] = {},
                    ~(pc = "shake" /\ conn[Peer] = "syn")
             PROVE  FALSE
  BY DEF NobodyHoldsTheLoop
<1>1. Busy /\ Len(buf) < Want BY DEF Reading, Busy
<1>2. PICK p \in Client : p = Peer /\ buf \in Seq(Unit) /\ cur \in Fd /\ Len(buf) \in Nat
  BY <1>1, PeerIsClient
<1>3. Stream(p) = buf BY <1>2, ConcatEmptySeq DEF Stream, InHand
<1>4. Whole(p) /\ StreamFramed(p) BY <1>2 DEF Whole, FramingInv
<1>5. Framed(buf) BY <1>3, <1>4 DEF StreamFramed
<1>6. CASE pc = "shake"
  <2>1. ~Greeted(p) /\ conn[p] \notin {"away", "syn"} BY <1>2, <1>6, ShakesUngreeted
  <2>2. buf # <<>> /\ buf[1][2] = 0 BY <1>3, <1>4, <2>1 DEF StreamFramed
  <2>3. 2 <= Len(buf) BY <1>2, <1>5, <2>2, FirstMessage
  <2>4. QED BY <1>1, <1>2, <1>6, <2>3, PeerIsClient
<1>7. CASE pc \in {"header", "payload"}
  <2>1. cur \in watched /\ Reports(cur) /\ file[cur] = p
    BY <1>1, <1>2, <1>7 DEF LoopInv, LoopFollows, Reports, Peer
  <2>2. buf # <<>> BY <1>2, <1>3, <2>1 DEF FramingInv, EventsHaveMessages
  <2>3. buf[1][2] + 2 <= Len(buf) /\ 2 <= Len(buf) /\ buf[1][2] \in Nat
    BY <1>2, <1>5, <2>2, FirstMessage
  <2>4. Want = 2 \/ Want = buf[1][2] + 2 BY <1>7 DEF Want, In
  <2>5. QED
    <3>1. CASE Want = 2 BY <1>1, <1>2, <2>3, <3>1
    <3>2. CASE Want = buf[1][2] + 2 BY <1>1, <1>2, <2>3, <3>2
    <3>3. QED BY <2>4, <3>1, <3>2
<1>8. QED BY <1>1, <1>6, <1>7 DEF Busy

\* a loop that has stopped stays with the reason it stopped for
LEMMA StoppedStays ==
  ASSUME LoopInv, LoopStopsOnlyByClients, pc \in {"stuck", "crashed"}, [Next]_vars
  PROVE  LoopStopsOnlyByClients'
<1> USE DEF LoopInv
<1>1. UNCHANGED <<backlog, file>> /\ \A c \in Client : (Alive(c)' => Alive(c)) /\ damage[c] \subseteq damage'[c]
  <2>1. ASSUME NEW c \in Client, ReadHeaderOf(c) \/ UseHeader(c) \/ ReadBodyOf(c) \/ UseBody(c)
        PROVE  /\ UNCHANGED <<backlog, file>>
               /\ \A d \in Client : (Alive(d)' => Alive(d)) /\ damage[d] \subseteq damage'[d]
    <3>1. UNCHANGED <<backlog, file>>
      BY <2>1 DEF ReadHeaderOf, UseHeader, ReadBodyOf, UseBody, epollVars
    <3>2. \A d \in Client : SameClient(d) BY <2>1, OthersKeepClients
    <3>3. QED BY <3>1, <3>2 DEF SameClient
  <2>2. CASE UNCHANGED vars
    BY <2>2 DEF vars, epollVars, clientVars, ghostVars, Alive
  <2>3. ~Loop /\ \A c \in Client : ~Connect(c) /\ ~SendShake(c) /\ ~Ask(c) /\ ~Die(c)
    BY DEF Loop, EpollWait, BatchDone, Accept, AcceptFails, CloseReset, BeginRead, ServerReads,
           Spin, Shaken, ShakeRefused, HeaderUnread, HeaderRead, RequestRead, In, Reading, Connect,
           SendShake, Ask, Die, Serving
  <2>4. \A j \in jobs : ~Answer(j) BY DEF Answer, Serving
  <2>5. QED BY <2>1, <2>2, <2>3, <2>4 DEF Next, Listen
<1>2. CASE \E c \in Client : ~Alive(c) \/ "send" \in damage[c]
  BY <1>1, <1>2 DEF LoopStopsOnlyByClients
<1>3. CASE backlog # <<>> /\ \A f \in Fd : file[f] # NoClient
  BY <1>1, <1>3 DEF LoopStopsOnlyByClients
<1>4. QED BY <1>2, <1>3 DEF LoopStopsOnlyByClients

LEMMA NextStops ==
  LoopInv /\ FramingInv /\ LoopStopsOnlyByClients /\ [Next]_vars => LoopStopsOnlyByClients'
<1> SUFFICES ASSUME LoopInv, FramingInv, LoopStopsOnlyByClients, [Next]_vars, Serving,
                    pc' \in {"stuck", "crashed"}
             PROVE  LoopStopsOnlyByClients'
  BY StoppedStays DEF Serving, LoopStopsOnlyByClients
<1> USE DEF LoopInv
<1>1. CASE AcceptFails
  <2>1. UNCHANGED <<backlog, file>> /\ Listener \in batch /\ \A f \in Fd : file[f] # NoClient
    BY <1>1 DEF AcceptFails
  <2>2. QED BY <2>1 DEF LoopStopsOnlyByClients, BacklogHasEvents
<1>2. CASE Spin \/ RequestRead
  <2>1. Peer \in Client /\ ~Alive(Peer) /\ conn' = conn
    <3>1. CASE Spin
      <4>1. Busy BY <3>1 DEF Spin, Reading, Busy
      <4>2. QED BY <3>1, <4>1, PeerIsClient, EventFrame DEF Spin, AtEnd
    <3>2. CASE RequestRead BY <3>2, PeerIsClient, RequestReadFrame
    <3>3. QED BY <1>2, <3>1, <3>2
  <2>2. QED BY <2>1 DEF LoopStopsOnlyByClients, Alive
<1>3. CASE HeaderRead
  <2>1. UNCHANGED <<conn, damage>> /\ pc = "header" /\ Len(buf) = 2 /\ ~IsHeader(buf) /\ Busy
    BY <1>3, EventFrame DEF HeaderRead, In, Busy
  <2>2. PICK p \in Client : p = Peer /\ cur \in Fd /\ buf \in Seq(Unit) /\ up[p] \in Seq(Unit)
    BY <2>1, PeerIsClient
  <2>3. ~Whole(p)
    <3> SUFFICES ASSUME Whole(p) PROVE FALSE OBVIOUS
    <3>1. Framed(buf \o up[p])
      BY <2>2 DEF FramingInv, StreamFramed, Stream, InHand
    <3>2. buf \o up[p] # <<>> /\ (buf \o up[p])[1] = buf[1] /\ (buf \o up[p])[2] = buf[2]
      BY <2>1, <2>2, StreamStarts
    <3>3. buf \o up[p] \in Seq(Unit) BY <2>2, StreamGrows
    <3>4. buf[1][1] = "h" /\ buf[2][1] = "l" BY <3>1, <3>2, <3>3, FirstMessage
    <3>5. QED BY <2>1, <3>4 DEF IsHeader
  <2>4. QED BY <2>1, <2>3 DEF LoopStopsOnlyByClients, Whole, Alive
<1>4. ASSUME NEW j \in jobs, Answer(j) PROVE LoopStopsOnlyByClients'
  <2>1. j.fd \in Fd /\ conn' = conn BY <1>4 DEF TypeOK, Answer, clientVars
  <2>2. \/ pc' = pc
        \/ \E size \in AnswerSizes :
             file[j.fd] # NoClient /\ Deliver(file[j.fd], Message(j.by, j.turn, size))
    BY <1>4, <2>1 DEF Answer, AnswerFd
  <2>3. file[j.fd] \in Client /\ ~Alive(file[j.fd])
    BY <2>1, <2>2 DEF Deliver, Serving, TypeOK
  <2>4. QED BY <2>1, <2>3 DEF LoopStopsOnlyByClients, Alive
<1>5. ~(EpollWait \/ BatchDone \/ Accept \/ CloseReset \/ BeginRead \/ ServerReads \/ Shaken
          \/ ShakeRefused \/ HeaderUnread \/ UNCHANGED vars)
  BY DEF EpollWait, BatchDone, Accept, CloseReset, BeginRead, ServerReads, Shaken, ShakeRefused,
         HeaderUnread, CloseListener, In, Reading, vars, loopVars, Serving
<1>6. \A c \in Client : ~(Connect(c) \/ Ask(c) \/ Die(c) \/ Listen(c))
  BY DEF Connect, Ask, Die, Listen, SendShake, ReadHeaderOf, UseHeader, ReadBodyOf, UseBody,
         loopVars, Serving
<1>7. QED BY <1>1, <1>2, <1>3, <1>4, <1>5, <1>6 DEF Next, Loop

-----------------------------------------------------------------------------
(* One party has the word *)

\* ConversationInv, client by client
Talks(c) ==
  Clean(c) =>
    /\ Stream(c) # <<>> => OwnMessage(c, Stream(c))
    /\ New(c) => Len(Stream(c)) <= 2
    /\ IF Alive(c) THEN Conversation(c) /\ Answering(c) ELSE heard[c] = <<>>

\* a step that is not the client's, nor about it
SameTalk(c) ==
  Clean(c)' =>
    /\ Clean(c) /\ SameClient(c)
    /\ conn'[c] = conn[c] /\ turn'[c] = turn[c] /\ lacks'[c] = lacks[c]
    /\ Inbound(c)' = Inbound(c)
    /\ heard'[c] = heard[c] \/ (Alive(c) /\ (conn[c] # "body" => Len(heard'[c]) <= 2))
    /\ PendingFor(c)' \subseteq PendingFor(c) /\ (New(c)' => New(c))

LEMMA TalkKept ==
  ASSUME NEW c \in Client, Talks(c), SameTalk(c) PROVE Talks(c)'
<1> SUFFICES ASSUME Clean(c)'
             PROVE  /\ Stream(c)' # <<>> => OwnMessage(c, Stream(c))'
                    /\ New(c)' => Len(Stream(c)') <= 2
                    /\ IF Alive(c)' THEN Conversation(c)' /\ Answering(c)' ELSE heard'[c] = <<>>
  BY DEF Talks
<1>1. /\ Clean(c) /\ Stream(c)' = Stream(c) /\ (Alive(c)' <=> Alive(c))
      /\ Alive(c) => (Greeted(c)' <=> Greeted(c))
      /\ conn'[c] = conn[c] /\ turn'[c] = turn[c] /\ lacks'[c] = lacks[c]
      /\ Inbound(c)' = Inbound(c)
      /\ heard'[c] = heard[c] \/ (Alive(c) /\ (conn[c] # "body" => Len(heard'[c]) <= 2))
      /\ PendingFor(c)' \subseteq PendingFor(c) /\ (New(c)' => New(c))
  BY DEF SameTalk, SameClient
<1>2. /\ Stream(c) # <<>> => OwnMessage(c, Stream(c))
      /\ New(c) => Len(Stream(c)) <= 2
      /\ IF Alive(c) THEN Conversation(c) /\ Answering(c) ELSE heard[c] = <<>>
  BY <1>1 DEF Talks
<1>3. Stream(c)' # <<>> => OwnMessage(c, Stream(c))' BY <1>1, <1>2 DEF OwnMessage, Ends
<1>4. New(c)' => Len(Stream(c)') <= 2 BY <1>1, <1>2
<1>5. ASSUME Alive(c) PROVE Conversation(c)' BY <1>1, <1>2, <1>5 DEF Conversation
<1>6. ASSUME Alive(c) PROVE Answering(c)' BY <1>1, <1>2, <1>6 DEF Answering, Framed, Ends
<1>7. QED BY <1>1, <1>2, <1>3, <1>4, <1>5, <1>6

\* the quiet steps of the loop
LEMMA LoopFrame ==
  ASSUME LoopInv, QuietLoop
  PROVE  /\ UNCHANGED <<down, conn, heard, lacks, turn, jobs, damage>> /\ inherited \subseteq inherited'
         /\ listening' => listening
<1>1. CASE EpollWait \/ BatchDone \/ AcceptFails \/ CloseReset \/ BeginRead \/ Spin \/ ShakeRefused
             \/ HeaderUnread \/ HeaderRead
  BY <1>1, EventFrame
  DEF EpollWait, BatchDone, AcceptFails, CloseReset, BeginRead, Spin, ShakeRefused, HeaderUnread,
      HeaderRead, CloseListener, epollVars
<1>2. CASE Accept BY <1>2, AcceptTakes
<1>3. CASE ServerReads BY <1>3, ServerReadsMoves
<1>4. QED BY <1>1, <1>2, <1>3 DEF QuietLoop

LEMMA LoopKeepsTalk ==
  ASSUME LoopInv, QuietLoop, NEW c \in Client PROVE SameTalk(c)
<1> SUFFICES ASSUME Clean(c)' PROVE PendingFor(c)' \subseteq PendingFor(c) /\ (New(c)' => New(c))
  <2>1. SameClient(c) BY LoopKeepsClients DEF QuietLoop
  <2>2. /\ UNCHANGED <<down, conn, heard, lacks, turn, jobs, damage>> /\ inherited \subseteq inherited'
    BY LoopFrame
  <2>3. Inbound(c)' = Inbound(c) BY <2>2 DEF Inbound
  <2>4. Clean(c)' => Clean(c) BY <2>2 DEF Clean
  <2>5. QED BY <2>1, <2>2, <2>3, <2>4 DEF SameTalk
<1>1. jobs' = jobs /\ jobs \subseteq [fd : Fd, by : Client, turn : 0..MaxRequests]
  BY LoopFrame DEF LoopInv, TypeOK
<1>2. c # NoClient BY LoopAssumption
<1>3. CASE Accept
  <2>1. PICK f \in Fd, d \in Client :
           /\ file[f] = NoClient /\ f \notin watched /\ backlog # <<>>
           /\ d = backlog[1]
           /\ backlog' = Tail(backlog) /\ file' = [file EXCEPT ![f] = d]
           /\ inherited' = IF \E j \in jobs : j.fd = f THEN inherited \cup {d} ELSE inherited
           /\ UNCHANGED watched
    BY <1>3, AcceptTakes
  <2>2. \A g \in Fd : file'[g] = IF g = f THEN d ELSE file[g] BY <2>1 DEF LoopInv, TypeOK
  <2>3. c = d => \A j \in jobs : j.fd # f BY <2>1 DEF Clean
  <2>4. \A j \in jobs : file'[j.fd] = c => file[j.fd] = c BY <1>1, <2>2, <2>3
  <2>5. PendingFor(c)' \subseteq PendingFor(c) BY <1>1, <2>4 DEF PendingFor
  <2>6. \A i \in DOMAIN backlog' : \E k \in DOMAIN backlog : backlog[k] = backlog'[i]
    <3>1. backlog \in Seq(Client) BY DEF LoopInv, TypeOK
    <3>2. /\ DOMAIN backlog' = 1..(Len(backlog) - 1) /\ DOMAIN backlog = 1..Len(backlog)
          /\ \A i \in 1..(Len(backlog) - 1) : backlog'[i] = backlog[i + 1]
          /\ Len(backlog) \in Nat
      BY <2>1, <3>1, HeadTailProperties, LenProperties
    <3>3. \A i \in 1..(Len(backlog) - 1) : i + 1 \in 1..Len(backlog) BY <3>2
    <3>4. QED BY <3>2, <3>3
  <2>7. 1 \in DOMAIN backlog
    <3>1. Len(backlog) \in Nat /\ DOMAIN backlog = 1..Len(backlog)
          /\ (backlog = <<>> <=> Len(backlog) = 0)
      BY BacklogLength DEF LoopInv
    <3>2. QED BY <2>1, <3>1
  <2>8. New(c)' => New(c) BY <2>1, <2>2, <2>6, <2>7 DEF New
  <2>9. QED BY <2>5, <2>8
<1>4. CASE ~Accept
  <2>1. /\ backlog' = backlog
        /\ \/ \E f : CloseFd(f)
           \/ UNCHANGED <<file, watched>>
    BY <1>4, ServerReadsMoves
    DEF QuietLoop, EpollWait, BatchDone, AcceptFails, CloseReset, BeginRead, Spin, ShakeRefused,
        HeaderUnread, HeaderRead, epollVars, CloseListener
  <2>2. \A g \in Fd : file'[g] = c => file[g] = c /\ (g \notin watched' => g \notin watched)
    BY <1>2, <2>1 DEF CloseFd, LoopInv, TypeOK
  <2>3. QED BY <1>1, <2>1, <2>2 DEF PendingFor, New
<1>5. QED BY <1>3, <1>4

\* a step of another client
LEMMA ClientsKeepTalk ==
  ASSUME LoopInv, NEW d \in Client, NEW c \in Client, c # d,
         Connect(d) \/ Ask(d) \/ Die(d) \/ Listen(d)
  PROVE  SameTalk(c)
<1> USE DEF LoopInv, TypeOK
<1>1. SameClient(c)
  BY OthersKeepClients, SaysForItself DEF Listen
<1>2. /\ conn'[c] = conn[c] /\ turn'[c] = turn[c] /\ lacks'[c] = lacks[c] /\ heard'[c] = heard[c]
      /\ down'[c] = down[c]
      /\ UNCHANGED <<jobs, file, watched, inherited>>
  <2>1. CASE Connect(d) BY <2>1 DEF Connect, streamVars, loopVars
  <2>2. CASE Ask(d) BY <2>2 DEF Ask, loopVars
  <2>3. CASE Die(d) BY <2>3 DEF Die, loopVars, ghostVars
  <2>4. CASE SendShake(d) BY <2>4 DEF SendShake, loopVars, ghostVars
  <2>5. CASE ReadHeaderOf(d) \/ ReadBodyOf(d)
    BY <2>5 DEF ReadHeaderOf, ReadBodyOf, ClientReads, loopVars, epollVars
  <2>6. CASE UseHeader(d) \/ UseBody(d)
    BY <2>6 DEF UseHeader, UseBody, loopVars, epollVars, streamVars, ghostVars
  <2>7. QED BY <2>1, <2>2, <2>3, <2>4, <2>5, <2>6 DEF Listen
<1>3. Inbound(c)' = Inbound(c) /\ PendingFor(c)' = PendingFor(c)
  BY <1>2 DEF Inbound, PendingFor
<1>4. Clean(c)' => Clean(c) BY <1>1, <1>2 DEF Clean, SameClient
<1>5. New(c)' => New(c)
  <2>1. backlog' = backlog \/ backlog' = Append(backlog, d)
    BY DEF Connect, Ask, Die, Listen, SendShake, ReadHeaderOf, UseHeader, ReadBodyOf, UseBody,
           epollVars
  <2>2. CASE backlog' = backlog BY <1>2, <2>2 DEF New
  <2>3. CASE backlog' = Append(backlog, d)
    <3> DEFINE k == Len(backlog)
    <3>1. /\ DOMAIN backlog' = 1..(k + 1) /\ DOMAIN backlog = 1..k
          /\ \A i \in 1..k : backlog'[i] = backlog[i]
          /\ backlog'[k + 1] = d /\ k \in Nat
      BY <2>3, AppendProperties, LenProperties
    <3> HIDE DEF k
    <3>2. \A i \in 1..(k + 1) : i \in 1..k \/ i = k + 1 BY <3>1
    <3>3. QED BY <1>2, <3>1, <3>2 DEF New
  <2>4. QED BY <2>1, <2>2, <2>3
<1>6. QED BY <1>1, <1>2, <1>3, <1>4, <1>5 DEF SameTalk

LEMMA StreamTypes ==
  ASSUME TypeOK, NEW c \in Client
  PROVE  /\ InHand(c) \in Seq(Unit) /\ up[c] \in Seq(Unit) /\ Stream(c) \in Seq(Unit)
         /\ heard[c] \in Seq(Unit) /\ down[c] \in Seq(Unit) /\ Inbound(c) \in Seq(Unit)
<1>1. InHand(c) \in Seq(Unit) BY EmptySeq DEF InHand, TypeOK
<1>2. up[c] \in Seq(Unit) /\ heard[c] \in Seq(Unit) /\ down[c] \in Seq(Unit) BY DEF TypeOK
<1>3. QED BY <1>1, <1>2, StreamGrows DEF Stream, Inbound

\* both parts of nothing are nothing
LEMMA EmptyParts ==
  ASSUME NEW a \in Seq(Unit), NEW b \in Seq(Unit), a \o b = <<>>
  PROVE  a = <<>> /\ b = <<>>
<1> DEFINE m == Len(a)  k == Len(b)
<1>1. Len(a \o b) = m + k /\ m \in Nat /\ k \in Nat BY ConcatProperties, LenProperties
<1>2. Len(a \o b) = 0 BY EmptySeq
<1>3. (m = 0 => a = <<>>) /\ (k = 0 => b = <<>>) BY EmptySeq
<1> HIDE DEF m, k
<1>4. m = 0 /\ k = 0 BY <1>1, <1>2
<1>5. QED BY <1>3, <1>4

LEMMA ConnectTalk ==
  ASSUME LoopInv, NEW c \in Client, Talks(c), Connect(c) PROVE Talks(c)'
<1> SUFFICES ASSUME Clean(c)' PROVE /\ Stream(c)' = <<>> /\ Alive(c)'
                                    /\ Conversation(c)' /\ Answering(c)'
  BY EmptySeq DEF Talks
<1>1. /\ UNCHANGED <<up, down, heard, lacks, turn, file, watched, cur, buf, jobs, damage, inherited>>
      /\ conn' = [conn EXCEPT ![c] = "syn"] /\ conn[c] = "away"
  BY DEF Connect, streamVars, loopVars
<1>2. Clean(c) /\ Alive(c) /\ Conversation(c) BY <1>1 DEF Clean, Alive, Talks
<1>3. Stream(c) = <<>> /\ Inbound(c) = <<>> /\ PendingFor(c) = {} /\ (~Greeted(c) => turn[c] = 0)
  BY <1>1, <1>2 DEF Conversation
<1>4. Stream(c)' = <<>> BY <1>1, <1>3, StreamKept
<1>5. conn'[c] = "syn" /\ Alive(c)' BY <1>1 DEF LoopInv, TypeOK, Alive
<1>6. Inbound(c)' = <<>> /\ PendingFor(c)' = {} /\ (~Greeted(c)' => turn'[c] = 0)
  BY <1>1, <1>3 DEF Inbound, PendingFor, Greeted
<1>7. Conversation(c)' BY <1>4, <1>5, <1>6 DEF Conversation
<1>8. Answering(c)' BY <1>5, <1>6 DEF Answering
<1>9. QED BY <1>4, <1>5, <1>7, <1>8

\* the first units of a stream
LEMMA PrefixShape ==
  ASSUME NEW a \in Seq(Unit), NEW b \in Seq(Unit), NEW n \in 0..Len(b)
  PROVE  LET w == a \o SubSeq(b, 1, n)  s == a \o b IN
         /\ w \in Seq(Unit) /\ Len(w) \in Nat /\ Len(s) \in Nat /\ Len(w) <= Len(s)
         /\ \A i \in 1..Len(w) : w[i] = s[i] /\ i \in 1..Len(s)
<1> DEFINE p == SubSeq(b, 1, n)  m == Len(a)  k == Len(b)  w == a \o p  s == a \o b
<1>1. p \in Seq(Unit) /\ Len(p) = n /\ \A i \in 1..n : p[i] = b[i] BY TakeAndLeave
<1>2. m \in Nat /\ k \in Nat /\ n \in 0..k BY LenProperties
<1> HIDE DEF p, k
<1>3. /\ w \in Seq(Unit) /\ Len(w) = Len(a) + Len(p)
      /\ \A i \in 1..(Len(a) + Len(p)) : w[i] = IF i <= Len(a) THEN a[i] ELSE p[i - Len(a)]
  BY <1>1, ConcatProperties
<1>4. /\ Len(s) = Len(a) + Len(b)
      /\ \A i \in 1..(Len(a) + Len(b)) : s[i] = IF i <= Len(a) THEN a[i] ELSE b[i - Len(a)]
  BY ConcatProperties
<1> HIDE DEF m, w, s
<1>5. /\ Len(w) = m + n /\ Len(s) = m + k
      /\ \A i \in 1..(m + n) : w[i] = IF i <= m THEN a[i] ELSE p[i - m]
      /\ \A i \in 1..(m + k) : s[i] = IF i <= m THEN a[i] ELSE b[i - m]
  BY <1>1, <1>3, <1>4 DEF m, k
<1>6. ASSUME NEW i \in 1..(m + n) PROVE w[i] = s[i] /\ i \in 1..(m + k)
  <2>1. i \in 1..(m + k) BY <1>2
  <2>2. CASE i <= m BY <1>5, <2>1, <2>2
  <2>3. CASE ~(i <= m)
    <3>1. i - m \in 1..n BY <1>2, <2>3
    <3>2. QED BY <1>1, <1>5, <2>1, <2>3, <3>1
  <2>4. QED BY <2>2, <2>3
<1>7. QED BY <1>2, <1>3, <1>5, <1>6 DEF w, s, p

LEMMA DieTalk ==
  ASSUME LoopInv, NEW c \in Client, Talks(c), Die(c) PROVE Talks(c)'
<1> SUFFICES ASSUME Clean(c)' PROVE /\ Stream(c)' # <<>> => OwnMessage(c, Stream(c))'
                                    /\ New(c)' => Len(Stream(c)') <= 2
                                    /\ ~Alive(c)' /\ heard'[c] = <<>>
  BY DEF Talks
<1>1. /\ UNCHANGED <<turn, file, watched, backlog, cur, buf, damage, inherited>>
      /\ conn' = [conn EXCEPT ![c] = "dead"] /\ heard' = [heard EXCEPT ![c] = <<>>]
      /\ \E n \in 0..Len(up[c]) : up' = [up EXCEPT ![c] = SubSeq(@, 1, n)]
  BY DEF Die, loopVars, ghostVars
<1>2. ~Alive(c)' /\ heard'[c] = <<>> BY <1>1 DEF LoopInv, TypeOK, Alive
<1>3. PICK n \in 0..Len(up[c]) : up'[c] = SubSeq(up[c], 1, n) BY <1>1 DEF LoopInv, TypeOK
<1>4. Clean(c) BY <1>1 DEF Clean
<1> DEFINE s == Stream(c)  w == Stream(c)'
<1>5. w = InHand(c) \o SubSeq(up[c], 1, n)
  <2>1. InHand(c)' = InHand(c) BY <1>1 DEF InHand, Peer
  <2>2. QED BY <1>3, <2>1 DEF Stream
<1>6. s = InHand(c) \o up[c] BY DEF Stream
<1>7. InHand(c) \in Seq(Unit) /\ up[c] \in Seq(Unit) BY StreamTypes DEF LoopInv
<1> HIDE DEF s, w
<1>8. /\ w \in Seq(Unit) /\ Len(w) \in Nat /\ Len(s) \in Nat /\ Len(w) <= Len(s)
      /\ \A i \in 1..Len(w) : w[i] = s[i] /\ i \in 1..Len(s)
  BY <1>5, <1>6, <1>7, PrefixShape
<1>9. ASSUME w # <<>> PROVE OwnMessage(c, Stream(c))'
  <2>1. Len(w) > 0 /\ 1 \in 1..Len(w) /\ DOMAIN w = 1..Len(w)
    BY <1>8, <1>9, EmptySeq, LenProperties
  <2>2. s \in Seq(Unit) BY StreamTypes DEF LoopInv, s
  <2>3. DOMAIN s = 1..Len(s) /\ s # <<>> BY <1>8, <2>1, <2>2, EmptySeq, LenProperties
  <2>4. OwnMessage(c, s) BY <1>4, <2>3 DEF Talks, s
  <2>5. w[1] = s[1] /\ Ends(w, 1) = Ends(s, 1) BY <1>8, <2>1 DEF Ends
  <2>6. Ends(s, 1) \in Nat
    <3>1. s[1] \in Unit BY <1>8, <2>1, <2>2, ElementOfSeq
    <3>2. s[1][2] \in Nat BY <3>1, UnitFields, LoopAssumption
    <3>3. QED BY <3>2 DEF Ends
  <2>7. Len(w) <= Ends(w, 1) BY <1>8, <2>4, <2>5, <2>6 DEF OwnMessage
  <2>8. \A i \in DOMAIN w : w[i][3] = c /\ w[i][4] = turn'[c]
    BY <1>1, <1>8, <2>1, <2>3, <2>4 DEF OwnMessage
  <2>9. w[1][1] = "h" BY <2>4, <2>5 DEF OwnMessage
  <2>10. QED BY <2>7, <2>8, <2>9 DEF OwnMessage, Ends, w
<1>10. New(c)' => Len(w) <= 2
  <2>1. New(c)' => New(c) BY <1>1 DEF New
  <2>2. New(c) => Len(s) <= 2 BY <1>4 DEF Talks, s
  <2>3. QED BY <1>8, <2>1, <2>2
<1>11. QED BY <1>2, <1>9, <1>10 DEF w

\* a message is one whole message of its sender's turn
LEMMA MessageIsOwn ==
  ASSUME NEW c \in Client, NEW n \in 0..MaxRequests, NEW size \in Nat, size < Width,
         NEW m, m = Message(c, n, size)
  PROVE  /\ m \in Seq(Unit) /\ m # <<>> /\ Len(m) = size + 2 /\ Ends(m, 1) = size + 2 /\ Framed(m)
         /\ m[1][1] = "h"
         /\ \A i \in DOMAIN m : m[i][3] = c /\ m[i][4] = n
<1>1. /\ m \in Seq(Unit) /\ Len(m) = size + 2
      /\ m[1] = <<"h", Declared(size), c, n>> /\ m[2] = <<"l", 0, c, n>>
      /\ \A i \in 3..(size + 2) : m[i] = <<"p", 0, c, n>>
  BY MessageShape
<1>2. Declared(size) = size BY LoopAssumption DEF Declared
<1>3. Ends(m, 1) = size + 2 BY <1>1, <1>2 DEF Ends
<1>4. Framed(m) /\ m # <<>>
  <2>1. <<>> \in Seq(Unit) /\ Framed(<<>>) BY EmptySeq DEF Framed
  <2>2. <<>> \o m = m BY <1>1, ConcatEmptySeq
  <2>3. QED BY <2>1, <2>2, FramedAppend
<1>5. DOMAIN m = 1..(size + 2) BY <1>1, LenProperties
<1>6. ASSUME NEW i \in 1..(size + 2) PROVE m[i][3] = c /\ m[i][4] = n
  <2>1. i = 1 \/ i = 2 \/ i \in 3..(size + 2) OBVIOUS
  <2>2. QED BY <1>1, <2>1
<1>7. QED BY <1>1, <1>3, <1>4, <1>5, <1>6

LEMMA HandshakeIsOwn ==
  ASSUME NEW c \in Client, NEW m, m = Handshake(c)
  PROVE  /\ m \in Seq(Unit) /\ m # <<>> /\ Len(m) = 2 /\ Ends(m, 1) = 2 /\ Framed(m)
         /\ \A i \in DOMAIN m : m[i][3] = c /\ m[i][4] = 0
<1>1. PICK z \in Nat : z = 0 OBVIOUS
<1>2. z \in 0..MaxRequests /\ z < Width BY <1>1, LoopAssumption
<1>3. m = Message(c, z, z) BY <1>1 DEF Handshake
<1>4. /\ m \in Seq(Unit) /\ m # <<>> /\ Len(m) = z + 2 /\ Ends(m, 1) = z + 2 /\ Framed(m)
      /\ \A i \in DOMAIN m : m[i][3] = c /\ m[i][4] = z
  BY <1>2, <1>3, MessageIsOwn
<1>5. QED BY <1>1, <1>4

\* a connection whose socket is watched is not new
LEMMA GreetedIsNotNew ==
  ASSUME LoopInv, NEW c \in Client, Greeted(c) PROVE ~New(c)
BY LoopAssumption DEF LoopInv, TypeOK, BacklogIsNew, FilesAreApart, Greeted, New

LEMMA SayTalk ==
  ASSUME LoopInv, FramingInv, NEW c \in Client, Talks(c), SendShake(c) \/ Ask(c) PROVE Talks(c)'
<1> SUFFICES ASSUME Clean(c)' PROVE /\ OwnMessage(c, Stream(c))'
                                    /\ New(c)' => Len(Stream(c)') <= 2
                                    /\ Alive(c)' /\ Conversation(c)' /\ Answering(c)'
  BY DEF Talks
<1>1. /\ UNCHANGED <<down, heard, file, watched, backlog, cur, buf, jobs, inherited>>
      /\ damage[c] \subseteq damage'[c]
      /\ SendShake(c) => conn[c] = "syn" /\ conn'[c] = "shaking" /\ turn' = turn
      /\ Ask(c) => conn[c] = "idle" /\ conn'[c] = "asked"
  BY DEF SendShake, Ask, Askers, loopVars, ghostVars, LoopInv, TypeOK
<1>2. Clean(c) /\ Alive(c) /\ Alive(c)' BY <1>1 DEF Clean, Alive
<1>3. Conversation(c) BY <1>2 DEF Talks
<1>4. Stream(c) = <<>> /\ Inbound(c) = <<>> /\ PendingFor(c) = {}
  BY <1>1, <1>3 DEF Conversation
<1>5. Ask(c) => Greeted(c) /\ ~New(c) BY <1>1, <1>3, GreetedIsNotNew DEF Conversation
<1>6. SendShake(c) => ~Greeted(c) /\ turn[c] = 0
  <2>1. Whole(c) BY <1>2 DEF Clean, Whole
  <2>2. SendShake(c) => ~Greeted(c) BY <1>1, <2>1 DEF FramingInv, StreamFramed
  <2>3. QED BY <1>3, <2>2 DEF Conversation
<1>7. PICK n \in 0..MaxRequests, size \in Nat :
           /\ size < Width /\ Stream(c)' = Stream(c) \o Message(c, n, size)
           /\ Message(c, n, size) \in Seq(Unit)
           /\ SendShake(c) => n = 0 /\ size = 0
           /\ Ask(c) => n = turn'[c]
  <2>1. "send" \notin damage'[c] BY DEF Clean
  <2>2. QED BY <2>1, Says
<1> DEFINE m == Message(c, n, size)
<1>8. Stream(c)' = m BY <1>4, <1>7, ConcatEmptySeq
<1>9. n = turn'[c] BY <1>1, <1>6, <1>7
<1>10. /\ m # <<>> /\ Len(m) = size + 2 /\ Ends(m, 1) = size + 2 /\ m[1][1] = "h"
       /\ \A i \in DOMAIN m : m[i][3] = c /\ m[i][4] = n
  BY <1>7, MessageIsOwn
<1> HIDE DEF m
<1>11. OwnMessage(c, Stream(c))' BY <1>8, <1>9, <1>10 DEF OwnMessage, Ends
<1>12. New(c)' => Len(Stream(c)') <= 2
  <2>1. New(c)' <=> New(c) BY <1>1 DEF New
  <2>2. CASE SendShake(c) BY <1>7, <1>8, <1>10, <2>2
  <2>3. CASE Ask(c) BY <1>5, <2>1, <2>3
  <2>4. QED BY <2>2, <2>3
<1>13. /\ Inbound(c)' = <<>> /\ PendingFor(c)' = {} /\ (Greeted(c)' <=> Greeted(c))
  BY <1>1, <1>4 DEF Inbound, PendingFor, Greeted
<1>14. Conversation(c)' BY <1>1, <1>5, <1>6, <1>13 DEF Conversation
<1>15. Answering(c)'
  <2>1. DOMAIN <<>> = {} OBVIOUS
  <2>2. QED BY <1>1, <1>13, <2>1 DEF Answering
<1>16. QED BY <1>2, <1>11, <1>12, <1>14, <1>15

\* a client's own recv moves its stream from the socket to its buffer
LEMMA ReadTalk ==
  ASSUME LoopInv, NEW c \in Client, Talks(c), ReadHeaderOf(c) \/ ReadBodyOf(c) PROVE Talks(c)'
<1> SUFFICES ASSUME Clean(c)' PROVE SameTalk(c) BY TalkKept DEF SameTalk, Talks
<1> DEFINE want == IF ReadHeaderOf(c) THEN 2 ELSE lacks[c]
<1>1. want \in Nat /\ ClientReads(c, want) /\ conn[c] \in {"shaking", "asked", "body"}
      /\ (conn[c] # "body" => want = 2)
  BY LoopAssumption DEF ReadHeaderOf, ReadBodyOf, LoopInv, TypeOK
<1> HIDE DEF want
<1>2. PICK n \in 1..Len(down[c]) :
           /\ n <= want /\ Len(heard[c]) < want
           /\ heard' = [heard EXCEPT ![c] = @ \o SubSeq(down[c], 1, n)]
           /\ down' = [down EXCEPT ![c] = SubSeq(@, n + 1, Len(@))]
           /\ damage' = [damage EXCEPT ![c] = IF Len(heard[c]) + n > want THEN @ \cup {"recv"} ELSE @]
  BY <1>1, ClientReadsMoves DEF LoopInv
<1>3. /\ UNCHANGED <<up, conn, lacks, turn, file, watched, backlog, cur, buf, jobs, inherited>>
  BY DEF ReadHeaderOf, ReadBodyOf, epollVars, loopVars
<1>4. SameClient(c) BY OthersKeepClients
<1>5. Clean(c) /\ ~(Len(heard[c]) + n > want)
  BY <1>2, <1>3, <1>4 DEF Clean, SameClient, LoopInv, TypeOK
<1> DEFINE a == SubSeq(down[c], 1, n)  b == SubSeq(down[c], n + 1, Len(down[c]))
<1>6. heard[c] \in Seq(Unit) /\ down[c] \in Seq(Unit) /\ Len(down[c]) \in Nat
  BY LenProperties DEF LoopInv, TypeOK
<1>7. a \in Seq(Unit) /\ Len(a) = n /\ b \in Seq(Unit) /\ a \o b = down[c]
  <2>1. n \in 0..Len(down[c]) BY <1>6
  <2>2. QED BY <1>6, <2>1, TakeAndLeave
<1>8. heard'[c] = heard[c] \o a /\ down'[c] = b BY <1>2 DEF LoopInv, TypeOK
<1> HIDE DEF a, b
<1>9. Inbound(c)' = Inbound(c)
  <2>1. (heard[c] \o a) \o b = heard[c] \o (a \o b) BY <1>6, <1>7, StreamsAssociate
  <2>2. QED BY <1>7, <1>8, <2>1 DEF Inbound
<1>10. conn[c] # "body" => Len(heard'[c]) <= 2
  <2>1. Len(heard'[c]) = Len(heard[c]) + Len(a) BY <1>6, <1>7, <1>8, ConcatProperties
  <2>2. Len(heard[c]) \in Nat /\ n \in Nat BY <1>6, LenProperties
  <2>3. QED BY <1>1, <1>5, <1>7, <2>1, <2>2
<1>11. Alive(c) BY <1>1 DEF Alive
<1>12. PendingFor(c)' = PendingFor(c) /\ (New(c)' <=> New(c)) BY <1>3 DEF PendingFor, New
<1>13. QED BY <1>3, <1>4, <1>5, <1>9, <1>10, <1>11, <1>12 DEF SameTalk

\* what the client's own use of what it has read leaves alone
LEMMA UseKeeps ==
  ASSUME LoopInv, NEW c \in Client, UseHeader(c) \/ UseBody(c)
  PROVE  /\ UNCHANGED <<up, down, turn, file, watched, backlog, cur, buf, jobs, damage, inherited>>
         /\ heard'[c] = <<>> /\ Inbound(c)' = down[c] /\ Stream(c)' = Stream(c)
         /\ PendingFor(c)' = PendingFor(c) /\ (Greeted(c)' <=> Greeted(c)) /\ (New(c)' <=> New(c))
<1>1. UNCHANGED <<up, down, turn, file, watched, backlog, cur, buf, jobs, damage, inherited>>
  BY DEF UseHeader, UseBody, streamVars, epollVars, loopVars, ghostVars
<1>2. heard'[c] = <<>> BY DEF UseHeader, UseBody, LoopInv, TypeOK
<1>3. Inbound(c)' = down[c]
  <2>1. down[c] \in Seq(Unit) BY DEF LoopInv, TypeOK
  <2>2. QED BY <1>1, <1>2, <2>1, ConcatEmptySeq DEF Inbound
<1>4. Stream(c)' = Stream(c) BY <1>1, StreamKept
<1>5. QED BY <1>1, <1>2, <1>3, <1>4 DEF PendingFor, Greeted, New

\* the client has read its header: what follows is its payload, or nothing
LEMMA UseHeaderTalk ==
  ASSUME LoopInv, NEW c \in Client, Talks(c), UseHeader(c) PROVE Talks(c)'
<1> SUFFICES ASSUME Clean(c)' PROVE /\ Stream(c)' = <<>> /\ Alive(c)'
                                    /\ Conversation(c)' /\ Answering(c)'
  BY EmptySeq DEF Talks
<1>1. /\ UNCHANGED <<up, down, turn, file, watched, backlog, cur, buf, jobs, damage, inherited>>
      /\ heard'[c] = <<>> /\ Inbound(c)' = down[c] /\ Stream(c)' = Stream(c)
      /\ PendingFor(c)' = PendingFor(c) /\ (Greeted(c)' <=> Greeted(c))
  BY UseKeeps
<1>2. Clean(c) /\ Alive(c) /\ conn[c] \in {"shaking", "asked"} /\ Len(heard[c]) >= 2
  BY <1>1 DEF Clean, Alive, UseHeader
<1>3. Conversation(c) /\ Answering(c) BY <1>2 DEF Talks
<1> DEFINE d == Inbound(c)  h == heard[c]  t == down[c]  k == Len(t)
<1>4. h \in Seq(Unit) /\ t \in Seq(Unit) /\ Len(h) \in Nat /\ k \in Nat
  BY LenProperties DEF LoopInv, TypeOK
<1>5. d = h \o t BY DEF Inbound
<1>6. h # <<>>
  <2>1. Len(<<>>) = 0 BY EmptySeq
  <2>2. QED BY <1>2, <1>4, <2>1
<1>7. d # <<>> /\ d \in Seq(Unit)
  <2>1. d \in Seq(Unit) BY <1>4, <1>5, StreamGrows
  <2>2. QED BY <1>4, <1>5, <1>6, <2>1, EmptyParts
<1>8. Framed(d) /\ Len(d) = Ends(d, 1) /\ Len(h) = 2
  <2>1. conn[c] # "body" BY <1>2
  <2>2. Framed(d) /\ Len(d) = Ends(d, 1) /\ Len(h) <= 2 BY <1>3, <1>7, <2>1 DEF Answering
  <2>3. Len(h) >= 2 BY <1>2
  <2> DEFINE m == Len(h)
  <2>4. m \in Nat /\ m <= 2 /\ m >= 2 BY <1>4, <2>2, <2>3
  <2> HIDE DEF m
  <2>5. m = 2 BY <2>4
  <2>6. QED BY <2>2, <2>5 DEF m
<1>9. /\ Stream(c) = <<>> /\ PendingFor(c) = {} /\ Greeted(c)
  BY <1>3, <1>7 DEF Conversation
<1>10. \A i \in DOMAIN d : d[i][3] = c /\ d[i][4] = turn[c] BY <1>3 DEF Answering
<1> HIDE DEF d, h, t, k
<1>11. /\ Len(d) = 2 + k /\ d[1] = h[1] /\ d[2] = h[2]
       /\ \A i \in 1..k : t[i] = d[i + 2] /\ i + 2 \in 1..(2 + k)
  <2>1. /\ Len(d) = Len(h) + Len(t)
        /\ \A i \in 1..(Len(h) + Len(t)) : d[i] = IF i <= Len(h) THEN h[i] ELSE t[i - Len(h)]
    BY <1>4, <1>5, ConcatProperties
  <2>2. /\ Len(d) = 2 + k
        /\ \A i \in 1..(2 + k) : d[i] = IF i <= 2 THEN h[i] ELSE t[i - 2]
    BY <1>8, <2>1 DEF k
  <2>3. 1 \in 1..(2 + k) /\ 2 \in 1..(2 + k) BY <1>4
  <2>4. ASSUME NEW i \in 1..k PROVE t[i] = d[i + 2] /\ i + 2 \in 1..(2 + k)
    <3>1. i + 2 \in 1..(2 + k) /\ ~(i + 2 <= 2) /\ (i + 2) - 2 = i BY <1>4
    <3>2. QED BY <2>2, <3>1
  <2>5. QED BY <2>2, <2>3, <2>4
<1>12. /\ d[1][1] = "h" /\ d[2][1] = "l" /\ d[1][2] \in Nat /\ Ends(d, 1) = d[1][2] + 2
  BY <1>7, <1>8, FirstMessage
<1>13. IsHeader(h) /\ h[1][2] = k
  <2>1. d[1][2] + 2 = 2 + k BY <1>8, <1>11, <1>12
  <2>2. d[1][2] = k BY <1>4, <1>12, <2>1
  <2>3. QED BY <1>11, <1>12, <2>2 DEF IsHeader
<1>14. lacks'[c] = k /\ conn'[c] = IF k = 0 THEN "idle" ELSE "body"
  BY <1>13 DEF UseHeader, LoopInv, TypeOK, h
<1>15. /\ DOMAIN t = 1..k /\ DOMAIN d = 1..(2 + k) /\ (t = <<>> <=> k = 0)
  BY <1>4, <1>7, <1>11, LenProperties, EmptySeq DEF k
<1>16. \A i \in DOMAIN t : t[i][3] = c /\ t[i][4] = turn[c] BY <1>10, <1>11, <1>15
<1>17. \A i \in DOMAIN t : t[i][1] = "p"
  <2> SUFFICES ASSUME NEW i \in 1..k PROVE t[i][1] = "p" BY <1>15
  <2>1. \A j \in (1 + 2)..Ends(d, 1) : d[j][1] = "p"
    <3>1. 1 \in DOMAIN d BY <1>4, <1>15
    <3>2. QED BY <1>8, <1>12, <3>1 DEF Framed
  <2>2. Ends(d, 1) = 2 + k BY <1>8, <1>11
  <2>3. i + 2 \in (1 + 2)..(2 + k) BY <1>4
  <2>4. QED BY <1>11, <2>1, <2>2, <2>3
<1>18. Inbound(c)' = t BY <1>1 DEF t
<1>19. Alive(c)' BY <1>14 DEF Alive
<1>20. Conversation(c)'
  <2>1. Stream(c)' = <<>> /\ PendingFor(c)' = {} /\ Greeted(c)' BY <1>1, <1>9
  <2>2. Inbound(c)' # <<>> => conn'[c] = "body" BY <1>14, <1>15, <1>18
  <2>3. conn'[c] # "lost" BY <1>14
  <2>4. QED BY <2>1, <2>2, <2>3 DEF Conversation
<1>21. Answering(c)'
  <2>1. turn' = turn BY <1>1
  <2>2. \A i \in DOMAIN t : t[i][3] = c /\ t[i][4] = turn'[c] BY <1>16, <2>1
  <2>3. CASE k = 0 BY <1>14, <1>15, <1>18, <2>2, <2>3 DEF Answering
  <2>4. CASE k # 0
    <3>1. conn'[c] = "body" /\ t # <<>> /\ Len(t) = lacks'[c] BY <1>14, <1>15, <2>4 DEF k
    <3>2. QED BY <1>17, <1>18, <2>2, <3>1 DEF Answering
  <2>5. QED BY <2>3, <2>4
<1>22. QED BY <1>1, <1>9, <1>19, <1>20, <1>21

\* the client has read its payload: nothing is left
LEMMA UseBodyTalk ==
  ASSUME LoopInv, NEW c \in Client, Talks(c), UseBody(c) PROVE Talks(c)'
<1> SUFFICES ASSUME Clean(c)' PROVE /\ Stream(c)' = <<>> /\ Alive(c)'
                                    /\ Conversation(c)' /\ Answering(c)'
  BY EmptySeq DEF Talks
<1>1. /\ UNCHANGED <<up, down, turn, file, watched, backlog, cur, buf, jobs, damage, inherited>>
      /\ Inbound(c)' = down[c] /\ Stream(c)' = Stream(c)
      /\ PendingFor(c)' = PendingFor(c) /\ (Greeted(c)' <=> Greeted(c))
  BY UseKeeps
<1>2. Clean(c) /\ Alive(c) /\ conn[c] = "body" /\ Len(heard[c]) >= lacks[c] /\ conn'[c] = "idle"
  BY <1>1 DEF Clean, Alive, UseBody, LoopInv, TypeOK
<1>3. Conversation(c) /\ Answering(c) BY <1>2 DEF Talks
<1>4. Inbound(c) # <<>> /\ Len(Inbound(c)) = lacks[c] BY <1>2, <1>3 DEF Answering
<1>5. Stream(c) = <<>> /\ PendingFor(c) = {} /\ Greeted(c) BY <1>3, <1>4 DEF Conversation
<1>6. down[c] = <<>>
  <2> DEFINE m == Len(heard[c])  k == Len(down[c])
  <2>1. heard[c] \in Seq(Unit) /\ down[c] \in Seq(Unit) BY DEF LoopInv, TypeOK
  <2>2. Len(Inbound(c)) = m + k /\ m \in Nat /\ k \in Nat /\ lacks[c] \in Nat
    BY <2>1, ConcatProperties, LenProperties, LoopAssumption DEF Inbound, LoopInv, TypeOK
  <2>3. k = 0 => down[c] = <<>> BY <2>1, EmptySeq
  <2>4. m >= lacks[c] /\ m + k = lacks[c] BY <1>2, <1>4, <2>2
  <2> HIDE DEF m, k
  <2>5. k = 0 BY <2>2, <2>4
  <2>6. QED BY <2>3, <2>5
<1>7. Alive(c)' /\ Inbound(c)' = <<>> BY <1>1, <1>2, <1>6 DEF Alive
<1>8. Conversation(c)' BY <1>1, <1>2, <1>5, <1>7 DEF Conversation
<1>9. Answering(c)' BY <1>2, <1>7 DEF Answering
<1>10. QED BY <1>1, <1>5, <1>7, <1>8, <1>9

\* the loop greets a client: it has the word
LEMMA ShakenTalk ==
  ASSUME LoopInv, ConversationInv, Shaken, NEW c \in Client PROVE Talks(c)'
<1>1. /\ Busy /\ pc = "shake" /\ pc' = "next" /\ buf' = <<>>
      /\ UNCHANGED <<up, backlog, file, cur, inherited, conn, heard, lacks, turn, jobs, damage>>
      /\ down' = [down EXCEPT ![Peer] = IF Alive(Peer) THEN @ \o Handshake(Peer) ELSE @]
      /\ watched' = watched \cup {cur}
      /\ cur \notin watched
      /\ Len(buf) = 2 \/ (up[Peer] = <<>> /\ ~Alive(Peer))
  BY ShakenFrame
<1>2. PICK p \in Client : p = Peer /\ cur \in Fd /\ file[cur] = p BY <1>1, PeerIsClient DEF Peer
<1>3. /\ Stream(p) = buf \o up[p] /\ Stream(p)' = up[p]
      /\ \A d \in Client : d # p => Stream(d)' = Stream(d)
  BY <1>1, <1>2, LetsGo
<1>4. Talks(c) BY DEF ConversationInv, Talks
<1>5. Alive(c)' <=> Alive(c) BY <1>1 DEF Alive
<1>6. PendingFor(c)' = PendingFor(c) /\ (Clean(c)' <=> Clean(c)) BY <1>1 DEF PendingFor, Clean
<1>7. CASE c # p
  <2>1. down'[c] = down[c] BY <1>1, <1>2, <1>7 DEF LoopInv, TypeOK
  <2>2. Inbound(c)' = Inbound(c) BY <1>1, <2>1 DEF Inbound
  <2>3. (Greeted(c)' <=> Greeted(c)) /\ (New(c)' => New(c)) BY <1>1, <1>2, <1>7 DEF Greeted, New
  <2>4. SameClient(c) BY <1>1, <1>3, <1>5, <1>7, <2>3 DEF SameClient
  <2>5. SameTalk(c) BY <1>1, <1>6, <2>2, <2>3, <2>4 DEF SameTalk
  <2>6. QED BY <1>4, <2>5, TalkKept
<1>8. CASE c = p
  <2> SUFFICES ASSUME Clean(c)'
               PROVE  /\ Stream(c)' = <<>>
                      /\ IF Alive(c)' THEN Conversation(c)' /\ Answering(c)' ELSE heard'[c] = <<>>
    BY EmptySeq DEF Talks
  <2>1. Clean(c) /\ New(c) BY <1>1, <1>2, <1>6, <1>8 DEF New
  <2>2. Len(Stream(c)) <= 2 BY <1>4, <2>1 DEF Talks
  <2>3. up[c] = <<>>
    <3>1. CASE up[Peer] = <<>> BY <1>2, <1>8, <3>1
    <3>2. CASE Len(buf) = 2
      <4>1. Len(buf \o up[c]) = Len(buf) + Len(up[c]) /\ Len(up[c]) \in Nat
        BY <1>1, <1>2, <1>8, <3>2, StreamStarts
      <4>2. Len(up[c]) = 0 BY <1>3, <1>8, <2>2, <3>2, <4>1
      <4>3. QED BY <4>2, EmptySeq DEF LoopInv, TypeOK
    <3>3. QED BY <1>1, <3>1, <3>2
  <2>4. Stream(c)' = <<>> BY <1>3, <1>8, <2>3
  <2>5. CASE ~Alive(c) BY <1>1, <1>4, <1>5, <2>1, <2>4, <2>5 DEF Talks
  <2>6. CASE Alive(c)
    <3>1. Len(buf) = 2 BY <1>1, <1>2, <1>8, <2>6
    <3>2. Stream(c) # <<>> BY <1>1, <1>2, <1>3, <1>8, <3>1, StreamStarts
    <3>3. Conversation(c) BY <1>4, <2>1, <2>6 DEF Talks
    <3>4. ~Greeted(c) BY <1>1, <1>2, <1>8, ShakesUngreeted
    <3>5. /\ conn[c] \in {"shaking", "asked"} /\ Inbound(c) = <<>> /\ PendingFor(c) = {}
          /\ turn[c] = 0 /\ conn[c] \in {"away", "syn", "shaking"}
      BY <3>2, <3>3, <3>4 DEF Conversation
    <3> DEFINE m == Message(c, 0, 0)
    <3>6. /\ m \in Seq(Unit) /\ m # <<>> /\ Len(m) = 2 /\ Ends(m, 1) = 2 /\ Framed(m)
          /\ \A i \in DOMAIN m : m[i][3] = c /\ m[i][4] = 0
      <4>1. m = Handshake(c) BY DEF Handshake
      <4>2. QED BY <4>1, HandshakeIsOwn
    <3>7. heard[c] = <<>> /\ down[c] = <<>> /\ heard[c] \in Seq(Unit) /\ down[c] \in Seq(Unit)
      BY <3>5, EmptyParts, StreamTypes DEF Inbound, LoopInv
    <3>8. down'[c] = down[c] \o m BY <1>1, <1>2, <1>8, <2>6 DEF LoopInv, TypeOK, Handshake
    <3> HIDE DEF m
    <3>9. Inbound(c)' = m
      <4>1. down'[c] = m BY <3>6, <3>7, <3>8, ConcatEmptySeq
      <4>2. QED BY <1>1, <3>6, <3>7, <4>1, ConcatEmptySeq DEF Inbound
    <3>10. Greeted(c)' BY <1>1, <1>2, <1>8 DEF Greeted
    <3>11. conn'[c] = "shaking" BY <1>1, <3>5
    <3>12. Conversation(c)' BY <1>6, <2>4, <3>5, <3>10, <3>11 DEF Conversation
    <3>13. Answering(c)'
      <4>1. turn'[c] = 0 /\ Len(heard'[c]) <= 2 BY <1>1, <3>5, <3>7, EmptySeq
      <4>2. \A i \in DOMAIN m : m[i][3] = c /\ m[i][4] = turn'[c] BY <3>6, <4>1
      <4>3. Len(m) = Ends(m, 1) BY <3>6
      <4>4. conn'[c] # "body" BY <3>11
      <4>5. /\ \A i \in DOMAIN Inbound(c)' : Inbound(c)'[i][3] = c /\ Inbound(c)'[i][4] = turn'[c]
            /\ Framed(m) /\ Len(Inbound(c)') = Ends(m, 1)
        BY <3>6, <3>9, <4>2, <4>3
      <4>6. QED BY <3>9, <4>1, <4>4, <4>5 DEF Answering, Framed, Ends
    <3>14. QED BY <1>5, <2>4, <2>6, <3>12, <3>13
  <2>7. QED BY <2>5, <2>6
<1>9. QED BY <1>7, <1>8

\* the one message of a client is all that was on its way
LEMMA NothingBehind ==
  ASSUME LoopInv, ConversationInv, RequestRead, NEW p \in Client, p = Peer, Clean(p)
  PROVE  up[p] = <<>> /\ (Alive(p) => OwnMessage(p, buf \o up[p]) /\ buf \o up[p] = Stream(p))
<1>1. /\ Busy /\ pc = "payload" /\ Len(buf) >= 2
      /\ Len(buf) = Ends(buf, 1) \/ (up[Peer] = <<>> /\ ~Alive(Peer))
  BY RequestReadFrame
<1>2. cur \in Fd /\ Len(buf) \in Nat /\ up[p] \in Seq(Unit) BY <1>1, PeerIsClient
<1>3. Stream(p) = buf \o up[p] BY <1>2 DEF Stream, InHand
<1>4. /\ (buf \o up[p])[1] = buf[1] /\ buf \o up[p] # <<>>
      /\ Len(buf \o up[p]) = Len(buf) + Len(up[p]) /\ Len(up[p]) \in Nat
  <2>1. Len(buf) > 0 BY <1>1, <1>2
  <2>2. QED BY <1>1, <2>1, StreamStarts
<1>5. OwnMessage(p, buf \o up[p]) BY <1>3, <1>4 DEF ConversationInv
<1>6. CASE Len(buf) = Ends(buf, 1)
  <2>1. Len(buf \o up[p]) <= Ends(buf \o up[p], 1) /\ Ends(buf \o up[p], 1) = Ends(buf, 1)
    BY <1>4, <1>5 DEF OwnMessage, Ends
  <2>2. Len(up[p]) = 0 BY <1>2, <1>4, <1>6, <2>1
  <2>3. QED BY <1>2, <1>3, <1>5, <2>2, EmptySeq
<1>7. QED BY <1>1, <1>3, <1>5, <1>6

\* its request becomes a job: the server has the word
LEMMA RequestReadTalk ==
  ASSUME LoopInv, ConversationInv, RequestRead, NEW c \in Client PROVE Talks(c)'
<1>1. /\ Busy /\ pc = "payload" /\ cur \in watched
      /\ UNCHANGED <<up, down, backlog, file, watched, cur, inherited, conn, heard, lacks, turn, damage>>
      /\ Len(buf) >= 2 /\ buf[1] \in Unit /\ buf[1][1] = "h"
      /\ \/ pc' = "next" /\ buf' = <<>>
            /\ jobs' = jobs \cup {[fd |-> cur, by |-> buf[1][3], turn |-> buf[1][4]]}
         \/ pc' = "crashed" /\ UNCHANGED <<buf, jobs>> /\ ~Alive(Peer)
  BY RequestReadFrame
<1>2. PICK p \in Client : p = Peer /\ cur \in Fd /\ file[cur] = p /\ Len(buf) \in Nat
  BY <1>1, PeerIsClient DEF Peer
<1>3. Talks(c) BY DEF ConversationInv, Talks
<1>4. /\ (Alive(c)' <=> Alive(c)) /\ (Clean(c)' <=> Clean(c)) /\ (Greeted(c)' <=> Greeted(c))
      /\ (New(c)' <=> New(c)) /\ Inbound(c)' = Inbound(c)
  BY <1>1 DEF Alive, Clean, Greeted, New, Inbound
<1>5. CASE c # p \/ UNCHANGED <<buf, jobs>>
  <2>1. Stream(c)' = Stream(c)
    <3>1. CASE UNCHANGED <<buf, jobs>> BY <1>1, <3>1, StreamKept
    <3>2. CASE c # p /\ buf' = <<>> BY <1>1, <1>2, <3>2, LetsGo
    <3>3. QED BY <1>1, <1>5, <3>1, <3>2
  <2>2. PendingFor(c)' \subseteq PendingFor(c)
    <3>1. \A j \in jobs' : j \in jobs \/ (c # p /\ j.fd = cur) BY <1>1, <1>5
    <3>2. QED BY <1>1, <1>2, <3>1 DEF PendingFor
  <2>3. SameClient(c) BY <1>1, <1>4, <2>1 DEF SameClient
  <2>4. SameTalk(c) BY <1>1, <1>4, <2>2, <2>3 DEF SameTalk
  <2>5. QED BY <1>3, <2>4, TalkKept
<1>6. CASE c = p /\ ~UNCHANGED <<buf, jobs>>
  <2> SUFFICES ASSUME Clean(c)'
               PROVE  /\ Stream(c)' = <<>>
                      /\ IF Alive(c)' THEN Conversation(c)' /\ Answering(c)' ELSE heard'[c] = <<>>
    BY EmptySeq DEF Talks
  <2>1. buf' = <<>> /\ jobs' = jobs \cup {[fd |-> cur, by |-> buf[1][3], turn |-> buf[1][4]]}
    BY <1>1, <1>6
  <2>2. Clean(c) /\ up[c] = <<>> /\ (Alive(c) => OwnMessage(c, buf \o up[c]) /\ buf \o up[c] = Stream(c))
    BY <1>2, <1>4, <1>6, NothingBehind
  <2>3. Stream(c)' = <<>> BY <1>1, <1>2, <1>6, <2>1, <2>2, LetsGo
  <2>4. CASE ~Alive(c) BY <1>1, <1>3, <1>4, <2>2, <2>3, <2>4 DEF Talks
  <2>5. CASE Alive(c)
    <3>1. /\ (buf \o up[c])[1] = buf[1] /\ buf \o up[c] # <<>> /\ 1 \in DOMAIN (buf \o up[c])
      <4>1. Len(buf) > 0 BY <1>1, <1>2
      <4>2. /\ (buf \o up[c])[1] = buf[1] /\ buf \o up[c] # <<>>
            /\ Len(buf \o up[c]) = Len(buf) + Len(up[c]) /\ Len(up[c]) \in Nat
        BY <1>1, <1>2, <1>6, <4>1, StreamStarts
      <4>3. buf \o up[c] \in Seq(Unit)
        BY <2>2, <2>5, StreamTypes DEF LoopInv
      <4>4. Len(buf \o up[c]) > 0 BY <1>2, <4>1, <4>2
      <4>5. DOMAIN (buf \o up[c]) = 1..Len(buf \o up[c]) /\ Len(buf \o up[c]) \in Nat
        BY <4>3, LenProperties
      <4>6. QED BY <4>2, <4>4, <4>5
    <3>2. buf[1][3] = c /\ buf[1][4] = turn[c] BY <2>2, <2>5, <3>1 DEF OwnMessage
    <3>3. Conversation(c) /\ Answering(c) BY <1>3, <2>2, <2>5 DEF Talks
    <3>4. Greeted(c) BY <1>1, <1>2, <1>6 DEF Greeted
    <3>5. conn[c] = "asked" /\ Inbound(c) = <<>> /\ PendingFor(c) = {}
      BY <2>2, <2>5, <3>1, <3>3, <3>4 DEF Conversation
    <3>6. \A j \in PendingFor(c)' : j.by = c /\ j.turn = turn'[c]
      <4>1. \A j \in PendingFor(c)' : j \in PendingFor(c) \/
              j = [fd |-> cur, by |-> buf[1][3], turn |-> buf[1][4]]
        BY <1>1, <2>1 DEF PendingFor
      <4>2. QED BY <1>1, <3>2, <3>5, <4>1
    <3>7. Conversation(c)' BY <1>1, <1>4, <2>3, <3>4, <3>5, <3>6 DEF Conversation
    <3>8. Answering(c)' BY <1>1, <1>4, <3>3 DEF Answering, Framed, Ends
    <3>9. QED BY <1>4, <2>3, <2>5, <3>7, <3>8
  <2>6. QED BY <2>4, <2>5
<1>7. QED BY <1>5, <1>6

\* a worker answers: whoever asked on that descriptor has the word
LEMMA AnswerTalk ==
  ASSUME LoopInv, ConversationInv, NEW j \in jobs, Answer(j), NEW c \in Client PROVE Talks(c)'
<1>1. j.fd \in Fd /\ j.by \in Client /\ j.turn \in 0..MaxRequests BY DEF LoopInv, TypeOK
<1>2. /\ UNCHANGED <<up, conn, heard, lacks, turn, backlog, file, watched, cur, buf, inherited>>
      /\ jobs' = jobs \ {j}
  BY DEF Answer, clientVars, epollVars
<1>3. PICK size \in AnswerSizes :
         IF file[j.fd] = NoClient THEN UNCHANGED <<down, reset, pc, damage>>
         ELSE /\ Deliver(file[j.fd], Message(j.by, j.turn, size))
              /\ damage' = [damage EXCEPT ![file[j.fd]] =
                              IF Alive(file[j.fd]) /\ size >= Width THEN @ \cup {"wrap"} ELSE @]
  BY <1>1 DEF Answer, AnswerFd
<1>4. Talks(c) BY DEF ConversationInv, Talks
<1>5. SameClient(c) BY OthersKeepClients
<1>6. /\ (New(c)' <=> New(c)) /\ (Greeted(c)' <=> Greeted(c)) /\ (Alive(c)' <=> Alive(c))
      /\ (Clean(c)' => Clean(c)) /\ PendingFor(c)' \subseteq PendingFor(c)
  <2>1. Clean(c)' => Clean(c) BY <1>2, <1>5 DEF Clean, SameClient
  <2>2. QED BY <1>2, <2>1 DEF New, Greeted, Alive, PendingFor
<1>7. CASE file[j.fd] # c \/ ~Alive(c)
  <2>1. down'[c] = down[c]
    <3>1. CASE file[j.fd] = NoClient BY <1>3, <3>1
    <3>2. CASE file[j.fd] # NoClient BY <1>3, <1>7, <3>2 DEF Deliver, LoopInv, TypeOK
    <3>3. QED BY <3>1, <3>2
  <2>2. SameTalk(c) BY <1>2, <1>5, <1>6, <2>1 DEF SameTalk, Inbound
  <2>3. QED BY <1>4, <2>2, TalkKept
<1>8. CASE file[j.fd] = c /\ Alive(c)
  <2> SUFFICES ASSUME Clean(c)'
               PROVE  /\ Stream(c)' = <<>> /\ Alive(c)' /\ Conversation(c)' /\ Answering(c)'
    BY EmptySeq DEF Talks
  <2>1. c # NoClient BY LoopAssumption
  <2>2. /\ down' = [down EXCEPT ![c] = @ \o Message(j.by, j.turn, size)]
        /\ damage' = [damage EXCEPT ![c] = IF size >= Width THEN @ \cup {"wrap"} ELSE @]
    BY <1>3, <1>8, <2>1 DEF Deliver
  <2>3. size \in Nat /\ size < Width
    <3>1. ~(size >= Width) BY <2>2 DEF Clean, LoopInv, TypeOK
    <3>2. QED BY <3>1, LoopAssumption
  <2>4. Clean(c) /\ Conversation(c) BY <1>4, <1>6, <1>8 DEF Talks
  <2>5. j \in PendingFor(c) BY <1>8 DEF PendingFor
  <2>6. /\ conn[c] = "asked" /\ j.by = c /\ j.turn = turn[c] /\ Inbound(c) = <<>> /\ Stream(c) = <<>>
        /\ Greeted(c)
    BY <2>4, <2>5 DEF Conversation
  <2>7. PendingFor(c)' = {}
    <3> SUFFICES ASSUME NEW i \in PendingFor(c)' PROVE i = j BY <1>2 DEF PendingFor
    <3>1. i \in PendingFor(c) BY <1>6
    <3>2. i.by = j.by /\ i.turn = j.turn BY <2>4, <2>6, <3>1 DEF Conversation
    <3>3. /\ i \in [fd : Fd, by : Client, turn : 0..MaxRequests]
          /\ j \in [fd : Fd, by : Client, turn : 0..MaxRequests] /\ file[i.fd] = c
      BY <3>1 DEF PendingFor, LoopInv, TypeOK
    <3>4. i.fd = j.fd BY <1>8, <2>1, <3>3 DEF LoopInv, FilesAreApart
    <3>5. QED BY <3>2, <3>3, <3>4
  <2> DEFINE m == Message(c, turn[c], size)
  <2>8. /\ m \in Seq(Unit) /\ m # <<>> /\ Len(m) = size + 2 /\ Ends(m, 1) = size + 2 /\ Framed(m)
        /\ \A i \in DOMAIN m : m[i][3] = c /\ m[i][4] = turn[c]
    BY <1>1, <2>3, <2>6, MessageIsOwn
  <2>9. heard[c] = <<>> /\ down[c] = <<>>
    BY <2>6, EmptyParts, StreamTypes DEF Inbound, LoopInv
  <2>10. down'[c] = down[c] \o m BY <2>2, <2>6 DEF LoopInv, TypeOK
  <2> HIDE DEF m
  <2>11. Inbound(c)' = m
    <3>1. down'[c] = m BY <2>8, <2>9, <2>10, ConcatEmptySeq
    <3>2. QED BY <1>2, <2>8, <2>9, <3>1, ConcatEmptySeq DEF Inbound
  <2>12. Stream(c)' = <<>> BY <1>5, <2>6 DEF SameClient
  <2>13. Conversation(c)' BY <1>2, <1>6, <2>6, <2>7, <2>12 DEF Conversation
  <2>14. Answering(c)'
    <3>1. turn'[c] = turn[c] /\ Len(heard'[c]) <= 2 /\ conn'[c] # "body"
      BY <1>2, <2>6, <2>9, EmptySeq
    <3>2. QED BY <2>8, <2>11, <3>1 DEF Answering, Framed, Ends
  <2>15. QED BY <1>6, <1>8, <2>12, <2>13, <2>14
<1>9. QED BY <1>7, <1>8

LEMMA InitTalk == Init => ConversationInv
<1> SUFFICES ASSUME Init, NEW c \in Client
             PROVE  /\ Stream(c) = <<>> /\ Alive(c) /\ Conversation(c) /\ Answering(c)
  BY EmptySeq DEF ConversationInv
<1>1. Stream(c) = <<>> /\ Inbound(c) = <<>>
  BY ConcatEmptySeq, EmptySeq DEF Init, Stream, InHand, Inbound
<1>2. ~Greeted(c) /\ conn[c] = "away" /\ PendingFor(c) = {} /\ turn[c] = 0
  BY DEF Init, Greeted, PendingFor
<1>3. DOMAIN <<>> = {} OBVIOUS
<1>4. QED BY <1>1, <1>2, <1>3 DEF Conversation, Answering, Alive

LEMMA NextTalk ==
  LoopInv /\ FramingInv /\ ConversationInv /\ [Next]_vars => ConversationInv'
<1> SUFFICES ASSUME LoopInv, FramingInv, ConversationInv, [Next]_vars, NEW c \in Client
             PROVE  Talks(c)'
  BY DEF ConversationInv, Talks
<1>1. Talks(c) BY DEF ConversationInv, Talks
<1>2. CASE QuietLoop BY <1>1, <1>2, LoopKeepsTalk, TalkKept
<1>3. CASE Shaken BY <1>3, ShakenTalk
<1>4. CASE RequestRead BY <1>4, RequestReadTalk
<1>5. ASSUME NEW j \in jobs, Answer(j) PROVE Talks(c)' BY <1>5, AnswerTalk
<1>6. ASSUME NEW d \in Client, Connect(d) \/ Ask(d) \/ Die(d) \/ Listen(d) PROVE Talks(c)'
  <2>1. CASE c # d BY <1>1, <1>6, <2>1, ClientsKeepTalk, TalkKept
  <2>2. CASE c = d
    BY <1>1, <1>6, <2>2, ConnectTalk, SayTalk, DieTalk, ReadTalk, UseHeaderTalk, UseBodyTalk
    DEF Listen
  <2>3. QED BY <2>1, <2>2
<1>7. CASE UNCHANGED vars
  <2>1. UNCHANGED <<conn, up, down, heard, lacks, turn, backlog, file, watched, cur, buf, jobs,
                    damage, inherited>>
    BY <1>7 DEF vars, streamVars, clientVars, epollVars, loopVars, ghostVars
  <2>2. Stream(c)' = Stream(c) BY <2>1, StreamKept
  <2>3. SameTalk(c)
    BY <2>1, <2>2 DEF SameTalk, SameClient, Alive, Greeted, Clean, Inbound, PendingFor, New
  <2>4. QED BY <1>1, <2>3, TalkKept
<1>8. QED BY <1>2, <1>3, <1>4, <1>5, <1>6, <1>7 DEF Next, Loop, QuietLoop

-----------------------------------------------------------------------------
(* Nothing that was sent waits without an event *)

Waits(f) == Clean(file[f]) /\ up[file[f]] # <<>> => f \in ready \/ Reports(f)

LEMMA EpollWaitWaits ==
  ASSUME LoopInv, NothingWaits, EpollWait PROVE NothingWaits'
<1> USE DEF LoopInv
<1>1. /\ UNCHANGED <<listening, file, watched, up, damage, inherited>>
      /\ pc = "wait" /\ pc' = "next" /\ batch' = {s \in ready : Readable(s)}
  BY EventFrame DEF EpollWait, In
<1>2. SUFFICES ASSUME listening, NEW f \in watched, Waits(f) PROVE Waits(f)'
  BY <1>1 DEF NothingWaits, Waits, Serving
<1>3. f # Listener /\ file[f] # NoClient
  BY LoopAssumption DEF TypeOK, EventsAreOfWatched
<1>4. ~Reports(f) BY <1>1 DEF LoopFollows, Reports
<1>5. f \in ready /\ up[file[f]] # <<>> => f \in batch' BY <1>1, <1>3 DEF Readable
<1>6. QED BY <1>1, <1>2, <1>4, <1>5 DEF Waits, Reports, Clean

\* the other quiet steps keep the events, or read
LEMMA QuietWaits ==
  ASSUME LoopInv, NothingWaits, QuietLoop \/ QuietOthers, ~EpollWait PROVE NothingWaits'
<1> USE DEF LoopInv
<1> SUFFICES ASSUME listening', Serving', NEW f \in watched', Clean(file[f])', up'[file'[f]] # <<>>
             PROVE  f \in ready' \/ Reports(f)'
  BY DEF NothingWaits
<1>1. f \in watched /\ file'[f] = file[f]
  BY LoopMovesEvents, OthersMoveEvents
<1>2. file[f] \in Client /\ f \in Fd /\ f # Listener
  BY <1>1, LoopAssumption DEF TypeOK, EventsAreOfWatched
<1>3. listening
  BY LoopFrame, OthersMoveEvents
<1>4. Serving
  <2>1. CASE QuietOthers BY <2>1, OthersMoveEvents DEF Serving
  <2>2. CASE QuietLoop
    BY <2>2
    DEF QuietLoop, EpollWait, BatchDone, Accept, AcceptFails, CloseReset, BeginRead, ServerReads,
        Spin, ShakeRefused, HeaderUnread, HeaderRead, In, Reading, Serving
  <2>3. QED BY <2>1, <2>2
<1>5. Clean(file[f])
  <2>1. CASE QuietLoop
    <3>1. UNCHANGED damage /\ inherited \subseteq inherited' BY <2>1, LoopFrame
    <3>2. QED BY <1>1, <3>1 DEF Clean
  <2>2. CASE QuietOthers
    <3>1. SameClient(file[f]) BY <1>2, <2>2, OthersKeepClients DEF QuietOthers
    <3>2. inherited' = inherited
      BY <2>2 DEF QuietOthers, Connect, ReadHeaderOf, UseHeader, ReadBodyOf, UseBody, Answer, ghostVars
    <3>3. QED BY <1>1, <3>1, <3>2 DEF Clean, SameClient
  <2>3. QED BY <2>1, <2>2
<1>6. up[file[f]] # <<>>
  <2>1. CASE ServerReads
    <3>1. PICK n \in 1..Len(up[Peer]) :
              up' = [up EXCEPT ![Peer] = SubSeq(up[Peer], n + 1, Len(up[Peer]))]
      BY <2>1, ServerReadsMoves
    <3>2. up[file[f]] # <<>> \/ file[f] # Peer
      <4>1. up[Peer] = <<>> => Len(up[Peer]) = 0 BY EmptySeq
      <4>2. up[Peer] # <<>> BY <3>1, <4>1
      <4>3. QED BY <4>2
    <3>3. QED BY <1>1, <1>2, <3>1, <3>2 DEF TypeOK
  <2>2. CASE QuietLoop /\ ~ServerReads
    <3>1. up' = up
      BY <2>2, EventFrame, AcceptTakes
      DEF QuietLoop, EpollWait, BatchDone, AcceptFails, CloseReset, BeginRead,
          Spin, ShakeRefused, HeaderUnread, HeaderRead
    <3>2. QED BY <1>1, <3>1
  <2>3. CASE QuietOthers
    <3>1. up' = up
      BY <2>3 DEF QuietOthers, Connect, ReadHeaderOf, UseHeader, ReadBodyOf, UseBody, Answer, streamVars
    <3>2. QED BY <1>1, <3>1
  <2>4. QED BY <2>1, <2>2, <2>3
<1>7. f \in ready \/ Reports(f) BY <1>1, <1>3, <1>4, <1>5, <1>6 DEF NothingWaits
<1>8. CASE QuietOthers BY <1>7, <1>8, OthersMoveEvents DEF Serving, Reports
<1>9. CASE BatchDone
  <2>1. ready' = ready /\ batch = {} /\ pc = "next" BY <1>9 DEF BatchDone, epollVars, In
  <2>2. QED BY <1>7, <2>1 DEF Reports
<1>10. CASE Accept
  <2>1. ready' = ready /\ batch' = batch \ {Listener} /\ pc = "next" BY <1>10, AcceptTakes
  <2>2. QED BY <1>2, <1>7, <2>1 DEF Reports
<1>11. CASE AcceptFails \/ Spin \/ ShakeRefused
  BY <1>11 DEF AcceptFails, Spin, ShakeRefused, CloseListener, Serving
<1>12. CASE CloseReset
  <2>1. PICK g : CloseFd(g) /\ batch' = batch \ {g} BY <1>12 DEF CloseReset
  <2>2. f # g /\ pc = "next" BY <1>12, <2>1 DEF CloseFd, CloseReset, In
  <2>3. QED BY <1>7, <2>1, <2>2 DEF CloseFd, Reports
<1>13. CASE BeginRead
  <2>1. PICK g \in watched :
           /\ g \in batch /\ batch' = batch \ {g} /\ cur' = g /\ pc = "next" /\ pc' = "header"
           /\ UNCHANGED <<file, watched, ready>>
    BY <1>13, BeginReadTakes
  <2>2. QED BY <1>7, <2>1 DEF Reports
<1>14. CASE ServerReads
  <2>1. UNCHANGED <<ready, batch, pc, cur>> BY <1>14, ServerReadsMoves
  <2>2. QED BY <1>7, <2>1 DEF Reports
<1>15. CASE HeaderUnread
  <2>1. batch' = batch /\ up[Peer] = <<>> BY <1>15 DEF HeaderUnread, ReadNothing, AtEnd
  <2>2. f # cur BY <1>6, <2>1 DEF Peer
  <2>3. f \in ready => f \in ready' BY <1>15, <2>2 DEF HeaderUnread, CloseFd
  <2>4. QED BY <1>7, <2>1, <2>2, <2>3 DEF Reports
<1>16. CASE HeaderRead
  <2>1. UNCHANGED <<ready, batch, cur>> /\ pc' = "payload"
    BY <1>16 DEF HeaderRead, epollVars, Serving
  <2>2. QED BY <1>7, <2>1 DEF Reports
<1>17. QED
  BY <1>8, <1>9, <1>10, <1>11, <1>12, <1>13, <1>14, <1>15, <1>16 DEF QuietLoop

LEMMA NextWaits ==
  LoopInv /\ ConversationInv /\ NothingWaits /\ [Next]_vars => NothingWaits'
<1> SUFFICES ASSUME LoopInv, ConversationInv, NothingWaits, [Next]_vars PROVE NothingWaits' OBVIOUS
<1>1. CASE EpollWait BY <1>1, EpollWaitWaits
<1>2. CASE ~EpollWait /\ (QuietLoop \/ QuietOthers) BY <1>2, QuietWaits
<1>3. ASSUME NEW c \in Client, SendShake(c) \/ Ask(c) \/ Die(c) PROVE NothingWaits'
  <2>1. /\ UNCHANGED <<file, watched, batch, cur, buf, pc, listening>> /\ Serving
        /\ \A f \in watched : file[f] = c => f \in ready'
        /\ \A f \in watched : file[f] # c => (f \in ready' <=> f \in ready)
        /\ \A d \in Client \ {c} : SameClient(d) /\ up'[d] = up[d]
    BY <1>3, SaysForItself
  <2>2. inherited' = inherited BY <1>3 DEF SendShake, Ask, Die, ghostVars
  <2> SUFFICES ASSUME listening, NEW f \in watched, Clean(file[f])', up'[file[f]] # <<>>,
                      file[f] # c
               PROVE  f \in ready' \/ Reports(f)'
    BY <2>1 DEF NothingWaits
  <2>3. file[f] \in Client \ {c} BY DEF LoopInv, TypeOK, EventsAreOfWatched
  <2>4. Clean(file[f]) /\ up[file[f]] # <<>> BY <2>1, <2>2, <2>3 DEF Clean, SameClient
  <2>5. f \in ready \/ Reports(f) BY <2>1, <2>4 DEF NothingWaits
  <2>6. QED BY <2>1, <2>5 DEF Reports
<1>4. CASE Shaken
  <2>1. /\ Busy /\ pc = "shake" /\ cur \notin watched
        /\ UNCHANGED <<up, listening, file, batch, cur, inherited, damage>>
        /\ watched' = watched \cup {cur}
        /\ ready' = IF up[Peer] # <<>> \/ ~Alive(Peer) THEN ready \cup {cur} ELSE ready
    BY <1>4, ShakenFrame
  <2> SUFFICES ASSUME listening, NEW f \in watched \cup {cur}, Clean(file[f]), up[file[f]] # <<>>
               PROVE  f \in ready' \/ Reports(f)'
    BY <2>1 DEF NothingWaits, Clean
  <2>2. CASE f = cur BY <2>1, <2>2 DEF Peer
  <2>3. CASE f # cur
    <3>1. f \in ready \/ Reports(f) BY <2>1, <2>3 DEF NothingWaits, Serving
    <3>2. QED BY <2>1, <3>1 DEF Reports
  <2>4. QED BY <2>2, <2>3
<1>5. CASE RequestRead
  <2>1. /\ Busy /\ pc = "payload"
        /\ UNCHANGED <<up, listening, file, watched, ready, batch, cur, inherited, damage>>
    BY <1>5, RequestReadFrame
  <2> SUFFICES ASSUME listening, NEW f \in watched, Clean(file[f]), up[file[f]] # <<>>
               PROVE  f \in ready' \/ Reports(f)'
    BY <2>1 DEF NothingWaits, Clean
  <2>2. PICK p \in Client : p = Peer BY <2>1, PeerIsClient
  <2>3. f # cur BY <1>5, <2>2, NothingBehind DEF Peer
  <2>4. f \in ready \/ Reports(f) BY <2>1 DEF NothingWaits, Serving
  <2>5. QED BY <2>1, <2>3, <2>4 DEF Reports
<1>6. CASE UNCHANGED vars
  BY <1>6 DEF vars, NothingWaits, streamVars, clientVars, epollVars, loopVars, ghostVars, Serving,
              Clean, Reports
<1>7. QED BY <1>1, <1>2, <1>3, <1>4, <1>5, <1>6 DEF Next, Loop, Listen, QuietLoop, QuietOthers

-----------------------------------------------------------------------------
(* Theorems *)

\* The invariant of the conversation: whole messages stay whole, each event has its message and
\* each message its event, one party of a conversation has the word, and the loop stops only
\* through its clients - for any number of clients, descriptors and requests, any width of
\* the length field and any number of deaths and of calls that move less than they could.
THEOREM Invariance == Spec => []IInv
<1>1. Init => IInv
  <2>1. Init => NothingWaits /\ LoopStopsOnlyByClients
    BY DEF Init, NothingWaits, LoopStopsOnlyByClients
  <2>2. QED BY <2>1, InitLoop, InitFraming, InitTalk DEF IInv
<1>2. IInv /\ [Next]_vars => IInv'
  BY NextLoop, NextFraming, NextTalk, NextWaits, NextStops DEF IInv
<1>3. QED BY <1>1, <1>2, PTL DEF Spec

\* The loop may sleep only when nothing is left to read.
THEOREM NothingIsForgotten == Spec => []NothingForgotten
<1>1. IInv => NothingForgotten
  <2> SUFFICES ASSUME IInv, pc = "wait", listening
               PROVE  /\ \A f \in watched :
                           up[file[f]] # <<>> =>
                             f \in ready \/ damage[file[f]] # {} \/ file[f] \in inherited
                      /\ backlog # <<>> => Listener \in ready \/ crowded
    BY DEF NothingForgotten, In
  <2>1. Serving /\ batch = {} BY DEF IInv, LoopInv, LoopFollows, Serving
  <2>2. \A f \in watched : ~Reports(f) BY <2>1 DEF Reports
  <2>3. \A f \in watched :
          up[file[f]] # <<>> => f \in ready \/ damage[file[f]] # {} \/ file[f] \in inherited
    BY <2>1, <2>2 DEF IInv, NothingWaits, Clean
  <2>4. ASSUME backlog # <<>>, Listener \notin ready, ~crowded PROVE FALSE
    <3>1. Len(backlog) <= 0 + 0 BY <2>1, <2>4 DEF IInv, LoopInv, BacklogHasEvents, Bit
    <3>2. Len(backlog) \in Nat /\ (backlog = <<>> <=> Len(backlog) = 0)
      BY BacklogLength DEF IInv, LoopInv
    <3>3. QED BY <2>4, <3>1, <3>2
  <2>5. QED BY <2>3, <2>4
<1>2. QED BY <1>1, Invariance, PTL

\* The thread that reads for everybody waits for nobody who lives and has said all it had to
\* say, and it dies or hangs only through a dead client, a torn request or a connection
\* beyond the last descriptor.
THEOREM LoopIsFree == Spec => []LoopIsHeldOnlyByClients
<1>1. IInv => LoopIsHeldOnlyByClients
  BY NobodyHolds DEF IInv, LoopIsHeldOnlyByClients
<1>2. QED BY <1>1, Invariance, PTL

\* A client whose streams are whole and whose descriptor was nobody's reads the answer to its
\* last request, from its start.
THEOREM AnswersGoHome == Spec => []AnswersAreOwn
<1>1. IInv => AnswersAreOwn
  <2> SUFFICES ASSUME IInv, NEW c \in Client, Clean(c), NEW i \in DOMAIN heard[c]
               PROVE  /\ heard[c][i][3] = c /\ heard[c][i][4] = turn[c]
                      /\ conn[c] = "body" <=> heard[c][i][1] = "p"
    BY DEF AnswersAreOwn, Clean
  <2> DEFINE h == heard[c]  t == down[c]  d == Inbound(c)  m == Len(h)  k == Len(t)
  <2>1. h \in Seq(Unit) /\ t \in Seq(Unit) /\ m \in Nat /\ k \in Nat /\ d \in Seq(Unit)
    BY StreamTypes, LenProperties DEF IInv, LoopInv
  <2>2. DOMAIN h = 1..m BY <2>1, LenProperties
  <2>3. Alive(c)
    <3>1. h = <<>> => FALSE BY <2>2
    <3>2. QED BY <3>1 DEF IInv, ConversationInv
  <2>4. Answering(c) BY <2>3 DEF IInv, ConversationInv
  <2>5. /\ Len(d) = m + k /\ \A x \in 1..(m + k) : d[x] = IF x <= m THEN h[x] ELSE t[x - m]
    BY <2>1, ConcatProperties DEF Inbound
  <2>6. i \in 1..m BY <2>2
  <2>7. /\ \A x \in DOMAIN d : d[x][3] = c /\ d[x][4] = turn[c]
        /\ conn[c] = "body" => \A x \in DOMAIN d : d[x][1] = "p"
        /\ conn[c] # "body" /\ d # <<>> => Framed(d) /\ m <= 2
    BY <2>4 DEF Answering
  <2> HIDE DEF h, t, d, m, k
  <2>8. DOMAIN d = 1..(m + k) BY <2>1, <2>5, LenProperties
  <2>9. i \in 1..(m + k) /\ d[i] = h[i] BY <2>1, <2>5, <2>6
  <2>10. d # <<>>
    <3>1. m + k # 0 BY <2>1, <2>9
    <3>2. QED BY <2>5, <3>1, EmptySeq
  <2>11. CASE conn[c] = "body" BY <2>7, <2>8, <2>9, <2>11 DEF h
  <2>12. CASE conn[c] # "body"
    <3>1. i = 1 \/ i = 2 BY <2>1, <2>6, <2>7, <2>10, <2>12
    <3>2. d[1][1] = "h" /\ d[2][1] = "l" BY <2>1, <2>7, <2>10, <2>12, FirstMessage
    <3>3. h[i][1] # "p" BY <2>9, <3>1, <3>2
    <3>4. QED BY <2>7, <2>8, <2>9, <2>12, <3>3 DEF h
  <2>13. QED BY <2>11, <2>12
<1>2. QED BY <1>1, Invariance, PTL

=============================================================================
