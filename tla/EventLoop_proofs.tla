--------------------------- MODULE EventLoop_proofs ---------------------------
(***************************************************************************)
(* Proofs about EventLoop: types, and what the loop has in its hands.      *)
(***************************************************************************)
EXTENDS EventLoop, SequenceTheorems, WellFoundedInduction, TLAPS

-----------------------------------------------------------------------------
(* Minima *)

LEMMA MinOfNats ==
  ASSUME NEW S \in SUBSET Nat, S # {}
  PROVE  Min(S) \in S
<1>1. \E x \in S : \A y \in S : ~(<<y, x>> \in OpToRel(<, Nat))
  BY NatLessThanWellFounded, WFMin
<1>2. PICK x \in S : \A y \in S : ~(<<y, x>> \in OpToRel(<, Nat)) BY <1>1
<1>3. \A y \in S : ~(y < x) BY <1>2 DEF OpToRel
<1>4. \A y \in S : x <= y BY <1>3
<1>5. QED BY <1>2, <1>4 DEF Min

LEMMA MinOfTwo ==
  ASSUME NEW a \in Int, NEW b \in Int
  PROVE  Min({a, b}) = IF a <= b THEN a ELSE b
<1>1. \E x \in {a, b} : \A y \in {a, b} : x <= y OBVIOUS
<1>2. Min({a, b}) \in {a, b} /\ \A y \in {a, b} : Min({a, b}) <= y BY <1>1 DEF Min
<1>3. QED BY <1>2
-----------------------------------------------------------------------------
(* Streams *)

\* what a call of recv takes and what it leaves
LEMMA TakeAndLeave ==
  ASSUME NEW U, NEW s \in Seq(U), NEW n \in 0..Len(s)
  PROVE  /\ SubSeq(s, 1, n) \in Seq(U) /\ Len(SubSeq(s, 1, n)) = n
         /\ SubSeq(s, n + 1, Len(s)) \in Seq(U) /\ Len(SubSeq(s, n + 1, Len(s))) = Len(s) - n
         /\ SubSeq(s, 1, n) \o SubSeq(s, n + 1, Len(s)) = s
         /\ \A i \in 1..n : SubSeq(s, 1, n)[i] = s[i]
<1> DEFINE m == Len(s)  a == SubSeq(s, 1, n)  b == SubSeq(s, n + 1, m)
<1>1. m \in Nat /\ n \in Nat /\ n <= m BY LenProperties
<1>2. \A i \in 1..m : s[i] \in U BY ElementOfSeq
<1>3. a \in Seq(U) /\ Len(a) = n /\ \A i \in 1..n : a[i] = s[i]
  <2>1. \A i \in 1..n : s[i] \in U BY <1>1, <1>2
  <2>2. /\ a \in Seq(U) /\ Len(a) = (IF 1 <= n THEN n - 1 + 1 ELSE 0)
        /\ \A i \in 1..(n - 1 + 1) : a[i] = s[1 + i - 1]
    BY <1>1, <2>1, SubSeqProperties
  <2> HIDE DEF a, m, b
  <2>3. QED BY <1>1, <2>2
<1>4. b \in Seq(U) /\ Len(b) = m - n
  <2>1. \A i \in (n + 1)..m : s[i] \in U BY <1>1, <1>2
  <2>2. b \in Seq(U) /\ Len(b) = (IF n + 1 <= m THEN m - (n + 1) + 1 ELSE 0)
    BY <1>1, <2>1, SubSeqProperties
  <2> HIDE DEF a, m, b
  <2>3. QED BY <1>1, <2>2
<1>5. a \o b = s
  <2>1. 1 \in 1..(m + 1) /\ n \in (1 - 1)..m /\ m \in n..m BY <1>1
  <2>2. a \o b = SubSeq(s, 1, m) BY <2>1, ConcatAdjacentSubSeq
  <2>3. QED BY <2>2, SubSeqFull
<1>6. QED BY <1>3, <1>4, <1>5

\* amounts that recv may move
LEMMA AmountsBound ==
  ASSUME NEW U, NEW s \in Seq(U), NEW want \in Nat, NEW n \in Amounts(s, want)
  PROVE  n \in 1..Len(s) /\ n <= want
<1>1. Len(s) \in Nat BY LenProperties
<1>2. Min({want, Len(s)}) = IF want <= Len(s) THEN want ELSE Len(s) BY <1>1, MinOfTwo
<1>3. QED BY <1>1, <1>2 DEF Amounts

\* a call that moves less than it could is one of the faults of the bound
LEMMA FaultsBound ==
  ASSUME NEW U, NEW s \in Seq(U), NEW want \in Nat, NEW n \in Amounts(s, want),
         CountTear(s, want, n), faults \in 0..MaxFaults
  PROVE  faults' \in 0..MaxFaults
<1>1. Len(s) \in Nat BY LenProperties
<1>2. Min({want, Len(s)}) = IF want <= Len(s) THEN want ELSE Len(s) BY <1>1, MinOfTwo
<1>3. QED BY <1>1, <1>2, LoopAssumption DEF Amounts, CountTear

LEMMA MessageShape ==
  ASSUME NEW c \in Client, NEW n \in 0..MaxRequests, NEW size \in Nat
  PROVE  /\ Message(c, n, size) \in Seq(Unit) /\ Len(Message(c, n, size)) = size + 2
         /\ Message(c, n, size)[1] = <<"h", Declared(size), c, n>>
         /\ Message(c, n, size)[2] = <<"l", 0, c, n>>
         /\ \A i \in 3..(size + 2) : Message(c, n, size)[i] = <<"p", 0, c, n>>
<1> DEFINE a == <<<<"h", Declared(size), c, n>>, <<"l", 0, c, n>>>>
           b == [i \in 1..size |-> <<"p", 0, c, n>>]
<1>1. Declared(size) \in 0..(Width - 1) /\ 0 \in 0..(Width - 1)
  BY LoopAssumption DEF Declared
<1>2. \A k \in Kinds, d \in 0..(Width - 1) : <<k, d, c, n>> \in Unit BY DEF Unit
<1>3. <<"h", Declared(size), c, n>> \in Unit /\ <<"l", 0, c, n>> \in Unit /\ <<"p", 0, c, n>> \in Unit
  BY <1>1, <1>2 DEF Kinds
<1>4. a \in Seq(Unit) /\ Len(a) = 2 BY <1>3
<1>5. b \in Seq(Unit) /\ Len(b) = size
  <2>1. b \in [1..size -> Unit] BY <1>3
  <2>2. QED BY <2>1, IsASeq, LenProperties
<1>6. Message(c, n, size) = a \o b BY DEF Message
<1>7. a[1] = <<"h", Declared(size), c, n>> /\ a[2] = <<"l", 0, c, n>> OBVIOUS
<1>8. \A i \in 1..size : b[i] = <<"p", 0, c, n>> OBVIOUS
<1> HIDE DEF a, b
<1>9. /\ a \o b \in Seq(Unit) /\ Len(a \o b) = 2 + size
      /\ \A i \in 1..(2 + size) : (a \o b)[i] = IF i <= 2 THEN a[i] ELSE b[i - 2]
  <2>1. /\ a \o b \in Seq(Unit) /\ Len(a \o b) = Len(a) + Len(b)
        /\ \A i \in 1..(Len(a) + Len(b)) :
             (a \o b)[i] = IF i <= Len(a) THEN a[i] ELSE b[i - Len(a)]
    BY <1>4, <1>5, ConcatProperties
  <2>2. QED BY <1>4, <1>5, <2>1
<1>10. ASSUME NEW i \in 3..(size + 2) PROVE (a \o b)[i] = <<"p", 0, c, n>>
  <2>1. i - 2 \in 1..size /\ i \in 1..(2 + size) /\ ~(i <= 2) OBVIOUS
  <2>2. QED BY <1>8, <1>9, <2>1
<1>11. (a \o b)[1] = a[1] /\ (a \o b)[2] = a[2] /\ 2 + size = size + 2 BY <1>9
<1>12. QED BY <1>6, <1>7, <1>9, <1>10, <1>11

LEMMA GarbageShape ==
  ASSUME NEW k \in Nat
  PROVE  Garbage(k) \in Seq(Unit) /\ Len(Garbage(k)) = k
<1>1. <<"g", 0, NoClient, 0>> \in Unit BY DEF Unit
<1>2. Garbage(k) \in [1..k -> Unit] BY <1>1 DEF Garbage
<1>3. QED BY <1>2, IsASeq, LenProperties

\* the fields of a unit
LEMMA UnitFields ==
  ASSUME NEW u \in Unit
  PROVE  /\ u[2] \in 0..(Width - 1) /\ u[4] \in 0..MaxRequests
         /\ u[1] # "g" => u[3] \in Client
<1>1. CASE u \in Kinds \X (0..(Width - 1)) \X Client \X (0..MaxRequests) BY <1>1
<1>2. CASE u \in {"g"} \X {0} \X {NoClient} \X {0}
  BY <1>2, LoopAssumption
<1>3. QED BY <1>1, <1>2 DEF Unit
-----------------------------------------------------------------------------
(* The loop and its descriptors *)

ClosedInv == BacklogIsNew /\ FilesAreApart /\ LoopFollows /\ EventsAreOfWatched /\ BacklogHasEvents

LEMMA InitLoop == Init => LoopInv
<1> SUFFICES ASSUME Init PROVE LoopInv OBVIOUS
<1>1. TypeOK
  <2>1. <<>> \in Seq(Unit) /\ <<>> \in Seq(Client) BY EmptySeq
  <2>2. 0 \in 0..MaxRequests /\ 0 \in 0..MaxFaults /\ 0 \in 0..(Width - 1)
    BY LoopAssumption
  <2>3. QED BY <2>1, <2>2 DEF Init, TypeOK, States
<1>2. BacklogIsNew BY DEF Init, BacklogIsNew
<1>3. FilesAreApart BY DEF Init, FilesAreApart
<1>4. LoopFollows BY DEF Init, LoopFollows, Busy
<1>5. EventsAreOfWatched BY DEF Init, EventsAreOfWatched
<1>6. BacklogHasEvents BY DEF Init, BacklogHasEvents, Bit
<1>7. QED BY <1>1, <1>2, <1>3, <1>4, <1>5, <1>6 DEF LoopInv

\* clients that go on, and workers that answer, take nothing from the loop
LEMMA OutsideKeepsLoop ==
  ASSUME TypeOK, TypeOK', ClosedInv,
         UNCHANGED <<backlog, listening, file, watched, batch, cur, buf, crowded>>,
         pc' = pc \/ pc' = "crashed",
         ready \subseteq ready', ready' \subseteq ready \cup watched,
         \A c \in Client : /\ conn[c] # "away" => conn'[c] # "away"
                           /\ conn[c] = "dead" => conn'[c] = "dead",
         reset' \subseteq reset \cup {c \in Client : conn'[c] = "dead"}
  PROVE  ClosedInv'
<1> USE DEF ClosedInv, TypeOK
<1>1. BacklogIsNew'
  <2>1. \A i \in DOMAIN backlog : backlog[i] \in Client BY ElementOfSeq, LenProperties
  <2>2. QED BY <2>1 DEF BacklogIsNew
<1>2. FilesAreApart' BY DEF FilesAreApart
<1>3. LoopFollows' BY DEF LoopFollows, Busy, Peer, Want, In, IsHeader
<1>4. EventsAreOfWatched' BY DEF EventsAreOfWatched, Alive
<1>5. BacklogHasEvents'
  <2>1. Listener \notin watched BY LoopAssumption
  <2>2. Listener \in ready' <=> Listener \in ready BY <2>1
  <2>3. QED BY <2>2 DEF BacklogHasEvents, Serving, Bit
<1>6. QED BY <1>1, <1>2, <1>3, <1>4, <1>5

\* the units of a stream that grows by a message
LEMMA StreamGrows ==
  ASSUME NEW s \in Seq(Unit), NEW t \in Seq(Unit) PROVE s \o t \in Seq(Unit)
BY ConcatProperties

LEMMA ConnectLoop ==
  ASSUME LoopInv, NEW c \in Client, Connect(c) PROVE LoopInv'
<1> USE DEF LoopInv
<1>1. /\ UNCHANGED <<up, down, heard, lacks, turn, listening, file, watched, batch, pc, cur, buf,
                     jobs, reset, sent, faults, damage, inherited>>
      /\ conn' = [conn EXCEPT ![c] = "syn"] /\ backlog' = Append(backlog, c)
      /\ ready' = ready \cup {Listener} /\ crowded' = (crowded \/ Listener \in ready)
      /\ conn[c] = "away" /\ listening
  BY DEF Connect, streamVars, loopVars, countVars
<1>2. backlog \in Seq(Client) /\ Len(backlog) \in Nat /\ DOMAIN backlog = 1..Len(backlog)
  BY LenProperties DEF TypeOK
<1>3. /\ backlog' \in Seq(Client) /\ Len(backlog') = Len(backlog) + 1
      /\ \A i \in 1..Len(backlog) : backlog'[i] = backlog[i]
      /\ backlog'[Len(backlog) + 1] = c /\ DOMAIN backlog' = 1..(Len(backlog) + 1)
  BY <1>1, <1>2, AppendProperties, LenProperties
<1>4. TypeOK' BY <1>1, <1>3 DEF TypeOK, States
<1>5. BacklogIsNew'
  <2>1. \A i \in 1..(Len(backlog) + 1) : i \in 1..Len(backlog) \/ i = Len(backlog) + 1
    BY <1>2
  <2>2. \A i \in 1..Len(backlog) : backlog[i] \in Client /\ backlog[i] # c
    BY <1>1, <1>2, ElementOfSeq DEF BacklogIsNew
  <2>3. \A f \in Fd : file[f] # c BY <1>1, LoopAssumption DEF FilesAreApart
  <2>4. \A i \in 1..Len(backlog) : conn'[backlog[i]] = conn[backlog[i]] BY <1>1, <2>2 DEF TypeOK
  <2>5. conn'[c] = "syn" BY <1>1 DEF TypeOK
  <2>6. \A i \in 1..(Len(backlog) + 1) :
          conn'[backlog'[i]] # "away" /\ \A f \in Fd : file'[f] # backlog'[i]
    BY <1>1, <1>2, <1>3, <2>1, <2>3, <2>4, <2>5 DEF BacklogIsNew
  <2>7. \A i, k \in 1..(Len(backlog) + 1) : backlog'[k] = backlog'[i] => k = i
    BY <1>2, <1>3, <2>1, <2>2 DEF BacklogIsNew
  <2>8. QED BY <1>3, <2>6, <2>7 DEF BacklogIsNew
<1>6. FilesAreApart' BY <1>1 DEF FilesAreApart, TypeOK
<1>7. LoopFollows' BY <1>1 DEF LoopFollows, Busy, Peer, Want, In, IsHeader
<1>8. EventsAreOfWatched' BY <1>1 DEF EventsAreOfWatched, Alive, TypeOK
<1>9. BacklogHasEvents'
  <2>1. Len(backlog') > 0 /\ backlog' # <<>> BY <1>2, <1>3, EmptySeq
  <2>2. ASSUME listening', Serving', ~crowded'
        PROVE  Len(backlog') <= Bit(Listener \in ready') + Bit(Listener \in batch')
    <3>1. listening /\ Serving /\ ~crowded /\ Listener \notin ready /\ Listener \in ready'
      BY <1>1, <2>2 DEF Serving
    <3>2. Len(backlog) <= 0 + Bit(Listener \in batch) BY <3>1 DEF BacklogHasEvents, Bit
    <3>3. Bit(Listener \in batch) \in Nat /\ Bit(Listener \in batch') = Bit(Listener \in batch)
      BY <1>1 DEF Bit
    <3>4. Bit(Listener \in ready') = 1 BY <3>1 DEF Bit
    <3>5. QED BY <1>2, <1>3, <3>2, <3>3, <3>4
  <2>3. QED BY <2>1, <2>2 DEF BacklogHasEvents
<1>10. QED BY <1>4, <1>5, <1>6, <1>7, <1>8, <1>9

\* the clients' steps keep the types
LEMMA SendShakeTypes ==
  ASSUME TypeOK, NEW c \in Client, SendShake(c) PROVE TypeOK'
<1>1. Handshake(c) \in Seq(Unit)
  BY MessageShape, LoopAssumption DEF Handshake
<1>2. up[c] \o Handshake(c) \in Seq(Unit) BY <1>1, StreamGrows DEF TypeOK
<1>3. up' \in [Client -> Seq(Unit)] BY <1>2 DEF SendShake, TypeOK
<1>4. ready' \subseteq Fd \cup {Listener} BY DEF SendShake, Notify, FdsOf, TypeOK
<1>5. QED
  BY <1>3, <1>4 DEF SendShake, TypeOK, States, loopVars, countVars, ghostVars

LEMMA AskTypes ==
  ASSUME TypeOK, NEW c \in Client, Ask(c) PROVE TypeOK'
<1>1. sent' \in 0..MaxRequests /\ sent' = sent + 1 /\ turn' \in [Client -> 0..MaxRequests]
  BY LoopAssumption DEF Ask, TypeOK
<1>2. PICK size \in RequestSizes :
        LET m == Message(c, sent + 1, size) IN
        \/ up' = [up EXCEPT ![c] = @ \o m] /\ UNCHANGED <<faults, damage>>
        \/ \E part \in 1..(Len(m) - 1) :
             /\ faults < MaxFaults /\ faults' = faults + 1
             /\ up' = [up EXCEPT ![c] = @ \o m \o Garbage(part)]
             /\ damage' = [damage EXCEPT ![c] = @ \cup {"send"}]
  BY DEF Ask
<1> DEFINE m == Message(c, sent + 1, size)
<1>3. m \in Seq(Unit) /\ Len(m) \in Nat BY <1>1, MessageShape, LoopAssumption
<1>4. up[c] \o m \in Seq(Unit) BY <1>3, StreamGrows DEF TypeOK
<1>5. /\ up' \in [Client -> Seq(Unit)] /\ faults' \in 0..MaxFaults
      /\ damage' \in [Client -> SUBSET {"send", "recv", "wrap"}]
  <2>1. CASE up' = [up EXCEPT ![c] = @ \o m] /\ UNCHANGED <<faults, damage>>
    BY <1>4, <2>1 DEF TypeOK
  <2>2. ASSUME NEW part \in 1..(Len(m) - 1),
               faults < MaxFaults /\ faults' = faults + 1,
               up' = [up EXCEPT ![c] = @ \o m \o Garbage(part)],
               damage' = [damage EXCEPT ![c] = @ \cup {"send"}]
        PROVE  /\ up' \in [Client -> Seq(Unit)] /\ faults' \in 0..MaxFaults
               /\ damage' \in [Client -> SUBSET {"send", "recv", "wrap"}]
    <3>1. part \in Nat BY <1>3
    <3>2. Garbage(part) \in Seq(Unit) BY <3>1, GarbageShape
    <3>3. up[c] \o m \o Garbage(part) \in Seq(Unit) BY <1>4, <3>2, StreamGrows
    <3>4. up' \in [Client -> Seq(Unit)] BY <2>2, <3>3 DEF TypeOK
    <3>5. faults' \in 0..MaxFaults
      <4>1. faults \in 0..MaxFaults /\ MaxFaults \in Nat BY LoopAssumption DEF TypeOK
      <4>2. QED BY <2>2, <4>1
    <3>6. damage' \in [Client -> SUBSET {"send", "recv", "wrap"}] BY <2>2 DEF TypeOK
    <3>7. QED BY <3>4, <3>5, <3>6
  <2>3. QED BY <1>2, <2>1, <2>2
<1>6. ready' \subseteq Fd \cup {Listener} BY DEF Ask, Notify, FdsOf, TypeOK
<1>7. QED BY <1>1, <1>5, <1>6 DEF Ask, TypeOK, States, loopVars

LEMMA DieTypes ==
  ASSUME TypeOK, NEW c \in Client, Die(c) PROVE TypeOK'
<1>1. PICK n \in 0..Len(up[c]) : up' = [up EXCEPT ![c] = SubSeq(@, 1, n)] BY DEF Die
<1>2. SubSeq(up[c], 1, n) \in Seq(Unit) BY TakeAndLeave DEF TypeOK
<1>3. <<>> \in Seq(Unit) BY EmptySeq
<1>4. /\ up' \in [Client -> Seq(Unit)] /\ down' \in [Client -> Seq(Unit)]
      /\ heard' \in [Client -> Seq(Unit)]
  BY <1>1, <1>2, <1>3 DEF Die, TypeOK
<1>5. ready' \subseteq Fd \cup {Listener} BY DEF Die, Notify, FdsOf, TypeOK
<1>6. faults' \in 0..MaxFaults BY LoopAssumption DEF Die, TypeOK
<1>7. reset' \subseteq Client BY DEF Die, TypeOK
<1>8. QED BY <1>4, <1>5, <1>6, <1>7 DEF Die, TypeOK, States, loopVars, ghostVars

\* what a read of a client moves
LEMMA ClientReadsMoves ==
  ASSUME TypeOK, NEW c \in Client, NEW want \in Nat, ClientReads(c, want)
  PROVE  \E n \in 1..Len(down[c]) :
           /\ n <= want /\ Len(heard[c]) < want
           /\ heard' = [heard EXCEPT ![c] = @ \o SubSeq(down[c], 1, n)]
           /\ down' = [down EXCEPT ![c] = SubSeq(@, n + 1, Len(@))]
           /\ damage' = [damage EXCEPT ![c] = IF Len(heard[c]) + n > want THEN @ \cup {"recv"} ELSE @]
           /\ faults' \in 0..MaxFaults
<1>1. PICK n \in Amounts(down[c], want) :
        /\ heard' = [heard EXCEPT ![c] = @ \o SubSeq(down[c], 1, n)]
        /\ down' = [down EXCEPT ![c] = SubSeq(@, n + 1, Len(@))]
        /\ CountTear(down[c], want, n)
        /\ damage' = [damage EXCEPT ![c] = IF Len(heard[c]) + n > want THEN @ \cup {"recv"} ELSE @]
  BY DEF ClientReads
<1>2. down[c] \in Seq(Unit) /\ faults \in 0..MaxFaults BY DEF TypeOK
<1>3. n \in 1..Len(down[c]) /\ n <= want BY <1>2, AmountsBound
<1>4. faults' \in 0..MaxFaults BY <1>1, <1>2, FaultsBound
<1>5. QED BY <1>1, <1>3, <1>4 DEF ClientReads

LEMMA ClientReadsTypes ==
  ASSUME TypeOK, NEW c \in Client, NEW want \in Nat, ClientReads(c, want),
         UNCHANGED <<up, conn, lacks, turn, epollVars, loopVars, jobs, reset, sent, crowded,
                     inherited>>
  PROVE  TypeOK'
<1>1. PICK n \in 1..Len(down[c]) :
           /\ heard' = [heard EXCEPT ![c] = @ \o SubSeq(down[c], 1, n)]
           /\ down' = [down EXCEPT ![c] = SubSeq(@, n + 1, Len(@))]
           /\ damage' = [damage EXCEPT ![c] = IF Len(heard[c]) + n > want THEN @ \cup {"recv"} ELSE @]
           /\ faults' \in 0..MaxFaults
  BY ClientReadsMoves
<1>2. down[c] \in Seq(Unit) /\ Len(down[c]) \in Nat /\ heard[c] \in Seq(Unit)
  BY LenProperties DEF TypeOK
<1>3. n \in 0..Len(down[c]) BY <1>2
<1>4. /\ SubSeq(down[c], 1, n) \in Seq(Unit)
      /\ SubSeq(down[c], n + 1, Len(down[c])) \in Seq(Unit)
  BY <1>2, <1>3, TakeAndLeave
<1>5. heard[c] \o SubSeq(down[c], 1, n) \in Seq(Unit) BY <1>2, <1>4, StreamGrows
<1>6. heard' \in [Client -> Seq(Unit)] /\ down' \in [Client -> Seq(Unit)]
  BY <1>1, <1>4, <1>5 DEF TypeOK
<1>7. damage' \in [Client -> SUBSET {"send", "recv", "wrap"}] BY <1>1 DEF TypeOK
<1>8. QED BY <1>1, <1>6, <1>7 DEF TypeOK, epollVars, loopVars

LEMMA ListenTypes ==
  ASSUME TypeOK, NEW c \in Client, Listen(c) PROVE TypeOK'
<1>1. CASE SendShake(c) BY <1>1, SendShakeTypes
<1>2. CASE ReadHeaderOf(c)
  <2>1. 2 \in Nat OBVIOUS
  <2>2. QED BY <1>2, <2>1, ClientReadsTypes DEF ReadHeaderOf
<1>3. CASE ReadBodyOf(c)
  <2>1. lacks[c] \in Nat BY LoopAssumption DEF TypeOK
  <2>2. QED BY <1>3, <2>1, ClientReadsTypes DEF ReadBodyOf
<1>4. CASE UseHeader(c)
  <2>1. heard[c] \in Seq(Unit) /\ Len(heard[c]) >= 2 /\ Len(heard[c]) \in Nat
    BY <1>4, LenProperties DEF UseHeader, TypeOK
  <2>2. heard[c][1] \in Unit
    <3>1. 1 \in 1..Len(heard[c]) BY <2>1
    <3>2. QED BY <2>1, <3>1, ElementOfSeq
  <2>3. heard[c][1][2] \in 0..(Width - 1) /\ 0 \in 0..(Width - 1)
    BY <2>2, UnitFields, LoopAssumption
  <2>4. lacks' \in [Client -> 0..(Width - 1)] BY <1>4, <2>3 DEF UseHeader, TypeOK
  <2>5. heard' \in [Client -> Seq(Unit)] BY <1>4, EmptySeq DEF UseHeader, TypeOK
  <2>6. conn' \in [Client -> States] BY <1>4 DEF UseHeader, TypeOK, States
  <2>7. QED
    BY <1>4, <2>4, <2>5, <2>6
    DEF UseHeader, TypeOK, streamVars, epollVars, loopVars, countVars, ghostVars
<1>5. CASE UseBody(c)
  <2>1. heard' \in [Client -> Seq(Unit)] BY <1>5, EmptySeq DEF UseBody, TypeOK
  <2>2. lacks' \in [Client -> 0..(Width - 1)] BY <1>5, LoopAssumption DEF UseBody, TypeOK
  <2>3. conn' \in [Client -> States] BY <1>5 DEF UseBody, TypeOK, States
  <2>4. QED
    BY <1>5, <2>1, <2>2, <2>3
    DEF UseBody, TypeOK, streamVars, epollVars, loopVars, countVars, ghostVars
<1>6. QED BY <1>1, <1>2, <1>3, <1>4, <1>5 DEF Listen

LEMMA AnswerTypes ==
  ASSUME TypeOK, NEW j \in jobs, Answer(j) PROVE TypeOK'
<1> DEFINE c == file[j.fd]
<1>1. j.fd \in Fd /\ j.by \in Client /\ j.turn \in 0..MaxRequests BY DEF TypeOK
<1>2. c \in Client \cup {NoClient} BY <1>1 DEF TypeOK
<1>3. PICK size \in AnswerSizes :
         IF c = NoClient THEN UNCHANGED <<down, reset, pc, damage>>
         ELSE /\ Deliver(c, Message(j.by, j.turn, size))
              /\ damage' = [damage EXCEPT ![c] =
                              IF Alive(c) /\ size >= Width THEN @ \cup {"wrap"} ELSE @]
  BY <1>1 DEF Answer, AnswerFd
<1>4. Message(j.by, j.turn, size) \in Seq(Unit) BY <1>1, MessageShape, LoopAssumption
<1>5. /\ down' \in [Client -> Seq(Unit)] /\ reset' \subseteq Client
      /\ pc' \in {"wait", "next", "shake", "header", "payload", "stuck", "crashed"}
      /\ damage' \in [Client -> SUBSET {"send", "recv", "wrap"}]
  <2>1. CASE c = NoClient BY <1>3, <2>1 DEF TypeOK
  <2>2. CASE c # NoClient
    <3>1. down[c] \o Message(j.by, j.turn, size) \in Seq(Unit)
      BY <1>2, <1>4, <2>2, StreamGrows DEF TypeOK
    <3>2. down' \in [Client -> Seq(Unit)] BY <1>2, <1>3, <2>2, <3>1 DEF Deliver, TypeOK
    <3>3. reset' \subseteq Client BY <1>2, <1>3, <2>2 DEF Deliver, TypeOK
    <3>4. pc' = pc \/ pc' = "crashed" BY <1>3, <2>2 DEF Deliver
    <3>5. pc' \in {"wait", "next", "shake", "header", "payload", "stuck", "crashed"}
      BY <3>4 DEF TypeOK
    <3>6. damage' = [damage EXCEPT ![c] =
                        IF Alive(c) /\ size >= Width THEN @ \cup {"wrap"} ELSE @]
      BY <1>3, <2>2
    <3>7. damage' \in [Client -> SUBSET {"send", "recv", "wrap"}] BY <3>6 DEF TypeOK
    <3>8. QED BY <3>2, <3>3, <3>5, <3>7
  <2>3. QED BY <2>1, <2>2
<1>6. jobs' \subseteq [fd : Fd, by : Client, turn : 0..MaxRequests] BY DEF Answer, TypeOK
<1>7. QED BY <1>5, <1>6 DEF Answer, TypeOK, clientVars, epollVars, countVars

-----------------------------------------------------------------------------
(* Clients and workers keep the loop's part *)

LEMMA OutsideLoop ==
  ASSUME LoopInv,
         (\E c \in Client : Ask(c) \/ Die(c) \/ Listen(c)) \/ (\E j \in jobs : Answer(j))
  PROVE  LoopInv'
<1> USE DEF LoopInv
<1>1. TypeOK' BY AskTypes, DieTypes, ListenTypes, AnswerTypes
<1>2. ASSUME NEW c \in Client, Ask(c) \/ Die(c) \/ Listen(c)
      PROVE  /\ UNCHANGED <<backlog, listening, file, watched, batch, cur, buf, crowded, pc>>
             /\ ready \subseteq ready' /\ ready' \subseteq ready \cup watched
             /\ \A d \in Client : /\ conn[d] # "away" => conn'[d] # "away"
                                  /\ conn[d] = "dead" => conn'[d] = "dead"
             /\ reset' \subseteq reset \cup {d \in Client : conn'[d] = "dead"}
  <2>1. /\ UNCHANGED <<backlog, listening, file, watched, batch, cur, buf, crowded, pc>>
        /\ ready' = ready \/ ready' = ready \cup FdsOf(c)
        /\ UNCHANGED conn \/
             \E s \in States \ {"away"} : conn' = [conn EXCEPT ![c] = s] /\ conn[c] # "dead"
        /\ reset' = reset \/ (reset' = reset \cup {c} /\ conn'[c] = "dead")
    <3>1. CASE Ask(c) BY <1>2, <3>1 DEF Ask, Askers, Notify, loopVars, States
    <3>2. CASE Die(c) BY <1>2, <3>2 DEF Die, Notify, loopVars, States, ghostVars, TypeOK
    <3>3. CASE SendShake(c) BY <3>3 DEF SendShake, Notify, loopVars, States, ghostVars
    <3>4. CASE ReadHeaderOf(c) BY <3>4 DEF ReadHeaderOf, loopVars, epollVars
    <3>5. CASE ReadBodyOf(c) BY <3>5 DEF ReadBodyOf, loopVars, epollVars
    <3>6. CASE UseHeader(c) BY <3>6 DEF UseHeader, loopVars, epollVars, States, ghostVars
    <3>7. CASE UseBody(c) BY <3>7 DEF UseBody, loopVars, epollVars, States, ghostVars
    <3>8. QED BY <1>2, <3>1, <3>2, <3>3, <3>4, <3>5, <3>6, <3>7 DEF Listen
  <2>2. FdsOf(c) \subseteq watched BY DEF FdsOf
  <2>3. \A d \in Client : /\ conn[d] # "away" => conn'[d] # "away"
                          /\ conn[d] = "dead" => conn'[d] = "dead"
    BY <2>1 DEF TypeOK
  <2>4. QED BY <2>1, <2>2, <2>3
<1>3. ASSUME NEW j \in jobs, Answer(j)
      PROVE  /\ UNCHANGED <<backlog, listening, file, watched, batch, cur, buf, crowded, ready, conn>>
             /\ pc' = pc \/ pc' = "crashed"
             /\ reset' \subseteq reset \cup {d \in Client : conn'[d] = "dead"}
  <2>1. UNCHANGED <<backlog, listening, file, watched, batch, cur, buf, crowded, ready, conn>>
    BY <1>3 DEF Answer, epollVars, clientVars
  <2>2. j.fd \in Fd BY DEF TypeOK
  <2>3. \/ UNCHANGED <<reset, pc>>
        \/ \E size \in AnswerSizes : file[j.fd] # NoClient /\ Deliver(file[j.fd], Message(j.by, j.turn, size))
    BY <1>3, <2>2 DEF Answer, AnswerFd
  <2>4. file[j.fd] # NoClient => file[j.fd] \in Client BY <2>2 DEF TypeOK
  <2>5. QED BY <2>1, <2>3, <2>4 DEF Deliver, Alive
<1>4. ClosedInv BY DEF ClosedInv
<1>5. ClosedInv'
  <2>1. CASE \E c \in Client : Ask(c) \/ Die(c) \/ Listen(c)
    BY <1>1, <1>2, <1>4, <2>1, OutsideKeepsLoop
  <2>2. CASE \E j \in jobs : Answer(j)
    BY <1>1, <1>3, <1>4, <2>2, OutsideKeepsLoop
  <2>3. QED BY <2>1, <2>2
<1>6. QED BY <1>1, <1>5 DEF ClosedInv

-----------------------------------------------------------------------------
(* The steps of the loop *)

\* the event steps of the loop change none of the rest
LEMMA EventFrame ==
  ASSUME UNCHANGED UntouchedByEvent
  PROVE  UNCHANGED <<up, down, conn, heard, lacks, turn, jobs, sent, damage, reset, faults, crowded>>
BY DEF UntouchedByEvent, UntouchedByLoop, streamVars, clientVars

LEMMA BacklogLength ==
  ASSUME TypeOK
  PROVE  /\ Len(backlog) \in Nat /\ DOMAIN backlog = 1..Len(backlog)
         /\ backlog = <<>> <=> Len(backlog) = 0
         /\ \A i \in DOMAIN backlog : backlog[i] \in Client
BY LenProperties, ElementOfSeq, EmptySeq DEF TypeOK

LEMMA EpollWaitLoop ==
  ASSUME LoopInv, EpollWait PROVE LoopInv'
<1> USE DEF LoopInv
<1>1. /\ UNCHANGED <<backlog, listening, file, watched, cur, buf, inherited, up, down, conn, heard,
                     lacks, turn, jobs, sent, damage, reset, faults, crowded>>
      /\ pc = "wait" /\ pc' = "next" /\ ready' = {} /\ batch' = {s \in ready : Readable(s)}
  BY EventFrame DEF EpollWait, In
<1>2. TypeOK' BY <1>1 DEF TypeOK
<1>3. BacklogIsNew' BY <1>1 DEF BacklogIsNew
<1>4. FilesAreApart' BY <1>1 DEF FilesAreApart
<1>5. LoopFollows' BY <1>1 DEF LoopFollows, Busy
<1>6. EventsAreOfWatched' BY <1>1 DEF EventsAreOfWatched, Alive
<1>7. BacklogHasEvents'
  <2>1. Listener \in batch' <=> Listener \in ready /\ backlog # <<>>
    BY <1>1 DEF Readable
  <2>2. Listener \notin batch BY <1>1 DEF LoopFollows
  <2>3. ASSUME listening', Serving', ~crowded'
        PROVE  Len(backlog') <= Bit(Listener \in ready') + Bit(Listener \in batch')
    <3>1. Len(backlog) <= Bit(Listener \in ready) + 0
      BY <1>1, <2>2, <2>3 DEF BacklogHasEvents, Serving, Bit
    <3>2. CASE backlog = <<>> BY <1>1, <3>2, BacklogLength DEF Bit
    <3>3. CASE backlog # <<>> BY <1>1, <2>1, <3>1, <3>3 DEF Bit
    <3>4. QED BY <3>2, <3>3
  <2>4. QED BY <1>1, <2>1, <2>3 DEF BacklogHasEvents
<1>8. QED BY <1>2, <1>3, <1>4, <1>5, <1>6, <1>7

LEMMA BatchDoneLoop ==
  ASSUME LoopInv, BatchDone PROVE LoopInv'
<1> USE DEF LoopInv
<1>1. /\ UNCHANGED <<backlog, listening, file, watched, ready, batch, cur, buf, inherited, up, down,
                     conn, heard, lacks, turn, jobs, sent, damage, reset, faults, crowded>>
      /\ pc = "next" /\ pc' = "wait" /\ batch = {}
  BY EventFrame DEF BatchDone, In, epollVars
<1>2. TypeOK' BY <1>1 DEF TypeOK
<1>3. BacklogIsNew' BY <1>1 DEF BacklogIsNew
<1>4. FilesAreApart' BY <1>1 DEF FilesAreApart
<1>5. LoopFollows' BY <1>1 DEF LoopFollows, Busy
<1>6. EventsAreOfWatched' BY <1>1 DEF EventsAreOfWatched, Alive
<1>7. BacklogHasEvents' BY <1>1 DEF BacklogHasEvents, Serving
<1>8. QED BY <1>2, <1>3, <1>4, <1>5, <1>6, <1>7

\* the connection that accept takes gets a descriptor that nobody has
LEMMA AcceptTakes ==
  ASSUME LoopInv, Accept
  PROVE  \E f \in Fd, c \in Client :
           /\ file[f] = NoClient /\ f \notin watched /\ backlog # <<>> /\ c = Head(backlog)
           /\ c = backlog[1] /\ \A g \in Fd : file[g] # c
           /\ backlog' = Tail(backlog) /\ file' = [file EXCEPT ![f] = c]
           /\ inherited' = IF \E j \in jobs : j.fd = f THEN inherited \cup {c} ELSE inherited
           /\ pc = "next" /\ pc' = "shake" /\ cur' = f /\ buf' = <<>>
           /\ Listener \in batch /\ batch' = batch \ {Listener}
           /\ UNCHANGED <<listening, watched, ready, up, down, conn, heard, lacks, turn, jobs, sent,
                          damage, reset, faults, crowded>>
<1> USE DEF LoopInv
<1> DEFINE free == {f \in Fd : file[f] = NoClient}  f == Min(free)
<1>1. free # {} /\ Listener \in batch BY DEF Accept
<1>2. f \in free
  <2>1. free \in SUBSET Nat BY LoopAssumption
  <2> HIDE DEF free
  <2>2. QED BY <1>1, <2>1, MinOfNats
<1>3. backlog # <<>> BY <1>1 DEF BacklogHasEvents
<1>4. Head(backlog) = backlog[1] /\ 1 \in DOMAIN backlog BY <1>3, BacklogLength
<1>5. Head(backlog) \in Client BY <1>4, BacklogLength
<1>6. \A g \in Fd : file[g] # backlog[1] BY <1>4 DEF BacklogIsNew
<1>7. f \notin watched BY <1>2 DEF EventsAreOfWatched
<1>8. f \in Fd /\ file[f] = NoClient BY <1>2
<1>9. /\ backlog' = Tail(backlog) /\ file' = [file EXCEPT ![f] = Head(backlog)]
      /\ inherited' = IF \E j \in jobs : j.fd = f THEN inherited \cup {Head(backlog)} ELSE inherited
      /\ pc = "next" /\ pc' = "shake" /\ cur' = f /\ buf' = <<>>
      /\ batch' = batch \ {Listener} /\ UNCHANGED <<listening, watched, ready, UntouchedByEvent>>
  BY DEF Accept, In
<1> HIDE DEF f
<1>10. QED BY <1>1, <1>3, <1>4, <1>5, <1>6, <1>7, <1>8, <1>9, EventFrame

LEMMA AcceptLoop ==
  ASSUME LoopInv, Accept PROVE LoopInv'
<1> USE DEF LoopInv
<1>1. PICK f \in Fd, c \in Client :
           /\ file[f] = NoClient /\ f \notin watched /\ backlog # <<>> /\ c = Head(backlog)
           /\ c = backlog[1] /\ \A g \in Fd : file[g] # c
           /\ backlog' = Tail(backlog) /\ file' = [file EXCEPT ![f] = c]
           /\ inherited' = IF \E j \in jobs : j.fd = f THEN inherited \cup {c} ELSE inherited
           /\ pc = "next" /\ pc' = "shake" /\ cur' = f /\ buf' = <<>>
           /\ Listener \in batch /\ batch' = batch \ {Listener}
           /\ UNCHANGED <<listening, watched, ready, up, down, conn, heard, lacks, turn, jobs, sent,
                          damage, reset, faults, crowded>>
  BY AcceptTakes
<1>2. /\ backlog' \in Seq(Client) /\ Len(backlog') = Len(backlog) - 1
      /\ \A i \in 1..(Len(backlog) - 1) : backlog'[i] = backlog[i + 1]
      /\ DOMAIN backlog' = 1..(Len(backlog) - 1)
  <2>1. backlog \in Seq(Client) BY DEF TypeOK
  <2>2. QED BY <1>1, <2>1, HeadTailProperties, LenProperties
<1>3. /\ \A i \in 1..(Len(backlog) - 1) : i + 1 \in DOMAIN backlog /\ i + 1 # 1
      /\ 1 \in DOMAIN backlog
      /\ \A i, k \in 1..(Len(backlog) - 1) : i + 1 = k + 1 => i = k
  BY <1>1, BacklogLength
<1>4. TypeOK'
  <2>1. <<>> \in Seq(Unit) BY EmptySeq
  <2>2. QED BY <1>1, <1>2, <2>1 DEF TypeOK
<1>5. BacklogIsNew'
  <2>1. \A i \in 1..(Len(backlog) - 1) : backlog[i + 1] # c BY <1>1, <1>3 DEF BacklogIsNew
  <2>2. \A g \in Fd : file'[g] = file[g] \/ file'[g] = c BY <1>1 DEF TypeOK
  <2>3. \A i \in 1..(Len(backlog) - 1) :
          conn'[backlog'[i]] # "away" /\ \A g \in Fd : file'[g] # backlog'[i]
    BY <1>1, <1>2, <1>3, <2>1, <2>2 DEF BacklogIsNew
  <2>4. \A i, k \in 1..(Len(backlog) - 1) : backlog'[k] = backlog'[i] => k = i
    BY <1>2, <1>3 DEF BacklogIsNew
  <2>5. QED BY <1>2, <2>3, <2>4 DEF BacklogIsNew
<1>6. FilesAreApart'
  <2>1. conn[c] # "away" BY <1>1, <1>3 DEF BacklogIsNew
  <2>2. QED BY <1>1, <2>1 DEF FilesAreApart, TypeOK
<1>7. LoopFollows'
  <2>1. f \notin batch' BY <1>1, LoopAssumption DEF EventsAreOfWatched
  <2>2. file'[f] = c /\ c # NoClient BY <1>1, LoopAssumption DEF TypeOK
  <2>3. Len(buf') = 0 BY <1>1
  <2>4. QED BY <1>1, <2>1, <2>2, <2>3 DEF LoopFollows, Busy, Peer, Want, In
<1>8. EventsAreOfWatched'
  <2>1. \A g \in watched : file'[g] = file[g] BY <1>1 DEF TypeOK
  <2>2. QED BY <1>1, <2>1 DEF EventsAreOfWatched, Alive
<1>9. BacklogHasEvents'
  <2>1. ASSUME listening', Serving', ~crowded'
        PROVE  Len(backlog') <= Bit(Listener \in ready') + Bit(Listener \in batch')
    <3>1. Len(backlog) <= Bit(Listener \in ready) + 1
      BY <1>1, <2>1 DEF BacklogHasEvents, Serving, Bit
    <3>2. QED BY <1>1, <1>2, <3>1, BacklogLength DEF Bit
  <2>2. QED BY <1>1, <2>1 DEF BacklogHasEvents
<1>10. QED BY <1>4, <1>5, <1>6, <1>7, <1>8, <1>9

\* the loop gives the listener up, or dies for want of a descriptor
LEMMA ListenerLostLoop ==
  ASSUME LoopInv, AcceptFails \/ ShakeRefused PROVE LoopInv'
<1> USE DEF LoopInv
<1>1. /\ UNCHANGED <<backlog, file, watched, cur, buf, inherited, up, down,
                     conn, heard, lacks, turn, jobs, sent, damage, reset, faults, crowded>>
      /\ \/ listening' = FALSE /\ ready' = ready \ {Listener} /\ batch' = {} /\ pc' = "wait"
         \/ pc' = "crashed" /\ UNCHANGED <<listening, ready, batch>>
  BY EventFrame DEF AcceptFails, ShakeRefused, CloseListener
<1>2. buf \in Seq(Unit) BY DEF TypeOK
<1>3. pc' = "wait" => buf = <<>>
  <2>1. CASE AcceptFails BY <2>1 DEF AcceptFails, In, LoopFollows
  <2>2. CASE ShakeRefused
    <3>1. Len(buf) = 0 BY <2>2 DEF ShakeRefused, ReadNothing, Used, In
    <3>2. QED BY <1>2, <3>1, EmptySeq
  <2>3. QED BY <2>1, <2>2
<1>4. TypeOK' BY <1>1 DEF TypeOK
<1>5. BacklogIsNew' BY <1>1 DEF BacklogIsNew
<1>6. FilesAreApart' BY <1>1 DEF FilesAreApart
<1>7. LoopFollows' BY <1>1, <1>3 DEF LoopFollows, Busy
<1>8. EventsAreOfWatched' BY <1>1 DEF EventsAreOfWatched, Alive
<1>9. BacklogHasEvents' BY <1>1 DEF BacklogHasEvents, Serving
<1>10. QED BY <1>4, <1>5, <1>6, <1>7, <1>8, <1>9

\* a descriptor is closed
LEMMA CloseFdLoop ==
  ASSUME LoopInv, CloseReset \/ HeaderUnread PROVE LoopInv'
<1> USE DEF LoopInv
<1>1. PICK f \in Fd :
        /\ UNCHANGED <<backlog, listening, cur, buf, inherited, up, down,
                       conn, heard, lacks, turn, jobs, sent, damage, reset, faults, crowded>>
        /\ pc' = "next" /\ batch' = batch \ {f} /\ buf = <<>> /\ Serving
        /\ CloseFd(f) \/ UNCHANGED <<file, watched, ready>>
  <2>1. CASE CloseReset
    <3>1. batch \ {Listener} \subseteq Fd BY DEF TypeOK
    <3>2. QED
      BY <2>1, <3>1, EventFrame DEF CloseReset, In, loopVars, LoopFollows, Serving
  <2>2. CASE HeaderUnread
    <3>1. cur \in Fd /\ cur \notin batch /\ batch' = batch /\ pc = "header"
      BY <2>2 DEF HeaderUnread, In, LoopFollows, Busy
    <3>2. batch' = batch \ {cur} BY <3>1
    <3>3. buf = <<>>
      <4>1. Len(buf) = 0 BY <2>2 DEF HeaderUnread, ReadNothing, Used, In
      <4>2. QED BY <4>1, EmptySeq DEF TypeOK
    <3>4. QED BY <2>2, <3>1, <3>2, <3>3, EventFrame DEF HeaderUnread, Serving
  <2>3. QED BY <2>1, <2>2
<1>2. f # Listener BY LoopAssumption
<1>3. TypeOK' BY <1>1 DEF CloseFd, TypeOK
<1>4. \A g \in Fd : file'[g] = file[g] \/ file'[g] = NoClient BY <1>1 DEF CloseFd, TypeOK
<1>5. BacklogIsNew' BY <1>1, <1>4, BacklogLength, LoopAssumption DEF BacklogIsNew
<1>6. FilesAreApart' BY <1>1, <1>4 DEF FilesAreApart
<1>7. LoopFollows' BY <1>1 DEF LoopFollows, Busy
<1>8. EventsAreOfWatched' BY <1>1 DEF EventsAreOfWatched, Alive, CloseFd, TypeOK
<1>9. BacklogHasEvents' BY <1>1, <1>2 DEF BacklogHasEvents, Serving, CloseFd, Bit
<1>10. QED BY <1>3, <1>5, <1>6, <1>7, <1>8, <1>9

LEMMA BeginReadTakes ==
  ASSUME LoopInv, BeginRead
  PROVE  \E f \in watched :
           /\ f \in batch /\ f \in Fd /\ f # Listener /\ file[f] \notin reset /\ file[f] # NoClient
           /\ batch' = batch \ {f} /\ cur' = f /\ pc = "next" /\ pc' = "header"
           /\ buf = <<>> /\ buf' = <<>>
           /\ UNCHANGED <<backlog, listening, file, watched, ready, inherited, up, down, conn, heard,
                          lacks, turn, jobs, sent, damage, reset, faults, crowded>>
<1>1. PICK f \in batch \ {Listener} :
        file[f] \notin reset /\ batch' = batch \ {f} /\ cur' = f
  BY DEF BeginRead
<1>2. f \in watched /\ f \in Fd /\ file[f] # NoClient
  BY <1>1 DEF LoopInv, EventsAreOfWatched, TypeOK
<1>3. QED BY <1>1, <1>2, EventFrame DEF BeginRead, In, LoopInv, LoopFollows

LEMMA BeginReadLoop ==
  ASSUME LoopInv, BeginRead PROVE LoopInv'
<1> USE DEF LoopInv
<1>1. PICK f \in watched :
           /\ f \in batch /\ f \in Fd /\ f # Listener /\ file[f] \notin reset /\ file[f] # NoClient
           /\ batch' = batch \ {f} /\ cur' = f /\ pc = "next" /\ pc' = "header"
           /\ buf = <<>> /\ buf' = <<>>
           /\ UNCHANGED <<backlog, listening, file, watched, ready, inherited, up, down, conn, heard,
                          lacks, turn, jobs, sent, damage, reset, faults, crowded>>
  BY BeginReadTakes
<1>2. TypeOK' BY <1>1 DEF TypeOK
<1>3. BacklogIsNew' BY <1>1 DEF BacklogIsNew
<1>4. FilesAreApart' BY <1>1 DEF FilesAreApart
<1>5. LoopFollows'
  <2>1. Len(buf') = 0 BY <1>1
  <2>2. QED BY <1>1, <2>1 DEF LoopFollows, Busy, Peer, Want, In
<1>6. EventsAreOfWatched' BY <1>1 DEF EventsAreOfWatched, Alive
<1>7. BacklogHasEvents' BY <1>1 DEF BacklogHasEvents, Serving, Bit
<1>8. QED BY <1>2, <1>3, <1>4, <1>5, <1>6, <1>7

\* what the loop reads from
LEMMA PeerIsClient ==
  ASSUME LoopInv, Busy
  PROVE  /\ cur \in Fd /\ Peer \in Client /\ up[Peer] \in Seq(Unit) /\ buf \in Seq(Unit)
         /\ Len(buf) \in Nat /\ Want \in Nat /\ Len(buf) <= Want
         /\ pc = "payload" => buf[1] \in Unit /\ buf[2] \in Unit /\ buf[1][1] = "h"
                              /\ Want = buf[1][2] + 2 /\ buf[1][2] \in Nat
         /\ pc # "payload" => Want = 2
<1>1. cur \in Fd /\ Peer # NoClient /\ Len(buf) <= Want BY DEF LoopInv, LoopFollows
<1>2. Peer \in Client /\ up[Peer] \in Seq(Unit) /\ buf \in Seq(Unit)
  BY <1>1 DEF LoopInv, TypeOK, Peer
<1>3. Len(buf) \in Nat BY <1>2, LenProperties
<1>4. CASE pc = "payload"
  <2>1. Len(buf) >= 2 /\ IsHeader(buf) BY <1>4 DEF LoopInv, LoopFollows
  <2>2. 1 \in 1..Len(buf) /\ 2 \in 1..Len(buf) BY <1>3, <2>1
  <2>3. buf[1] \in Unit /\ buf[2] \in Unit BY <1>2, <2>2, ElementOfSeq
  <2>4. buf[1][2] \in Nat BY <2>3, UnitFields, LoopAssumption
  <2>5. Want = buf[1][2] + 2 BY <1>4 DEF Want, In
  <2>6. QED BY <1>1, <1>2, <1>3, <1>4, <2>1, <2>3, <2>4, <2>5 DEF IsHeader
<1>5. CASE pc # "payload" BY <1>1, <1>2, <1>3, <1>5 DEF Want, In
<1>6. QED BY <1>4, <1>5

\* what a recv of the loop moves from the stream to the buffer
LEMMA ServerReadsMoves ==
  ASSUME LoopInv, ServerReads
  PROVE  /\ Busy
         /\ \E n \in 1..Len(up[Peer]) :
              /\ buf' = buf \o SubSeq(up[Peer], 1, n)
              /\ up' = [up EXCEPT ![Peer] = SubSeq(up[Peer], n + 1, Len(up[Peer]))]
              /\ Len(buf) + n <= Want /\ Len(buf) < Want
              /\ SubSeq(up[Peer], 1, n) \in Seq(Unit) /\ Len(SubSeq(up[Peer], 1, n)) = n
              /\ SubSeq(up[Peer], n + 1, Len(up[Peer])) \in Seq(Unit)
              /\ SubSeq(up[Peer], 1, n) \o SubSeq(up[Peer], n + 1, Len(up[Peer])) = up[Peer]
         /\ faults' \in 0..MaxFaults
         /\ UNCHANGED <<down, backlog, listening, file, watched, ready, batch, pc, cur, reset,
                        crowded, inherited, conn, heard, lacks, turn, jobs, sent, damage>>
<1> DEFINE want == Want - Len(buf)
<1>1. Busy /\ Len(buf) < Want BY DEF ServerReads, Reading, Busy
<1>2. up[Peer] \in Seq(Unit) /\ Len(buf) \in Nat /\ Want \in Nat BY <1>1, PeerIsClient
<1>3. want \in Nat BY <1>1, <1>2
<1>4. PICK n \in Amounts(up[Peer], want) :
        /\ buf' = buf \o SubSeq(up[Peer], 1, n)
        /\ up' = [up EXCEPT ![Peer] = SubSeq(@, n + 1, Len(@))]
        /\ CountTear(up[Peer], want, n)
  BY DEF ServerReads
<1>5. n \in 1..Len(up[Peer]) /\ n <= want BY <1>2, <1>3, AmountsBound
<1>6. faults \in 0..MaxFaults BY DEF LoopInv, TypeOK
<1>7. faults' \in 0..MaxFaults BY <1>2, <1>3, <1>4, <1>6, FaultsBound
<1>8. up' = [up EXCEPT ![Peer] = SubSeq(up[Peer], n + 1, Len(up[Peer]))] BY <1>4
<1>9. Len(up[Peer]) \in Nat BY <1>2, LenProperties
<1>10. n \in 0..Len(up[Peer]) /\ Len(buf) + n <= Want BY <1>2, <1>5, <1>9
<1>11. /\ SubSeq(up[Peer], 1, n) \in Seq(Unit) /\ Len(SubSeq(up[Peer], 1, n)) = n
       /\ SubSeq(up[Peer], n + 1, Len(up[Peer])) \in Seq(Unit)
       /\ SubSeq(up[Peer], 1, n) \o SubSeq(up[Peer], n + 1, Len(up[Peer])) = up[Peer]
  BY <1>2, <1>10, TakeAndLeave
<1>12. UNCHANGED <<down, backlog, listening, file, watched, ready, batch, pc, cur, reset,
                   crowded, inherited, conn, heard, lacks, turn, jobs, sent, damage>>
  BY DEF ServerReads, epollVars, UntouchedByLoop, clientVars
<1>13. QED BY <1>1, <1>4, <1>5, <1>7, <1>8, <1>10, <1>11, <1>12

LEMMA ServerReadsLoop ==
  ASSUME LoopInv, ServerReads PROVE LoopInv'
<1> USE DEF LoopInv
<1>1. /\ Busy
      /\ UNCHANGED <<down, backlog, listening, file, watched, ready, batch, pc, cur, reset,
                        crowded, inherited, conn, heard, lacks, turn, jobs, sent, damage>>
      /\ faults' \in 0..MaxFaults
  BY ServerReadsMoves
<1>2. PICK n \in 1..Len(up[Peer]) :
              /\ buf' = buf \o SubSeq(up[Peer], 1, n)
              /\ up' = [up EXCEPT ![Peer] = SubSeq(up[Peer], n + 1, Len(up[Peer]))]
              /\ Len(buf) + n <= Want
              /\ SubSeq(up[Peer], 1, n) \in Seq(Unit) /\ Len(SubSeq(up[Peer], 1, n)) = n
              /\ SubSeq(up[Peer], n + 1, Len(up[Peer])) \in Seq(Unit)
  BY ServerReadsMoves
<1>3. Peer \in Client /\ buf \in Seq(Unit) /\ Len(buf) \in Nat /\ Want \in Nat
      /\ Len(up[Peer]) \in Nat
  BY <1>1, PeerIsClient, LenProperties
<1>4. /\ buf' \in Seq(Unit) /\ Len(buf') = Len(buf) + Len(SubSeq(up[Peer], 1, n))
      /\ \A i \in 1..(Len(buf) + Len(SubSeq(up[Peer], 1, n))) : i <= Len(buf) => buf'[i] = buf[i]
  BY <1>2, <1>3, ConcatProperties
<1>5. /\ Len(buf') = Len(buf) + n /\ n \in Nat /\ \A i \in 1..Len(buf) : buf'[i] = buf[i]
  BY <1>2, <1>3, <1>4
<1>6. TypeOK'
  <2>1. up' \in [Client -> Seq(Unit)] BY <1>2, <1>3 DEF TypeOK
  <2>2. QED BY <1>1, <1>4, <2>1 DEF TypeOK
<1>7. BacklogIsNew' BY <1>1 DEF BacklogIsNew
<1>8. FilesAreApart' BY <1>1 DEF FilesAreApart
<1>9. LoopFollows'
  <2>1. Len(buf') <= Want /\ Len(buf') >= Len(buf) BY <1>2, <1>3, <1>5
  <2>2. CASE pc = "payload"
    <3>1. Len(buf) >= 2 /\ IsHeader(buf) BY <2>2 DEF LoopFollows
    <3>2. buf'[1] = buf[1] /\ buf'[2] = buf[2] BY <1>3, <1>5, <3>1
    <3>3. Want' = Want /\ IsHeader(buf') /\ Len(buf') >= 2
      BY <1>1, <1>3, <1>5, <2>2, <3>1, <3>2 DEF Want, In, IsHeader
    <3>4. QED BY <1>1, <2>1, <2>2, <3>3 DEF LoopFollows, Busy, Peer
  <2>3. CASE pc # "payload"
    <3>1. Want' = Want BY <1>1, <2>3 DEF Want, In
    <3>2. QED BY <1>1, <2>1, <2>3, <3>1 DEF LoopFollows, Busy, Peer
  <2>4. QED BY <2>2, <2>3
<1>10. EventsAreOfWatched' BY <1>1 DEF EventsAreOfWatched, Alive
<1>11. BacklogHasEvents' BY <1>1 DEF BacklogHasEvents, Serving
<1>12. QED BY <1>6, <1>7, <1>8, <1>9, <1>10, <1>11

LEMMA SpinLoop ==
  ASSUME LoopInv, Spin PROVE LoopInv'
<1> USE DEF LoopInv
<1>1. /\ UNCHANGED <<backlog, listening, file, watched, ready, batch, cur, buf, inherited, up, down,
                     conn, heard, lacks, turn, jobs, sent, damage, reset, faults, crowded>>
      /\ pc' = "stuck"
  BY EventFrame DEF Spin, epollVars
<1>2. TypeOK' BY <1>1 DEF TypeOK
<1>3. BacklogIsNew' BY <1>1 DEF BacklogIsNew
<1>4. FilesAreApart' BY <1>1 DEF FilesAreApart
<1>5. LoopFollows' BY <1>1 DEF LoopFollows, Busy
<1>6. EventsAreOfWatched' BY <1>1 DEF EventsAreOfWatched, Alive
<1>7. BacklogHasEvents' BY <1>1 DEF BacklogHasEvents, Serving
<1>8. QED BY <1>2, <1>3, <1>4, <1>5, <1>6, <1>7

LEMMA ShakenLoop ==
  ASSUME LoopInv, Shaken PROVE LoopInv'
<1> USE DEF LoopInv
<1>1. /\ pc = "shake" /\ pc' = "next" /\ buf' = <<>>
      /\ UNCHANGED <<up, backlog, listening, file, batch, cur, faults, crowded, inherited,
                     conn, heard, lacks, turn, jobs, sent, damage>>
      /\ down' = [down EXCEPT ![Peer] = IF Alive(Peer) THEN @ \o Handshake(Peer) ELSE @]
      /\ reset' = IF Alive(Peer) THEN reset ELSE reset \cup {Peer}
      /\ watched' = watched \cup {cur} /\ ready \subseteq ready' /\ ready' \subseteq ready \cup {cur}
  BY DEF Shaken, In, Watch, UntouchedByLoop, clientVars
<1>2. cur \in Fd /\ Peer \in Client /\ Peer # NoClient /\ cur # Listener
  BY <1>1, PeerIsClient, LoopAssumption DEF Busy
<1>3. TypeOK'
  <2>1. Handshake(Peer) \in Seq(Unit) BY <1>2, MessageShape, LoopAssumption DEF Handshake
  <2>2. down[Peer] \o Handshake(Peer) \in Seq(Unit) BY <1>2, <2>1, StreamGrows DEF TypeOK
  <2>3. down' \in [Client -> Seq(Unit)] BY <1>1, <1>2, <2>2 DEF TypeOK
  <2>4. buf' \in Seq(Unit) BY <1>1, EmptySeq
  <2>5. QED BY <1>1, <1>2, <2>3, <2>4 DEF TypeOK
<1>4. BacklogIsNew' BY <1>1 DEF BacklogIsNew
<1>5. FilesAreApart' BY <1>1 DEF FilesAreApart
<1>6. LoopFollows' BY <1>1 DEF LoopFollows, Busy
<1>7. EventsAreOfWatched' BY <1>1, <1>2 DEF EventsAreOfWatched, Alive, Peer
<1>8. BacklogHasEvents' BY <1>1, <1>2 DEF BacklogHasEvents, Serving, Bit
<1>9. QED BY <1>3, <1>4, <1>5, <1>6, <1>7, <1>8

LEMMA HeaderReadLoop ==
  ASSUME LoopInv, HeaderRead PROVE LoopInv'
<1> USE DEF LoopInv
<1>1. /\ UNCHANGED <<backlog, listening, file, watched, ready, batch, cur, buf, inherited, up, down,
                     conn, heard, lacks, turn, jobs, sent, damage, reset, faults, crowded>>
      /\ pc = "header" /\ Len(buf) = 2
      /\ (pc' = "payload" /\ IsHeader(buf)) \/ pc' \in {"crashed", "stuck"}
  BY EventFrame DEF HeaderRead, In, epollVars
<1>2. TypeOK' BY <1>1 DEF TypeOK
<1>3. BacklogIsNew' BY <1>1 DEF BacklogIsNew
<1>4. FilesAreApart' BY <1>1 DEF FilesAreApart
<1>5. LoopFollows'
  <2>1. CASE pc' = "payload"
    <3>1. buf[1][2] \in Nat
      <4>1. buf \in Seq(Unit) /\ 1 \in 1..Len(buf) BY <1>1 DEF TypeOK
      <4>2. buf[1] \in Unit BY <4>1, ElementOfSeq
      <4>3. QED BY <4>2, UnitFields, LoopAssumption
    <3>2. Want' >= 2 BY <1>1, <2>1, <3>1 DEF Want, In
    <3>3. QED BY <1>1, <2>1, <3>2 DEF LoopFollows, Busy, Peer, IsHeader
  <2>2. CASE pc' \in {"crashed", "stuck"} BY <1>1, <2>2 DEF LoopFollows, Busy
  <2>3. QED BY <1>1, <2>1, <2>2
<1>6. EventsAreOfWatched' BY <1>1 DEF EventsAreOfWatched, Alive
<1>7. BacklogHasEvents' BY <1>1 DEF BacklogHasEvents, Serving
<1>8. QED BY <1>2, <1>3, <1>4, <1>5, <1>6, <1>7

LEMMA RequestReadLoop ==
  ASSUME LoopInv, RequestRead PROVE LoopInv'
<1> USE DEF LoopInv
<1>1. /\ UNCHANGED <<backlog, listening, file, watched, ready, batch, cur, inherited, up, down,
                     conn, heard, lacks, turn, sent, damage, reset, faults, crowded>>
      /\ pc = "payload"
      /\ \/ pc' = "next" /\ buf' = <<>>
            /\ jobs' = jobs \cup {[fd |-> cur, by |-> buf[1][3], turn |-> buf[1][4]]}
         \/ pc' = "crashed" /\ UNCHANGED <<buf, jobs>>
  BY DEF RequestRead, Deposit, In, streamVars, clientVars, countVars, ghostVars
<1>2. TypeOK'
  <2>1. cur \in Fd /\ buf[1] \in Unit /\ buf[1][1] = "h" BY <1>1, PeerIsClient DEF Busy
  <2>2. buf[1][3] \in Client /\ buf[1][4] \in 0..MaxRequests BY <2>1, UnitFields
  <2>3. jobs' \subseteq [fd : Fd, by : Client, turn : 0..MaxRequests]
    BY <1>1, <2>1, <2>2 DEF TypeOK
  <2>4. <<>> \in Seq(Unit) BY EmptySeq
  <2>5. QED BY <1>1, <2>3, <2>4 DEF TypeOK
<1>3. BacklogIsNew' BY <1>1 DEF BacklogIsNew
<1>4. FilesAreApart' BY <1>1 DEF FilesAreApart
<1>5. LoopFollows' BY <1>1 DEF LoopFollows, Busy
<1>6. EventsAreOfWatched' BY <1>1 DEF EventsAreOfWatched, Alive
<1>7. BacklogHasEvents' BY <1>1 DEF BacklogHasEvents, Serving
<1>8. QED BY <1>2, <1>3, <1>4, <1>5, <1>6, <1>7

-----------------------------------------------------------------------------
(* Theorems *)

LEMMA NextLoop == LoopInv /\ [Next]_vars => LoopInv'
<1> SUFFICES ASSUME LoopInv, [Next]_vars PROVE LoopInv' OBVIOUS
<1>1. CASE UNCHANGED vars
  BY <1>1 DEF LoopInv, TypeOK, BacklogIsNew, FilesAreApart, LoopFollows, EventsAreOfWatched,
              BacklogHasEvents, Busy, Peer, Want, In, IsHeader, Serving, Alive, vars, streamVars,
              clientVars, epollVars, loopVars, countVars, ghostVars
<1>2. CASE Loop
  BY <1>2, EpollWaitLoop, BatchDoneLoop, AcceptLoop, ListenerLostLoop, CloseFdLoop, BeginReadLoop,
     ServerReadsLoop, SpinLoop, ShakenLoop, HeaderReadLoop, RequestReadLoop
  DEF Loop
<1>3. ASSUME NEW c \in Client, Connect(c) PROVE LoopInv' BY <1>3, ConnectLoop
<1>4. CASE (\E c \in Client : Ask(c) \/ Die(c) \/ Listen(c)) \/ (\E j \in jobs : Answer(j))
  BY <1>4, OutsideLoop
<1>5. QED BY <1>1, <1>2, <1>3, <1>4 DEF Next

\* The loop's buffer, descriptors and events fit its place in the code, however the clients
\* connect, send, die and are answered.
THEOREM LoopInvariance == Spec => []LoopInv
BY InitLoop, NextLoop, PTL DEF Spec

\* Every variable of the loop and of the sockets keeps its type: the loop never makes a job
\* of something that is not a request, and never takes a connection from an empty backlog.
THEOREM TypeCorrect == Spec => []TypeOK
<1>1. LoopInv => TypeOK BY DEF LoopInv
<1>2. QED BY <1>1, LoopInvariance, PTL

=============================================================================
