------------------------- MODULE RemoteCache_proofs -------------------------
(***************************************************************************)
(* Theorems about RemoteCache: the memory and the nodes of the list are    *)
(* accounted for under either scheme and for any number of connections;    *)
(* with one connection keys are unique and what it holds stays reserved.   *)
(***************************************************************************)
EXTENDS RemoteCache, FiniteSetTheorems, WellFoundedInduction, TLAPS

-----------------------------------------------------------------------------
(* Induction and the walk along a line *)

LEMMA Induct == ASSUME NEW S, 0 \in S, \A n \in Nat : n \in S => n + 1 \in S PROVE Nat \subseteq S
<1> DEFINE R == {ss \in Nat \X Nat : ss[1] < ss[2]}
           T == Nat \ S
<1> SUFFICES ASSUME T # {} PROVE FALSE OBVIOUS
<1>1. IsWellFoundedOn(R, Nat) BY NatLessThanWellFounded DEF OpToRel
<1>2. \A x, y \in Nat : y < x => <<y, x>> \in R OBVIOUS
<1>3. T \subseteq Nat OBVIOUS
<1> HIDE DEF R, T
<1>4. PICK m \in T : \A y \in T : ~ (<<y, m>> \in R) BY <1>1, <1>3, WFMin
<1>5. \A y \in T : ~(y < m) BY <1>2, <1>3, <1>4
<1>6. m \in Nat /\ m \notin S BY <1>4 DEF T
<1>7. CASE m = 0 BY <1>6, <1>7
<1>8. CASE m # 0
  <2>1. m - 1 \in Nat /\ m - 1 < m /\ (m - 1) + 1 = m BY <1>6, <1>8
  <2>2. m - 1 \in S BY <2>1, <1>5 DEF T
  <2>3. QED BY <2>1, <2>2, <1>6
<1>9. QED BY <1>7, <1>8

\* the memory has room for one slab
LEMMA CantIsNat == Cant \in Nat \ {0} /\ Node = 0..Cant /\ NULL \notin Node
<1>1. table_max_size \div slab_min_size \in Nat \ {0} BY EngineAssumption
<1>2. QED BY <1>1 DEF Cant, Node, NULL

\* every place of a line has its node
LEMMA LineIsFull ==
  ASSUME NEW first, NEW S, NEW nx, NEW len \in Nat, NEW rank, Line(first, S, nx, len, rank),
         NEW i \in 0..len - 1
  PROVE  \E n \in S : rank[n] = i
<1> DEFINE P == {j \in Nat : j < len => \E n \in S : rank[n] = j}
<1>1. 0 \in P BY DEF Line
<1>2. ASSUME NEW j \in Nat, j \in P PROVE j + 1 \in P
  <2> SUFFICES ASSUME j + 1 < len PROVE \E n \in S : rank[n] = j + 1 OBVIOUS
  <2>1. PICK n \in S : rank[n] = j BY <1>2
  <2>2. nx[n] \in S /\ rank[nx[n]] = j + 1 BY <2>1 DEF Line
  <2>3. QED BY <2>2
<1>3. Nat \subseteq P
  <2> HIDE DEF P
  <2>1. QED BY <1>1, <1>2, Induct
<1>4. QED BY <1>3

\* f is the walk along the links
Walk(f, first, nx) ==
  f = [i \in 0..Cant + 1 |-> IF i = 0 THEN first ELSE IF f[i - 1] = NULL THEN NULL ELSE nx[f[i - 1]]]

\* a line has a walk
LEMMA LineIsWalked ==
  ASSUME NEW first, NEW S \in SUBSET Node, NEW nx, NEW len \in Nat, NEW rank,
         Line(first, S, nx, len, rank)
  PROVE  \E f : Walk(f, first, nx)
<1> DEFINE nth(i) == CHOOSE n \in S : rank[n] = i
           f == [i \in 0..Cant + 1 |-> IF i < len THEN nth(i) ELSE NULL]
<1>1. \A i \in 0..len - 1 : nth(i) \in S /\ rank[nth(i)] = i BY LineIsFull
<1>2. \A n \in S : nth(rank[n]) = n BY <1>1 DEF Line
<1>a. ASSUME NEW n \in S, NEW k \in Nat, rank[n] = k
      PROVE  /\ k + 1 < len => nx[n] \in S /\ rank[nx[n]] = k + 1
             /\ k + 1 = len => nx[n] = NULL
  BY <1>a DEF Line
<1> HIDE DEF nth
<1>3. ASSUME NEW i \in 0..Cant + 1
      PROVE  f[i] = IF i = 0 THEN first ELSE IF f[i - 1] = NULL THEN NULL ELSE nx[f[i - 1]]
  <2>1. CASE i = 0
    <3>1. CASE len = 0 BY <2>1, <3>1, CantIsNat DEF Line
    <3>2. CASE len # 0
      <4>1. first \in S /\ rank[first] = 0 BY <3>2 DEF Line
      <4>2. QED BY <4>1, <1>2, <2>1, <3>2, CantIsNat
    <3>3. QED BY <3>1, <3>2
  <2>2. CASE i # 0
    <3>1. i - 1 \in 0..Cant + 1 /\ i - 1 \in Nat BY <2>2, CantIsNat
    <3>2. CASE i - 1 < len
      <4>1. f[i - 1] = nth(i - 1) /\ nth(i - 1) \in S /\ rank[nth(i - 1)] = i - 1 BY <1>1, <3>1, <3>2
      <4>2. f[i - 1] # NULL BY <4>1, CantIsNat
      <4>3. CASE i < len
        <5>1. nx[nth(i - 1)] \in S /\ rank[nx[nth(i - 1)]] = i
          <6>1. (i - 1) + 1 = i BY <3>1
          <6>2. QED BY <6>1, <4>1, <4>3, <1>a, <3>1
        <5>2. nth(i) = nx[nth(i - 1)] BY <5>1, <1>2
        <5>3. QED BY <4>1, <4>2, <4>3, <5>2, <2>2
      <4>4. CASE ~(i < len)
        <5>1. nx[nth(i - 1)] = NULL
          <6>1. (i - 1) + 1 = len BY <3>1, <3>2, <4>4
          <6>2. QED BY <6>1, <4>1, <1>a, <3>1
        <5>2. QED BY <4>1, <4>2, <4>4, <5>1, <2>2
      <4>5. QED BY <4>3, <4>4
    <3>3. CASE ~(i - 1 < len) BY <3>1, <3>3, <2>2, CantIsNat
    <3>4. QED BY <3>2, <3>3
  <2>3. QED BY <2>1, <2>2
<1>4. Walk(f, first, nx) BY <1>3 DEF Walk
<1>5. QED BY <1>4

\* f visits S in the order of its ranks, then ends
Visits(f, S, len, rank) ==
  \A i \in 0..Cant + 1 : IF i < len THEN f[i] \in S /\ rank[f[i]] = i ELSE f[i] = NULL

LEMMA WalkFollows ==
  ASSUME NEW first, NEW S \in SUBSET Node, NEW nx, NEW len \in Nat, NEW rank,
         Line(first, S, nx, len, rank), NEW f, Walk(f, first, nx)
  PROVE  Visits(f, S, len, rank)
<1> DEFINE P == {j \in Nat : j <= Cant + 1 =>
                   IF j < len THEN f[j] \in S /\ rank[f[j]] = j ELSE f[j] = NULL}
<1>1. 0 \in P BY CantIsNat DEF Line, Walk
<1>2. ASSUME NEW j \in Nat, j \in P PROVE j + 1 \in P
  <2> SUFFICES ASSUME j + 1 <= Cant + 1
               PROVE  IF j + 1 < len THEN f[j + 1] \in S /\ rank[f[j + 1]] = j + 1 ELSE f[j + 1] = NULL
    OBVIOUS
  <2>1. f[j + 1] = IF f[j] = NULL THEN NULL ELSE nx[f[j]]
    <3>1. j + 1 \in 0..Cant + 1 /\ j + 1 # 0 /\ (j + 1) - 1 = j BY CantIsNat
    <3>2. QED BY <3>1 DEF Walk
  <2>2. CASE j < len
    <3>1. f[j] \in S /\ rank[f[j]] = j BY <1>2, <2>2, CantIsNat
    <3>2. f[j + 1] = nx[f[j]] BY <2>1, <3>1, CantIsNat
    <3>3. QED BY <3>1, <3>2, <2>2 DEF Line
  <2>3. CASE ~(j < len) BY <1>2, <2>1, <2>3, CantIsNat
  <2>4. QED BY <2>2, <2>3
<1>3. Nat \subseteq P
  <2> HIDE DEF P
  <2>1. QED BY <1>1, <1>2, Induct
<1>4. QED BY <1>3, CantIsNat DEF Visits

LEMMA AtWalks == ASSUME NEW f, Walk(f, elements, next) PROVE Walk(At, elements, next)
BY Zenon DEF At, Walk
LEMMA SpareAtWalks == ASSUME NEW f, Walk(f, nodes, next) PROVE Walk(SpareAt, nodes, next)
BY Zenon DEF SpareAt, Walk

\* what a walk over a line of at most all nodes has seen
LEMMA WalkSeesAll ==
  ASSUME NEW first, NEW S \in SUBSET Node, NEW nx, NEW len \in 0..Cant + 1, NEW rank,
         Line(first, S, nx, len, rank), NEW f, Walk(f, first, nx)
  PROVE  {f[i] : i \in 0..Cant} \ {NULL} = S /\ f[Cant + 1] = NULL
<1>a. len \in Nat BY CantIsNat
<1>b. Visits(f, S, len, rank) BY <1>a, WalkFollows
<1>1. \A i \in 0..Cant + 1 : IF i < len THEN f[i] \in S /\ rank[f[i]] = i ELSE f[i] = NULL
  BY <1>b DEF Visits
<1>2. ASSUME NEW n \in S PROVE rank[n] \in 0..Cant /\ f[rank[n]] = n
  <2>1. rank[n] \in 0..len - 1 /\ \A m \in S : rank[m] = rank[n] => m = n BY DEF Line
  <2>2. rank[n] \in 0..Cant + 1 /\ rank[n] < len /\ rank[n] \in 0..Cant BY <2>1, CantIsNat
  <2>3. f[rank[n]] \in S /\ rank[f[rank[n]]] = rank[n] BY <1>1, <2>2
  <2>4. QED BY <2>1, <2>2, <2>3
<1>3. \A n \in S : n # NULL BY CantIsNat
<1>4. {f[i] : i \in 0..Cant} \ {NULL} \subseteq S BY <1>1, CantIsNat
<1>5. S \subseteq {f[i] : i \in 0..Cant} \ {NULL} BY <1>2, <1>3
<1>6. f[Cant + 1] = NULL BY <1>1, CantIsNat
<1>7. QED BY <1>4, <1>5, <1>6

\* the list is the partitions, and its walk ends
LEMMA ListedAreInUse == ASSUME TwoLines PROVE Listed = InUse /\ Ends
<1>1. PICK rank, a, b : a \in 0..Cant + 1 /\ Lines(rank, a, b) BY DEF TwoLines
<1>2. Line(elements, InUse, next, a, rank) /\ InUse \in SUBSET Node BY <1>1 DEF Lines, InUse
<1>3. \E f : Walk(f, elements, next) BY <1>1, <1>2, LineIsWalked, CantIsNat
<1>4. Walk(At, elements, next) BY <1>3, AtWalks
<1>5. {At[i] : i \in 0..Cant} \ {NULL} = InUse /\ At[Cant + 1] = NULL
  BY <1>1, <1>2, <1>4, WalkSeesAll
<1>6. QED BY <1>5 DEF Listed, Ends

LEMMA SparesAreTheRest == ASSUME TwoLines PROVE Spares = Node \ InUse
<1>1. PICK rank, a, b : b \in 0..Cant + 1 /\ Lines(rank, a, b) BY DEF TwoLines
<1> DEFINE S == Node \ InUse
<1>2. Line(nodes, S, next, b, rank) /\ S \in SUBSET Node BY <1>1 DEF Lines
<1> HIDE DEF S
<1>3. \E f : Walk(f, nodes, next) BY <1>1, <1>2, LineIsWalked, CantIsNat
<1>4. Walk(SpareAt, nodes, next) BY <1>3, SpareAtWalks
<1>5. {SpareAt[i] : i \in 0..Cant} \ {NULL} = S BY <1>1, <1>2, <1>4, WalkSeesAll
<1>6. QED BY <1>5 DEF Spares, S

\* the first of some listed partitions is one of them
LEMMA FirstIsOne == ASSUME NEW S, S \subseteq Listed, S # {} PROVE First(S) \in S
<1> DEFINE P == {i \in Nat : \A j \in 0..Cant : j < i => At[j] \notin S}
           Q(i) == At[i] \in S /\ \A j \in 0..i - 1 : At[j] \notin S
<1>1. PICK k \in 0..Cant : At[k] \in S BY DEF Listed
<1>2. \E i \in 0..Cant : Q(i)
  <2> SUFFICES ASSUME \A i \in 0..Cant : ~Q(i) PROVE FALSE OBVIOUS
  <2>1. 0 \in P BY CantIsNat
  <2>2. ASSUME NEW i \in Nat, i \in P PROVE i + 1 \in P
    <3>1. ASSUME i \in 0..Cant PROVE At[i] \notin S
      <4>1. \A j \in 0..i - 1 : j \in 0..Cant /\ j < i BY <3>1, CantIsNat
      <4>2. QED BY <2>2, <3>1, <4>1
    <3>2. QED BY <2>2, <3>1, CantIsNat
  <2>3. Nat \subseteq P
    <3> HIDE DEF P
    <3>1. QED BY <2>1, <2>2, Induct
  <2>4. k + 1 \in P BY <2>3, CantIsNat
  <2>5. QED BY <1>1, <2>4, CantIsNat
<1>3. Q(CHOOSE i \in 0..Cant : Q(i)) BY <1>2
<1>4. QED BY <1>3 DEF First

-----------------------------------------------------------------------------
(* Sums over the nodes *)

\* sum[i] is what the nodes before i have
Sums(sum, g) == sum = [i \in 0..Cant + 1 |-> IF i = 0 THEN 0 ELSE sum[i - 1] + g[i - 1]]

SumsUpTo(k, sum, g) == sum = [i \in 0..k |-> IF i = 0 THEN 0 ELSE sum[i - 1] + g[i - 1]]

LEMMA SumsExist == ASSUME NEW g PROVE \E sum : Sums(sum, g)
<1> DEFINE P == {k \in Nat : \E f : SumsUpTo(k, f, g)}
<1>1. 0 \in P
  <2>1. SumsUpTo(0, [i \in 0..0 |-> 0], g) BY DEF SumsUpTo
  <2>2. QED BY <2>1
<1>2. ASSUME NEW k \in Nat, k \in P PROVE k + 1 \in P
  <2>1. PICK f : SumsUpTo(k, f, g) BY <1>2
  <2> DEFINE h == [i \in 0..k + 1 |-> IF i = k + 1 THEN f[k] + g[k] ELSE f[i]]
  <2>2. ASSUME NEW i \in 0..k + 1 PROVE h[i] = IF i = 0 THEN 0 ELSE h[i - 1] + g[i - 1]
    <3>1. CASE i = k + 1 BY <3>1
    <3>2. CASE i # k + 1 
      <4>1. i \in 0..k /\ h[i] = f[i] BY <3>2
      <4>2. f[i] = IF i = 0 THEN 0 ELSE f[i - 1] + g[i - 1] BY <2>1, <4>1 DEF SumsUpTo
      <4>3. i # 0 => i - 1 \in 0..k + 1 /\ i - 1 # k + 1 BY <4>1
      <4>4. QED BY <4>1, <4>2, <4>3
    <3>3. QED BY <3>1, <3>2
  <2>3. SumsUpTo(k + 1, h, g) BY <2>2 DEF SumsUpTo
  <2>4. QED BY <2>3
<1>3. Nat \subseteq P
  <2> HIDE DEF P
  <2>1. QED BY <1>1, <1>2, Induct
<1>4. PICK f : SumsUpTo(Cant + 1, f, g) BY <1>3, CantIsNat
<1>5. Sums(f, g) BY <1>4 DEF Sums, SumsUpTo
<1>6. QED BY <1>5

LEMMA TotalIsSum == ASSUME NEW g PROVE \E sum : Sums(sum, g) /\ Total(g) = sum[Cant + 1]
<1> DEFINE sum == CHOOSE f : Sums(f, g)
<1>1. Sums(sum, g) BY SumsExist
<1>2. Total(g) = sum[Cant + 1] BY Zenon DEF Total, Sums
<1>3. QED BY <1>1, <1>2

\* one node gets another size
LEMMA TotalChanges ==
  ASSUME NEW g \in [Node -> Nat], NEW m \in Node, NEW v \in Nat
  PROVE  Total(g) \in Nat /\ Total([g EXCEPT ![m] = v]) = Total(g) - g[m] + v
<1> DEFINE h == [g EXCEPT ![m] = v]
<1>1. PICK f : Sums(f, g) /\ Total(g) = f[Cant + 1] BY TotalIsSum
<1>2. PICK d : Sums(d, h) /\ Total(h) = d[Cant + 1] BY TotalIsSum
<1> DEFINE P == {i \in Nat : i <= Cant + 1 =>
                   f[i] \in Nat /\ d[i] = IF i > m THEN f[i] - g[m] + v ELSE f[i]}
<1>3. 0 \in P BY <1>1, <1>2, CantIsNat DEF Sums
<1>4. ASSUME NEW i \in Nat, i \in P PROVE i + 1 \in P
  <2> SUFFICES ASSUME i + 1 <= Cant + 1
               PROVE  f[i + 1] \in Nat /\ d[i + 1] = IF i + 1 > m THEN f[i + 1] - g[m] + v ELSE f[i + 1]
    OBVIOUS
  <2>1. i + 1 \in 0..Cant + 1 /\ i + 1 # 0 /\ (i + 1) - 1 = i /\ i \in Node BY CantIsNat
  <2>2. f[i + 1] = f[i] + g[i] /\ d[i + 1] = d[i] + h[i] BY <1>1, <1>2, <2>1 DEF Sums
  <2>3. g[i] \in Nat /\ h[i] = IF i = m THEN v ELSE g[i] BY <2>1
  <2>4. f[i] \in Nat /\ d[i] = IF i > m THEN f[i] - g[m] + v ELSE f[i] BY <1>4, CantIsNat
  <2>5. m \in Nat BY CantIsNat
  <2> HIDE DEF h
  <2>6. QED BY <2>2, <2>3, <2>4, <2>5
<1>5. Nat \subseteq P
  <2> HIDE DEF P, h
  <2>1. QED BY <1>3, <1>4, Induct
<1>6. Cant + 1 \in P /\ Cant + 1 > m BY <1>5, CantIsNat
<1>7. QED BY <1>1, <1>2, <1>6

LEMMA TotalOfNothing == Total([n \in Node |-> 0]) = 0
<1> DEFINE g == [n \in Node |-> 0]
<1>1. PICK f : Sums(f, g) /\ Total(g) = f[Cant + 1] BY TotalIsSum
<1> DEFINE P == {i \in Nat : i <= Cant + 1 => f[i] = 0}
<1>2. 0 \in P BY <1>1, CantIsNat DEF Sums
<1>3. ASSUME NEW i \in Nat, i \in P PROVE i + 1 \in P
  <2> SUFFICES ASSUME i + 1 <= Cant + 1 PROVE f[i + 1] = 0 OBVIOUS
  <2>1. i + 1 \in 0..Cant + 1 /\ i + 1 # 0 /\ (i + 1) - 1 = i /\ i \in Node BY CantIsNat
  <2>2. f[i + 1] = f[i] + g[i] BY <1>1, <2>1 DEF Sums
  <2>3. QED BY <1>3, <2>1, <2>2, CantIsNat
<1>4. Nat \subseteq P
  <2> HIDE DEF P
  <2>1. QED BY <1>2, <1>3, Induct
<1>5. QED BY <1>1, <1>4, CantIsNat

-----------------------------------------------------------------------------
(* What is done to the two lines *)

\* the partitions L, from e on, and the spare nodes, from s on
Split(e, s, L, nx, rank, a, b) ==
  /\ L \subseteq Node /\ a \in 0..Cant + 1 /\ b \in 0..Cant + 1 /\ a + b = Cant + 1
  /\ rank \in [Node -> 0..Cant] /\ nx \in [Node -> Node \cup {NULL}]
  /\ Line(e, L, nx, a, rank) /\ Line(s, Node \ L, nx, b, rank)

\* the lines when the first spare node has become the partition behind x
Inserted(e, s, L, nx, rank, a, b, x) ==
  \E r : /\ Split(e, nx[s], L \cup {s}, [nx EXCEPT ![s] = nx[x], ![x] = s], r, a + 1, b - 1)
         /\ \A n \in Node \ (L \cup {s}) : r[n] = rank[n] - 1

LEMMA NodeInserted ==
  ASSUME NEW e, NEW s, NEW L, NEW nx, NEW rank, NEW a, NEW b, Split(e, s, L, nx, rank, a, b),
         NEW x \in L, s # NULL
  PROVE  Inserted(e, s, L, nx, rank, a, b, x)
<1> DEFINE L1 == L \cup {s}
           nx1 == [nx EXCEPT ![s] = nx[x], ![x] = s]
           r == [n \in Node |-> IF n = s THEN rank[x] + 1
                                ELSE IF n \notin L THEN rank[n] - 1
                                ELSE IF rank[n] > rank[x] THEN rank[n] + 1 ELSE rank[n]]
<1>1. /\ a \in Nat /\ b \in Nat /\ a + b = Cant + 1 /\ Cant \in Nat
      /\ \A n \in Node : rank[n] \in Nat
      /\ \A n \in L : rank[n] < a
      /\ \A n \in Node \ L : rank[n] < b
  <2>1. /\ a \in Nat /\ b \in Nat /\ a + b = Cant + 1 /\ Cant \in Nat
        /\ \A n \in Node : rank[n] \in Nat
    BY CantIsNat DEF Split
  <2>2. \A n \in L : rank[n] \in 0..a - 1 BY DEF Split, Line
  <2>3. \A n \in Node \ L : rank[n] \in 0..b - 1 BY DEF Split, Line
  <2>4. QED BY <2>1, <2>2, <2>3
<1>2. b # 0 /\ s \in Node \ L /\ rank[s] = 0 BY DEF Split, Line
<1>3. a # 0 /\ e \in L /\ rank[e] = 0 BY DEF Split, Line
<1>4. /\ \A n \in L : IF rank[n] = a - 1 THEN nx[n] = NULL ELSE nx[n] \in L /\ rank[nx[n]] = rank[n] + 1
      /\ \A m, n \in L : rank[m] = rank[n] => m = n
  BY DEF Split, Line
<1>5. /\ \A n \in Node \ L :
           IF rank[n] = b - 1 THEN nx[n] = NULL ELSE nx[n] \in Node \ L /\ rank[nx[n]] = rank[n] + 1
      /\ \A m, n \in Node \ L : rank[m] = rank[n] => m = n
  BY DEF Split, Line
<1>6. L \subseteq Node /\ x \in Node /\ s # x /\ nx \in [Node -> Node \cup {NULL}] BY <1>2 DEF Split
<1>7. /\ nx1[s] = nx[x] /\ nx1[x] = s
      /\ \A n \in Node : n # s /\ n # x => nx1[n] = nx[n]
  BY <1>2, <1>6
<1>8. \A n \in Node : r[n] = IF n = s THEN rank[x] + 1
                             ELSE IF n \notin L THEN rank[n] - 1
                             ELSE IF rank[n] > rank[x] THEN rank[n] + 1 ELSE rank[n]
  OBVIOUS
<1>9. \A n \in Node \ L1 : rank[n] # 0 BY <1>2, <1>5
<1>10. r \in [Node -> 0..Cant]
  <2>1. ASSUME NEW n \in Node PROVE r[n] \in 0..Cant
    <3>1. CASE n = s BY <3>1, <1>1, <1>2, <1>6, <1>8
    <3>2. CASE n # s /\ n \notin L BY <3>2, <1>1, <1>8, <1>9
    <3>3. CASE n # s /\ n \in L BY <3>3, <1>1, <1>2, <1>8
    <3>4. QED BY <3>1, <3>2, <3>3
  <2>2. QED BY <2>1
<1>11. nx1 \in [Node -> Node \cup {NULL}] BY <1>2, <1>6
<1> HIDE DEF r, nx1
<1>12. Line(e, L1, nx1, a + 1, r)
  <2>1. e \in L1 /\ r[e] = 0 /\ a + 1 # 0 BY <1>1, <1>2, <1>3, <1>6, <1>8
  <2>2. \A n \in L1 : r[n] \in 0..(a + 1) - 1 BY <1>1, <1>2, <1>6, <1>8
  <2>3. ASSUME NEW n \in L1
        PROVE  IF r[n] = (a + 1) - 1 THEN nx1[n] = NULL ELSE nx1[n] \in L1 /\ r[nx1[n]] = r[n] + 1
    <3>1. CASE n = s
      <4>1. nx1[n] = nx[x] /\ r[n] = rank[x] + 1 BY <3>1, <1>7, <1>8, <1>2
      <4>2. CASE rank[x] = a - 1 BY <4>1, <4>2, <1>4, <1>1
      <4>3. CASE rank[x] # a - 1
        <5>1. nx[x] \in L /\ rank[nx[x]] = rank[x] + 1 BY <4>3, <1>4
        <5>2. r[nx[x]] = rank[x] + 2 BY <5>1, <1>8, <1>1, <1>2, <1>6
        <5>3. QED BY <4>1, <5>1, <5>2, <4>3, <1>1, <1>6
      <4>4. QED BY <4>2, <4>3
    <3>2. CASE n = x
      <4>1. nx1[n] = s /\ r[n] = rank[x] /\ r[s] = rank[x] + 1 BY <3>2, <1>1, <1>2, <1>6, <1>7, <1>8
      <4>2. QED BY <4>1, <1>1, <3>2
    <3>3. CASE n # s /\ n # x
      <4>1. n \in L /\ nx1[n] = nx[n] /\ rank[n] # rank[x] BY <3>3, <1>4, <1>6, <1>7
      <4>2. r[n] = IF rank[n] > rank[x] THEN rank[n] + 1 ELSE rank[n] BY <4>1, <3>3, <1>6, <1>8
      <4>3. CASE rank[n] = a - 1 BY <4>1, <4>2, <4>3, <1>1, <1>4, <1>6
      <4>4. CASE rank[n] # a - 1
        <5>1. nx[n] \in L /\ rank[nx[n]] = rank[n] + 1 BY <4>1, <4>4, <1>4
        <5>2. r[nx[n]] = IF rank[n] + 1 > rank[x] THEN rank[n] + 2 ELSE rank[n] + 1
          BY <5>1, <1>1, <1>2, <1>6, <1>8
        <5>3. QED BY <4>1, <4>2, <4>4, <5>1, <5>2, <1>1, <1>6
      <4>5. QED BY <4>3, <4>4
    <3>4. QED BY <3>1, <3>2, <3>3
  <2>4. ASSUME NEW m \in L1, NEW n \in L1, r[m] = r[n] PROVE m = n
    <3>1. CASE m = s /\ n = s BY <3>1
    <3>2. CASE m = s /\ n # s BY <2>4, <3>2, <1>1, <1>6, <1>8, <1>2
    <3>3. CASE m # s /\ n = s BY <2>4, <3>3, <1>1, <1>6, <1>8, <1>2
    <3>4. CASE m # s /\ n # s
      <4>1. m \in L /\ n \in L BY <3>4
      <4>2. rank[m] = rank[n] BY <4>1, <3>4, <2>4, <1>1, <1>6, <1>8
      <4>3. QED BY <4>1, <4>2, <1>4
    <3>5. QED BY <3>1, <3>2, <3>3, <3>4
  <2> HIDE DEF L1
  <2>5. QED BY <2>1, <2>2, <2>3, <2>4 DEF Line
<1>13. Line(nx[s], Node \ L1, nx1, b - 1, r)
  <2>1. IF b - 1 = 0 THEN nx[s] = NULL ELSE nx[s] \in Node \ L1 /\ r[nx[s]] = 0
    <3>1. CASE b = 1 BY <3>1, <1>2, <1>5
    <3>2. CASE b # 1
      <4>1. nx[s] \in Node \ L /\ rank[nx[s]] = 1 BY <3>2, <1>1, <1>2, <1>5
      <4>2. nx[s] # s BY <4>1, <1>2
      <4>3. QED BY <4>1, <4>2, <1>8, <3>2, <1>1
    <3>3. QED BY <3>1, <3>2, <1>1
  <2>2. ASSUME NEW n \in Node \ L1
        PROVE  /\ r[n] \in 0..(b - 1) - 1
               /\ IF r[n] = (b - 1) - 1 THEN nx1[n] = NULL
                  ELSE nx1[n] \in Node \ L1 /\ r[nx1[n]] = r[n] + 1
    <3>1. n \in Node \ L /\ n # s /\ n # x /\ rank[n] # 0 BY <1>9, <1>6
    <3>2. r[n] = rank[n] - 1 /\ nx1[n] = nx[n] BY <3>1, <1>7, <1>8
    <3>3. CASE rank[n] = b - 1 BY <3>1, <3>2, <3>3, <1>1, <1>5
    <3>4. CASE rank[n] # b - 1
      <4>1. nx[n] \in Node \ L /\ rank[nx[n]] = rank[n] + 1 BY <3>1, <3>4, <1>5
      <4>2. nx[n] # s BY <4>1, <1>2, <3>1, <1>1
      <4>3. r[nx[n]] = rank[n] BY <4>1, <4>2, <1>8, <1>1
      <4>4. QED BY <3>1, <3>2, <3>4, <4>1, <4>2, <4>3, <1>1
    <3>5. QED BY <3>3, <3>4
  <2>3. ASSUME NEW m \in Node \ L1, NEW n \in Node \ L1, r[m] = r[n] PROVE m = n
    BY <2>3, <1>1, <1>5, <1>8
  <2> HIDE DEF L1
  <2>4. QED BY <2>1, <2>2, <2>3 DEF Line
<1>14. a + 1 \in 0..Cant + 1 /\ b - 1 \in 0..Cant + 1 /\ (a + 1) + (b - 1) = Cant + 1
  BY <1>1, <1>2
<1>15. Split(e, nx[s], L1, nx1, r, a + 1, b - 1)
  <2>1. L1 \subseteq Node BY <1>2, <1>6
  <2> HIDE DEF L1
  <2>2. QED BY <2>1, <1>10, <1>11, <1>12, <1>13, <1>14 DEF Split
<1>16. \A n \in Node \ L1 : r[n] = rank[n] - 1 BY <1>8
<1>17. QED BY <1>15, <1>16 DEF nx1, Inserted

\* what a split says of its nodes, typed
LEMMA SplitFacts ==
  ASSUME NEW e, NEW s, NEW L, NEW nx, NEW rank, NEW a, NEW b, Split(e, s, L, nx, rank, a, b)
  PROVE  /\ a \in Nat /\ b \in Nat /\ a + b = Cant + 1 /\ Cant \in Nat /\ L \subseteq Node
         /\ \A n \in Node : rank[n] \in Nat
         /\ \A n \in L : rank[n] < a
         /\ \A n \in Node \ L : rank[n] < b
         /\ IF a = 0 THEN e = NULL ELSE e \in L /\ rank[e] = 0
         /\ IF b = 0 THEN s = NULL ELSE s \in Node \ L /\ rank[s] = 0
         /\ \A n \in L :
              IF rank[n] = a - 1 THEN nx[n] = NULL ELSE nx[n] \in L /\ rank[nx[n]] = rank[n] + 1
         /\ \A n \in Node \ L :
              IF rank[n] = b - 1 THEN nx[n] = NULL
              ELSE nx[n] \in Node \ L /\ rank[nx[n]] = rank[n] + 1
         /\ \A m, n \in L : rank[m] = rank[n] => m = n
         /\ \A m, n \in Node \ L : rank[m] = rank[n] => m = n
<1>1. /\ a \in Nat /\ b \in Nat /\ a + b = Cant + 1 /\ Cant \in Nat /\ L \subseteq Node
      /\ \A n \in Node : rank[n] \in Nat
  BY CantIsNat DEF Split
<1>2. \A n \in L : rank[n] \in 0..a - 1 BY DEF Split, Line
<1>3. \A n \in Node \ L : rank[n] \in 0..b - 1 BY DEF Split, Line
<1>4. (\A n \in L : rank[n] < a) /\ (\A n \in Node \ L : rank[n] < b) BY <1>1, <1>2, <1>3
<1>5. /\ IF a = 0 THEN e = NULL ELSE e \in L /\ rank[e] = 0
      /\ IF b = 0 THEN s = NULL ELSE s \in Node \ L /\ rank[s] = 0
  BY DEF Split, Line
<1>6. /\ \A n \in L :
           IF rank[n] = a - 1 THEN nx[n] = NULL ELSE nx[n] \in L /\ rank[nx[n]] = rank[n] + 1
      /\ \A m, n \in L : rank[m] = rank[n] => m = n
  BY DEF Split, Line
<1>7. /\ \A n \in Node \ L :
           IF rank[n] = b - 1 THEN nx[n] = NULL ELSE nx[n] \in Node \ L /\ rank[nx[n]] = rank[n] + 1
      /\ \A m, n \in Node \ L : rank[m] = rank[n] => m = n
  BY DEF Split, Line
<1>8. QED BY <1>1, <1>4, <1>5, <1>6, <1>7

\* the lines when partition p has become the first spare node
Spared(e1, p, L, nx1, rank, a, b) ==
  \E r : /\ Split(e1, p, L \ {p}, nx1, r, a - 1, b + 1)
         /\ \A n \in Node \ L : r[n] = rank[n] + 1

\* ... and whoever came before it, if anybody did, has the one behind it next
LEMMA NodeRemoved ==
  ASSUME NEW e, NEW s, NEW L, NEW nx, NEW rank, NEW a, NEW b, Split(e, s, L, nx, rank, a, b),
         NEW p \in L, NEW e1, NEW nx1, nx1 \in [Node -> Node \cup {NULL}],
         nx1[p] = s,
         \A n \in Node \ {p} : nx1[n] = IF n \in L /\ nx[n] = p THEN nx[p] ELSE nx[n],
         e1 = IF e = p THEN nx[p] ELSE e
  PROVE  Spared(e1, p, L, nx1, rank, a, b)
<1> DEFINE L1 == L \ {p}
           F1 == Node \ L1
           r == [n \in Node |-> IF n = p THEN 0
                                ELSE IF n \notin L THEN rank[n] + 1
                                ELSE IF rank[n] > rank[p] THEN rank[n] - 1 ELSE rank[n]]
<1>1. /\ a \in Nat /\ b \in Nat /\ a + b = Cant + 1 /\ Cant \in Nat /\ L \subseteq Node
      /\ \A n \in Node : rank[n] \in Nat
      /\ \A n \in L : rank[n] < a
      /\ \A n \in Node \ L : rank[n] < b
      /\ e \in L /\ rank[e] = 0 /\ a # 0
  <2>1. a # 0 BY SplitFacts
  <2>2. QED BY <2>1, SplitFacts
<1>2. IF b = 0 THEN s = NULL ELSE s \in Node \ L /\ rank[s] = 0 BY SplitFacts
<1>3. /\ \A n \in L :
           IF rank[n] = a - 1 THEN nx[n] = NULL ELSE nx[n] \in L /\ rank[nx[n]] = rank[n] + 1
      /\ \A m, n \in L : rank[m] = rank[n] => m = n
  BY SplitFacts
<1>4. /\ \A n \in Node \ L :
           IF rank[n] = b - 1 THEN nx[n] = NULL
           ELSE nx[n] \in Node \ L /\ rank[nx[n]] = rank[n] + 1
      /\ \A m, n \in Node \ L : rank[m] = rank[n] => m = n
  BY SplitFacts
<1>5. \A n \in Node : r[n] = IF n = p THEN 0
                             ELSE IF n \notin L THEN rank[n] + 1
                             ELSE IF rank[n] > rank[p] THEN rank[n] - 1 ELSE rank[n]
  OBVIOUS
<1>6. p \in Node /\ rank[p] \in Nat /\ rank[p] < a BY <1>1
<1>7. r \in [Node -> 0..Cant]
  <2>1. ASSUME NEW n \in Node PROVE r[n] \in 0..Cant
    <3>1. CASE n = p BY <3>1, <1>1, <1>5
    <3>2. CASE n # p /\ n \notin L BY <3>2, <1>1, <1>5
    <3>3. CASE n # p /\ n \in L BY <3>3, <1>1, <1>5, <1>6
    <3>4. QED BY <3>1, <3>2, <3>3
  <2>2. QED BY <2>1
<1> HIDE DEF r
<1>8. Line(e1, L1, nx1, a - 1, r)
  <2>1. IF a - 1 = 0 THEN e1 = NULL ELSE e1 \in L1 /\ r[e1] = 0
    <3>1. CASE e = p
      <4>1. CASE a = 1 BY <3>1, <4>1, <1>1, <1>3
      <4>2. CASE a # 1
        <5>1. nx[p] \in L /\ rank[nx[p]] = 1 BY <3>1, <4>2, <1>1, <1>3
        <5>2. QED BY <3>1, <4>2, <5>1, <1>1, <1>5
      <4>3. QED BY <4>1, <4>2
    <3>2. CASE e # p
      <4>1. rank[p] # 0 BY <3>2, <1>1, <1>3
      <4>2. QED BY <3>2, <4>1, <1>1, <1>5, <1>6
    <3>3. QED BY <3>1, <3>2
  <2>2. ASSUME NEW n \in L1 PROVE r[n] \in 0..(a - 1) - 1
    <3>1. n \in L /\ n # p /\ rank[n] # rank[p] BY <1>3
    <3>2. rank[n] < a /\ rank[n] \in Nat BY <3>1, <1>1
    <3>3. r[n] = IF rank[n] > rank[p] THEN rank[n] - 1 ELSE rank[n] BY <3>1, <1>1, <1>5
    <3>4. QED BY <3>1, <3>2, <3>3, <1>1, <1>6
  <2>3. ASSUME NEW n \in L1
        PROVE  IF r[n] = (a - 1) - 1 THEN nx1[n] = NULL ELSE nx1[n] \in L1 /\ r[nx1[n]] = r[n] + 1
    <3>1. n \in L /\ n # p /\ rank[n] # rank[p] /\ rank[n] < a /\ rank[n] \in Nat BY <1>1, <1>3
    <3>2. r[n] = IF rank[n] > rank[p] THEN rank[n] - 1 ELSE rank[n] BY <3>1, <1>1, <1>5
    <3>3. CASE nx[n] = p
      <4>1. nx1[n] = nx[p] /\ rank[p] = rank[n] + 1
        <5>1. rank[n] # a - 1 BY <3>1, <3>3, <1>3, <1>6, CantIsNat
        <5>2. QED BY <3>1, <3>3, <5>1, <1>1, <1>3
      <4>2. r[n] = rank[n] BY <3>1, <3>2, <4>1
      <4>3. CASE rank[p] = a - 1 BY <4>1, <4>2, <4>3, <1>1, <1>3
      <4>4. CASE rank[p] # a - 1
        <5>1. nx[p] \in L /\ rank[nx[p]] = rank[p] + 1 BY <4>4, <1>3
        <5>2. nx[p] # p /\ r[nx[p]] = rank[p] BY <5>1, <1>1, <1>5, <1>6
        <5>3. QED BY <4>1, <4>2, <4>4, <5>1, <5>2, <1>1, <1>6, <3>1
      <4>5. QED BY <4>3, <4>4
    <3>4. CASE nx[n] # p
      <4>1. nx1[n] = nx[n] BY <3>1, <3>4, <1>1
      <4>2. rank[n] + 1 # rank[p]
        <5>1. SUFFICES ASSUME rank[n] + 1 = rank[p] PROVE FALSE OBVIOUS
        <5>2. rank[n] # a - 1 BY <5>1, <1>1, <1>6, <3>1
        <5>3. nx[n] \in L /\ rank[nx[n]] = rank[p] BY <5>1, <5>2, <3>1, <1>3
        <5>4. QED BY <5>3, <3>4, <1>3
      <4>3. CASE rank[n] = a - 1
        <5>1. rank[n] > rank[p] BY <4>3, <3>1, <1>1, <1>6
        <5>2. QED BY <5>1, <4>1, <4>3, <3>1, <3>2, <1>1, <1>3
      <4>4. CASE rank[n] # a - 1
        <5>1. nx[n] \in L /\ rank[nx[n]] = rank[n] + 1 BY <4>4, <3>1, <1>3
        <5>2. r[nx[n]] = IF rank[n] + 1 > rank[p] THEN rank[n] ELSE rank[n] + 1
          BY <5>1, <3>1, <3>4, <1>1, <1>5
        <5>3. nx[n] \in L1 BY <5>1, <3>4
        <5>4. r[nx[n]] = r[n] + 1 BY <5>2, <3>1, <3>2, <4>2, <1>6
        <5>5. r[n] # (a - 1) - 1
          <6>1. rank[n] + 1 < a BY <5>1, <1>1
          <6>2. QED BY <6>1, <3>1, <3>2, <4>2, <1>1, <1>6
        <5>6. QED BY <5>3, <5>4, <5>5, <4>1
      <4>5. QED BY <4>3, <4>4
    <3>5. QED BY <3>3, <3>4
  <2>4. ASSUME NEW m \in L1, NEW n \in L1, r[m] = r[n] PROVE m = n
    <3>1. m \in L /\ n \in L /\ m # p /\ n # p /\ rank[m] # rank[p] /\ rank[n] # rank[p] BY <1>3
    <3>2. rank[m] = rank[n] BY <3>1, <2>4, <1>1, <1>5, <1>6
    <3>3. QED BY <3>1, <3>2, <1>3
  <2> HIDE DEF L1
  <2>5. QED BY <2>1, <2>2, <2>3, <2>4 DEF Line
<1>9. Line(p, F1, nx1, b + 1, r)
  <2>1. p \in F1 /\ r[p] = 0 /\ b + 1 # 0 BY <1>1, <1>5, <1>6
  <2>2. ASSUME NEW n \in F1
        PROVE  /\ r[n] \in 0..(b + 1) - 1
               /\ IF r[n] = (b + 1) - 1 THEN nx1[n] = NULL ELSE nx1[n] \in F1 /\ r[nx1[n]] = r[n] + 1
    <3>1. CASE n = p
      <4>1. r[n] = 0 /\ nx1[n] = s BY <3>1, <1>5, <1>6
      <4>2. CASE b = 0 BY <4>1, <4>2, <1>2
      <4>3. CASE b # 0
        <5>1. s \in Node \ L /\ rank[s] = 0 BY <4>3, <1>2
        <5>2. r[s] = 1 BY <5>1, <1>5
        <5>3. QED BY <4>1, <4>3, <5>1, <5>2, <1>1
      <4>4. QED BY <4>2, <4>3
    <3>2. CASE n # p
      <4>1. n \in Node \ L /\ rank[n] < b /\ rank[n] \in Nat /\ r[n] = rank[n] + 1 /\ nx1[n] = nx[n]
        BY <3>2, <1>1, <1>5
      <4>2. CASE rank[n] = b - 1 BY <4>1, <4>2, <1>1, <1>4
      <4>3. CASE rank[n] # b - 1
        <5>1. nx[n] \in Node \ L /\ rank[nx[n]] = rank[n] + 1 BY <4>1, <4>3, <1>4
        <5>2. r[nx[n]] = rank[n] + 2 BY <5>1, <4>1, <1>5
        <5>3. QED BY <4>1, <4>3, <5>1, <5>2, <1>1
      <4>4. QED BY <4>2, <4>3
    <3>3. QED BY <3>1, <3>2
  <2>3. ASSUME NEW m \in F1, NEW n \in F1, r[m] = r[n] PROVE m = n
    <3>1. CASE m = p \/ n = p BY <3>1, <2>3, <1>1, <1>5
    <3>2. CASE m # p /\ n # p BY <3>2, <2>3, <1>1, <1>4, <1>5
    <3>3. QED BY <3>1, <3>2
  <2> HIDE DEF F1
  <2>4. QED BY <2>1, <2>2, <2>3 DEF Line
<1>10. a - 1 \in 0..Cant + 1 /\ b + 1 \in 0..Cant + 1 /\ (a - 1) + (b + 1) = Cant + 1 BY <1>1
<1>11. Split(e1, p, L1, nx1, r, a - 1, b + 1)
  <2>1. L1 \subseteq Node BY <1>1
  <2> HIDE DEF L1
  <2>2. QED BY <2>1, <1>7, <1>8, <1>9, <1>10 DEF Split, F1
<1>12. \A n \in Node \ L : r[n] = rank[n] + 1 BY <1>5, <1>6
<1>13. QED BY <1>11, <1>12 DEF Spared

\* partitions of q that do not overlap
Shared(L, nx, q) ==
  \A n \in L :
    /\ q[n].data \in Nat /\ q[n].chunk \in Nat /\ q[n].chunk >= slab_min_size
    /\ q[n].data + q[n].chunk <= IF nx[n] = NULL THEN table_max_size ELSE q[nx[n]].data

\* there are fewer partitions than nodes
LEMMA NodesAreEnough ==
  ASSUME NEW e, NEW s, NEW L, NEW nx, NEW rank, NEW a, NEW b, Split(e, s, L, nx, rank, a, b),
         NEW q, Shared(L, nx, q)
  PROVE  a <= Cant /\ b \in Nat \ {0}
<1>1. /\ a \in Nat /\ b \in Nat /\ a + b = Cant + 1 /\ Cant \in Nat /\ L \subseteq Node
      /\ \A n \in Node : rank[n] \in Nat
  BY SplitFacts
<1>2. \A n \in L : IF rank[n] = a - 1 THEN nx[n] = NULL ELSE nx[n] \in L /\ rank[nx[n]] = rank[n] + 1
  BY SplitFacts
<1>3. \A m, n \in L : rank[m] = rank[n] => m = n BY SplitFacts
<1>4. Line(e, L, nx, a, rank) BY DEF Split
<1>5. slab_min_size \in Nat \ {0} /\ table_max_size \in Nat /\ Cant = table_max_size \div slab_min_size
  BY EngineAssumption DEF Cant
<1> DEFINE P == {j \in Nat : \A n \in L : rank[n] = j => q[n].data >= j * slab_min_size}
<1>6. 0 \in P BY <1>5 DEF Shared
<1>7. ASSUME NEW j \in Nat, j \in P PROVE j + 1 \in P
  <2> SUFFICES ASSUME NEW n \in L, rank[n] = j + 1 PROVE q[n].data >= (j + 1) * slab_min_size
    OBVIOUS
  <2>1. j \in 0..a - 1 /\ j # a - 1
    <3>1. rank[n] < a BY SplitFacts
    <3>2. QED BY <3>1, <1>1
  <2>2. PICK m \in L : rank[m] = j BY <2>1, <1>1, <1>4, LineIsFull
  <2>3. nx[m] = n BY <2>1, <2>2, <1>2, <1>3
  <2>4. n # NULL BY <1>1, CantIsNat
  <2>5. q[n].data >= q[m].data + slab_min_size BY <2>3, <2>4, <1>5 DEF Shared
  <2>6. q[m].data >= j * slab_min_size BY <1>7, <2>2
  <2>7. (j + 1) * slab_min_size = j * slab_min_size + slab_min_size /\ j * slab_min_size \in Nat BY <1>5
  <2>8. q[n].data \in Nat /\ q[m].data \in Nat BY DEF Shared
  <2>9. QED BY <2>5, <2>6, <2>7, <2>8, <1>5
<1>8. Nat \subseteq P
  <2> HIDE DEF P
  <2>1. QED BY <1>6, <1>7, Induct
<1>9. CASE a = 0 BY <1>9, <1>1
<1>10. CASE a # 0
  <2>1. PICK n \in L : rank[n] = a - 1
    <3>1. a - 1 \in 0..a - 1 BY <1>1, <1>10
    <3>2. QED BY <3>1, <1>1, <1>4, LineIsFull
  <2>2. q[n].data >= (a - 1) * slab_min_size
    <3>1. a - 1 \in P BY <1>1, <1>8, <1>10
    <3>2. QED BY <2>1, <3>1
  <2>3. q[n].data + slab_min_size <= table_max_size BY <2>1, <1>2, <1>5 DEF Shared
  <2>4. a * slab_min_size = (a - 1) * slab_min_size + slab_min_size /\ (a - 1) * slab_min_size \in Nat
    BY <1>1, <1>5, <1>10
  <2>5. a * slab_min_size <= table_max_size
    <3>1. q[n].data \in Nat BY DEF Shared
    <3>2. QED BY <2>2, <2>3, <2>4, <3>1, <1>5
  <2>6. a <= table_max_size \div slab_min_size
    <3> DEFINE x == table_max_size
               y == slab_min_size
    <3>1. x \in Nat /\ y \in Nat \ {0} /\ a \in Nat /\ a * y <= x BY <2>5, <1>1, <1>5
    <3> HIDE DEF x, y
    <3>2. a <= x \div y BY <3>1
    <3>3. QED BY <3>2 DEF x, y
  <2>7. QED BY <2>6, <1>1, <1>5
<1>11. QED BY <1>9, <1>10

\* a partition ends before those that come after it begin
LEMMA PartitionsApart ==
  ASSUME NEW e, NEW s, NEW L, NEW nx, NEW rank, NEW a, NEW b, Split(e, s, L, nx, rank, a, b),
         NEW q, Shared(L, nx, q), NEW m \in L, NEW n \in L, m # n
  PROVE  q[m].data + q[m].chunk <= q[n].data \/ q[n].data + q[n].chunk <= q[m].data
<1>1. /\ a \in Nat /\ L \subseteq Node
      /\ \A k \in Node : rank[k] \in Nat
      /\ \A k \in L : rank[k] < a
  BY SplitFacts
<1>2. \A k \in L : IF rank[k] = a - 1 THEN nx[k] = NULL ELSE nx[k] \in L /\ rank[nx[k]] = rank[k] + 1
  BY SplitFacts
<1>3. \A k, l \in L : rank[k] = rank[l] => k = l BY SplitFacts
<1>4. Line(e, L, nx, a, rank) BY DEF Split
<1> DEFINE P == {j \in Nat : \A k, l \in L : rank[l] = rank[k] + 1 + j => q[k].data + q[k].chunk <= q[l].data}
<1>5. \A k, l \in L : rank[l] = rank[k] + 1 => q[k].data + q[k].chunk <= q[l].data
  <2> SUFFICES ASSUME NEW k \in L, NEW l \in L, rank[l] = rank[k] + 1
               PROVE  q[k].data + q[k].chunk <= q[l].data
    OBVIOUS
  <2>1. rank[k] # a - 1
    <3>1. rank[l] < a /\ rank[l] \in Nat /\ rank[k] \in Nat BY <1>1
    <3>2. QED BY <3>1, <1>1
  <2>2. nx[k] = l BY <2>1, <1>2, <1>3
  <2>3. l # NULL BY <1>1, CantIsNat
  <2>4. QED BY <2>2, <2>3 DEF Shared
<1>6. 0 \in P
  <2>1. \A k \in L : rank[k] \in Nat BY <1>1
  <2>2. QED BY <2>1, <1>5
<1>7. ASSUME NEW j \in Nat, j \in P PROVE j + 1 \in P
  <2> SUFFICES ASSUME NEW k \in L, NEW l \in L, rank[l] = rank[k] + 1 + (j + 1)
               PROVE  q[k].data + q[k].chunk <= q[l].data
    OBVIOUS
  <2>1. rank[l] \in Nat /\ rank[k] \in Nat /\ rank[l] < a BY <1>1
  <2>2. rank[l] - 1 \in 0..a - 1 /\ rank[l] - 1 = rank[k] + 1 + j BY <2>1, <1>1
  <2>3. PICK h \in L : rank[h] = rank[l] - 1 BY <2>2, <1>1, <1>4, LineIsFull
  <2>4. q[k].data + q[k].chunk <= q[h].data BY <1>7, <2>2, <2>3
  <2>5. q[h].data + q[h].chunk <= q[l].data BY <2>1, <2>3, <1>5
  <2>6. /\ q[h].data \in Nat /\ q[h].chunk \in Nat /\ q[k].data \in Nat /\ q[k].chunk \in Nat
        /\ q[l].data \in Nat
    BY DEF Shared
  <2>7. QED BY <2>4, <2>5, <2>6
<1>8. Nat \subseteq P
  <2> HIDE DEF P
  <2>1. QED BY <1>6, <1>7, Induct
<1>9. rank[m] \in Nat /\ rank[n] \in Nat /\ rank[m] # rank[n] BY <1>1, <1>3
<1>10. CASE rank[m] < rank[n]
  <2>1. (rank[n] - rank[m]) - 1 \in P /\ rank[n] = rank[m] + 1 + ((rank[n] - rank[m]) - 1)
    BY <1>8, <1>9, <1>10
  <2>2. QED BY <2>1
<1>11. CASE rank[n] < rank[m]
  <2>1. (rank[m] - rank[n]) - 1 \in P /\ rank[m] = rank[n] + 1 + ((rank[m] - rank[n]) - 1)
    BY <1>8, <1>9, <1>11
  <2>2. QED BY <2>1
<1>12. QED BY <1>9, <1>10, <1>11

-----------------------------------------------------------------------------
(* The memory: both lines and what their partitions span *)

Spanning(q) == {n \in Node : q[n].chunk > 0}

Memory(e, s, nx, q) ==
  /\ \E rank, a, b : /\ Split(e, s, Spanning(q), nx, rank, a, b)
                     /\ Cant \notin Spanning(q) /\ rank[Cant] = b - 1
  /\ Shared(Spanning(q), nx, q)

\* no byte lies between two partitions
Exact(e, nx, q) ==
  /\ q[e].data = 0
  /\ \A n \in Spanning(q) :
       q[n].data + q[n].chunk = IF nx[n] = NULL THEN table_max_size ELSE q[nx[n]].data

LEMMA SizesAreNat == AllSizes \subseteq Nat /\ 0 \in AllSizes
  /\ \A e \in Esquemas : Sizes[e] \subseteq AllSizes /\ \A n \in Sizes[e] : n \in Nat \ {0}
<1>1. \A e \in Esquemas : Sizes[e] \subseteq Nat \ {0} BY EngineAssumption
<1>2. ASSUME NEW n \in AllSizes PROVE n \in Nat BY <1>1 DEF AllSizes
<1>3. ASSUME NEW e \in Esquemas PROVE Sizes[e] \subseteq AllSizes /\ \A n \in Sizes[e] : n \in Nat \ {0}
  BY <1>1 DEF AllSizes
<1>4. 0 \in AllSizes BY DEF AllSizes
<1>5. QED BY <1>2, <1>3, <1>4

LEMMA MemoryNow ==
  ASSUME TypeOK, TwoLines, RoomIsShared
  PROVE  Memory(elements, nodes, next, part) /\ (~Buddy => Exact(elements, next, part))
<1>1. Spanning(part) = InUse /\ InUse \subseteq Node BY DEF Spanning, InUse
<1>2. PICK rank \in [Node -> 0..Cant], a \in 0..Cant + 1, b \in 0..Cant + 1 : Lines(rank, a, b)
  BY DEF TwoLines
<1>3. Split(elements, nodes, InUse, next, rank, a, b) /\ Cant \notin InUse /\ rank[Cant] = b - 1
  BY <1>1, <1>2 DEF Lines, Split, TypeOK
<1>4. Shared(InUse, next, part)
  <2>1. \A n \in Node : part[n].data \in Nat /\ part[n].chunk \in Nat BY DEF TypeOK, Part
  <2>2. QED BY <1>1, <2>1 DEF RoomIsShared, Shared, EndOf
<1>5. ~Buddy => Exact(elements, next, part) BY <1>1 DEF RoomIsShared, Exact, EndOf
<1>6. QED BY <1>1, <1>3, <1>4, <1>5 DEF Memory

LEMMA MemoryThen ==
  ASSUME Memory(elements', nodes', next', part'), ~Buddy' => Exact(elements', next', part')
  PROVE  TwoLines' /\ RoomIsShared' /\ InUse' = Spanning(part')
<1>1. Spanning(part') = InUse' BY DEF Spanning, InUse
<1>2. PICK rank, a, b : /\ Split(elements', nodes', Spanning(part'), next', rank, a, b)
                        /\ Cant \notin Spanning(part') /\ rank[Cant] = b - 1
  BY DEF Memory
<1>3. TwoLines' BY <1>1, <1>2 DEF TwoLines, Lines, Split
<1>4. Shared(InUse', next', part') BY <1>1 DEF Memory
<1>5. RoomIsShared' BY <1>1, <1>4 DEF RoomIsShared, Shared, EndOf, Exact
<1>6. QED BY <1>1, <1>3, <1>5

\* what one reads off the lines
LEMMA MemoryFacts ==
  ASSUME NEW e, NEW s, NEW nx, NEW q, Memory(e, s, nx, q), e # NULL \/ \E n \in Node : q[n].chunk > 0
  PROVE  /\ Spanning(q) \subseteq Node /\ nx \in [Node -> Node \cup {NULL}] /\ NULL \notin Node
         /\ e \in Spanning(q)
         /\ s = NULL \/ s \in Node \ Spanning(q)
         /\ \A n \in Spanning(q) : nx[n] = NULL \/ (nx[n] \in Spanning(q) /\ nx[n] # n /\ nx[n] # e)
         /\ \A n \in Node \ Spanning(q) : nx[n] = NULL \/ (nx[n] \in Node \ Spanning(q) /\ nx[n] # n)
         /\ \A m, n \in Node : nx[m] = nx[n] /\ nx[m] # NULL => m = n
<1>1. PICK rank, a, b : Split(e, s, Spanning(q), nx, rank, a, b) BY DEF Memory
<1> DEFINE L == Spanning(q)
<1>2. /\ a \in Nat /\ b \in Nat /\ a + b = Cant + 1 /\ Cant \in Nat /\ L \subseteq Node
      /\ \A n \in Node : rank[n] \in Nat
      /\ \A n \in L : rank[n] < a
      /\ \A n \in Node \ L : rank[n] < b
      /\ IF a = 0 THEN e = NULL ELSE e \in L /\ rank[e] = 0
      /\ IF b = 0 THEN s = NULL ELSE s \in Node \ L /\ rank[s] = 0
      /\ nx \in [Node -> Node \cup {NULL}]
  <2>1. nx \in [Node -> Node \cup {NULL}] BY <1>1 DEF Split
  <2>2. QED BY <1>1, <2>1, SplitFacts
<1>3. /\ \A n \in L :
           IF rank[n] = a - 1 THEN nx[n] = NULL ELSE nx[n] \in L /\ rank[nx[n]] = rank[n] + 1
      /\ \A m, n \in L : rank[m] = rank[n] => m = n
  BY <1>1, SplitFacts
<1>4. /\ \A n \in Node \ L :
           IF rank[n] = b - 1 THEN nx[n] = NULL
           ELSE nx[n] \in Node \ L /\ rank[nx[n]] = rank[n] + 1
      /\ \A m, n \in Node \ L : rank[m] = rank[n] => m = n
  BY <1>1, SplitFacts
<1>5. NULL \notin Node BY CantIsNat
<1>6. e \in L
  <2>1. CASE e # NULL BY <2>1, <1>2
  <2>2. CASE \E n \in Node : q[n].chunk > 0
    <3>1. PICK n \in L : TRUE BY <2>2 DEF Spanning
    <3>2. a # 0 BY <3>1, <1>2
    <3>3. QED BY <3>2, <1>2
  <2>3. QED BY <2>1, <2>2
<1> HIDE DEF L
<1>7. rank[e] = 0 /\ a # 0 BY <1>2, <1>5, <1>6
<1>8. s = NULL \/ s \in Node \ L BY <1>2
<1>9. ASSUME NEW n \in L PROVE nx[n] = NULL \/ (nx[n] \in L /\ nx[n] # n /\ nx[n] # e)
  BY <1>2, <1>3, <1>7
<1>10. ASSUME NEW n \in Node \ L PROVE nx[n] = NULL \/ (nx[n] \in Node \ L /\ nx[n] # n)
  BY <1>2, <1>4
<1>11. ASSUME NEW m \in Node, NEW n \in Node, nx[m] = nx[n], nx[m] # NULL PROVE m = n
  <2>1. CASE m \in L
    <3>1. n \in L BY <2>1, <1>9, <1>10, <1>11
    <3>2. rank[m] = rank[n] BY <2>1, <3>1, <1>2, <1>3, <1>11
    <3>3. QED BY <2>1, <3>1, <3>2, <1>3
  <2>2. CASE m \notin L
    <3>1. n \in Node \ L BY <2>2, <1>9, <1>10, <1>11
    <3>2. rank[m] = rank[n] BY <2>2, <3>1, <1>2, <1>4, <1>11
    <3>3. QED BY <2>2, <3>1, <3>2, <1>4
  <2>3. QED BY <2>1, <2>2
<1>12. QED BY <1>2, <1>5, <1>6, <1>8, <1>9, <1>10, <1>11 DEF L

\* s comes behind x
PutBehind(s, x, nx) == [nx EXCEPT ![s] = nx[x], ![x] = s]

\* of the memory of x, c bytes stay, and s gets the next d
GivesEnd(s, x, q, q1, c, d) ==
  /\ c \in Nat /\ d \in Nat /\ c >= slab_min_size /\ d >= slab_min_size /\ c + d <= q[x].chunk
  /\ \A n \in Node \ {x, s} : q1[n].data = q[n].data /\ q1[n].chunk = q[n].chunk
  /\ q1[x].data = q[x].data /\ q1[x].chunk = c
  /\ q1[s].data = q[x].data + c /\ q1[s].chunk = d

\* the first spare node becomes the partition behind x and gets the end of its memory
LEMMA MemorySplit ==
  ASSUME NEW e, NEW s, NEW nx, NEW q, Memory(e, s, nx, q), s # NULL, e # NULL,
         NEW x \in Spanning(q), NEW q1, NEW c, NEW d, GivesEnd(s, x, q, q1, c, d),
         NEW nx1, nx1 = PutBehind(s, x, nx)
  PROVE  /\ Memory(e, nx[s], nx1, q1) /\ Spanning(q1) = Spanning(q) \cup {s}
         /\ c + d = q[x].chunk /\ Exact(e, nx, q) => Exact(e, nx1, q1)
<1> DEFINE L == Spanning(q)
           L1 == L \cup {s}
<1>0. /\ c \in Nat /\ d \in Nat /\ c >= slab_min_size /\ d >= slab_min_size /\ c + d <= q[x].chunk
      /\ \A n \in Node \ {x, s} : q1[n].data = q[n].data /\ q1[n].chunk = q[n].chunk
      /\ q1[x].data = q[x].data /\ q1[x].chunk = c
      /\ q1[s].data = q[x].data + c /\ q1[s].chunk = d
  BY DEF GivesEnd
<1>a. nx1 = [nx EXCEPT ![s] = nx[x], ![x] = s] BY DEF PutBehind
<1>1. PICK rank, a, b : /\ Split(e, s, L, nx, rank, a, b)
                        /\ Cant \notin L /\ rank[Cant] = b - 1
  BY DEF Memory
<1>2. /\ L \subseteq Node /\ nx \in [Node -> Node \cup {NULL}] /\ NULL \notin Node
      /\ e \in L /\ s \in Node \ L
      /\ \A n \in L : nx[n] = NULL \/ (nx[n] \in L /\ nx[n] # n /\ nx[n] # e)
  BY MemoryFacts
<1>3. slab_min_size \in Nat \ {0} BY EngineAssumption
<1>4. Shared(L, nx, q) BY DEF Memory
<1>5. Spanning(q1) = L1 BY <1>0, <1>2, <1>3 DEF Spanning
<1>6. PICK r : /\ Split(e, nx[s], L1, nx1, r, a + 1, b - 1)
               /\ \A n \in Node \ L1 : r[n] = rank[n] - 1
  <2>1. x \in L /\ s # NULL BY <1>0, <1>2
  <2> HIDE DEF L
  <2>2. Inserted(e, s, L, nx, rank, a, b, x) BY <1>1, <2>1, NodeInserted
  <2>3. QED BY <2>2, <1>a DEF Inserted
<1>7. /\ nx1[s] = nx[x] /\ nx1[x] = s /\ x # s
      /\ \A n \in Node : n # s /\ n # x => nx1[n] = nx[n]
  BY <1>a, <1>2
<1> HIDE DEF L
<1>8. Shared(L1, nx1, q1)
  <2> SUFFICES ASSUME NEW n \in L1
               PROVE  /\ q1[n].data \in Nat /\ q1[n].chunk \in Nat /\ q1[n].chunk >= slab_min_size
                      /\ q1[n].data + q1[n].chunk <= IF nx1[n] = NULL THEN table_max_size ELSE q1[nx1[n]].data
    BY DEF Shared
  <2>0. /\ q[x].data \in Nat /\ q[x].chunk \in Nat
        /\ q[x].data + q[x].chunk <= IF nx[x] = NULL THEN table_max_size ELSE q[nx[x]].data
    <3>1. x \in L BY DEF L
    <3>2. QED BY <1>0, <3>1, <1>4 DEF Shared
  <2>9. \A m \in L : q[m].data \in Nat BY <1>0, <1>4 DEF Shared
  <2>8. table_max_size \in Nat BY EngineAssumption
  <2>7. x \in L BY DEF L
  <2>1. CASE n = s
    <3>1. nx[x] # NULL => nx[x] \in L /\ nx[x] \in Node \ {x, s} BY <1>0, <1>2, <2>7
    <3>2. nx[x] # NULL => q1[nx[x]].data = q[nx[x]].data BY <1>0, <3>1
    <3>3. nx1[n] = nx[x] /\ q1[n].data = q[x].data + c /\ q1[n].chunk = d BY <1>0, <2>1, <1>7
    <3>4. nx[x] # NULL => q[nx[x]].data \in Nat BY <1>0, <3>1, <2>9
    <3>5. QED BY <1>0, <2>0, <2>8, <3>2, <3>3, <3>4, <1>3
  <2>2. CASE n = x BY <1>0, <2>2, <2>0, <1>2, <1>7
  <2>3. CASE n # s /\ n # x
    <3>1. n \in L BY <1>0, <2>3
    <3>2. nx1[n] = nx[n] BY <1>0, <3>1, <2>3, <1>2, <1>7
    <3>3. q1[n].data = q[n].data /\ q1[n].chunk = q[n].chunk BY <1>0, <2>3, <3>1, <1>2
    <3>4. nx[n] # NULL => q1[nx[n]].data = q[nx[n]].data BY <1>0, <3>1, <1>2
    <3>5. QED BY <1>0, <3>1, <3>2, <3>3, <3>4, <1>4 DEF Shared
  <2>4. QED BY <1>0, <2>1, <2>2, <2>3
<1>9. b - 1 \in Nat \ {0} BY <1>0, <1>6, <1>8, NodesAreEnough
<1>10. Cant \notin L1 /\ r[Cant] = (b - 1) - 1
  <2>1. rank[s] = 0 BY <1>0, <1>1, <1>2, SplitFacts
  <2>2. b \in Nat BY <1>0, <1>1, SplitFacts
  <2>3. Cant # s BY <1>0, <2>1, <2>2, <1>1, <1>9
  <2>4. Cant \in Node BY CantIsNat
  <2>5. QED BY <1>0, <2>3, <2>4, <1>1, <1>6
<1>11. Memory(e, nx[s], nx1, q1) BY <1>0, <1>5, <1>6, <1>8, <1>10 DEF Memory
<1>12. ASSUME c + d = q[x].chunk, Exact(e, nx, q) PROVE Exact(e, nx1, q1)
  <2>1. q1[e].data = 0 BY <1>0, <1>12, <1>2 DEF Exact
  <2>2. ASSUME NEW n \in L1
        PROVE  q1[n].data + q1[n].chunk = IF nx1[n] = NULL THEN table_max_size ELSE q1[nx1[n]].data
    <3>0. /\ q[x].data \in Nat /\ q[x].chunk \in Nat
          /\ q[x].data + q[x].chunk = IF nx[x] = NULL THEN table_max_size ELSE q[nx[x]].data
      BY <1>0, <1>12, <1>4 DEF Shared, Exact, L
    <3>1. CASE n = s
      <4>1. nx[x] # NULL => nx[x] \in Node \ {x, s} BY <1>0, <1>2 DEF L
      <4>2. nx[x] # NULL => q1[nx[x]].data = q[nx[x]].data BY <1>0, <4>1
      <4>3. QED BY <1>0, <3>0, <3>1, <4>2, <1>7, <1>12
    <3>2. CASE n = x BY <1>0, <3>2, <1>2, <1>7
    <3>3. CASE n # s /\ n # x
      <4>1. n \in L BY <1>0, <3>3
      <4>2. nx1[n] = nx[n] BY <1>0, <4>1, <3>3, <1>2, <1>7
      <4>3. q1[n].data = q[n].data /\ q1[n].chunk = q[n].chunk BY <1>0, <3>3, <4>1, <1>2
      <4>4. nx[n] # NULL => q1[nx[n]].data = q[nx[n]].data BY <1>0, <4>1, <1>2
      <4>5. QED BY <1>0, <4>1, <4>2, <4>3, <4>4, <1>12 DEF Exact, L
    <3>4. QED BY <1>0, <3>1, <3>2, <3>3
  <2>3. QED BY <1>0, <2>1, <2>2, <1>5 DEF Exact
<1>13. QED BY <1>0, <1>5, <1>11, <1>12 DEF L

\* partition p becomes the first spare node, and the partition m before or behind it gets its
\* memory
LEMMA MemoryMerged ==
  ASSUME NEW e, NEW s, NEW nx, NEW q, Memory(e, s, nx, q), e # NULL,
         NEW p \in Spanning(q), NEW m \in Spanning(q), nx[m] = p \/ nx[p] = m, NEW q1,
         NEW e1, e1 = IF e = p THEN nx[p] ELSE e,
         NEW nx1, nx1 \in [Node -> Node \cup {NULL}], nx1[p] = s,
         \A n \in Node \ {p} : nx1[n] = IF nx[n] = p THEN nx[p] ELSE nx[n],
         \A n \in Node \ {p, m} : q1[n].data = q[n].data /\ q1[n].chunk = q[n].chunk,
         q1[m].data = IF nx[m] = p THEN q[m].data ELSE q[p].data,
         q1[m].chunk = q[m].chunk + q[p].chunk, q1[p].chunk = 0
  PROVE  /\ Memory(e1, p, nx1, q1) /\ Spanning(q1) = Spanning(q) \ {p} /\ e1 \in Spanning(q1)
         /\ nx[m] = p /\ Exact(e, nx, q) => Exact(e1, nx1, q1)
<1> DEFINE L == Spanning(q)
           L1 == L \ {p}
<1>1. PICK rank, a, b : /\ Split(e, s, L, nx, rank, a, b)
                        /\ Cant \notin L /\ rank[Cant] = b - 1
  BY DEF Memory
<1>2. /\ L \subseteq Node /\ nx \in [Node -> Node \cup {NULL}] /\ NULL \notin Node
      /\ e \in L /\ (s = NULL \/ s \in Node \ L)
      /\ \A n \in L : nx[n] = NULL \/ (nx[n] \in L /\ nx[n] # n /\ nx[n] # e)
      /\ \A n \in Node \ L : nx[n] = NULL \/ (nx[n] \in Node \ L /\ nx[n] # n)
      /\ \A k, n \in Node : nx[k] = nx[n] /\ nx[k] # NULL => k = n
  BY MemoryFacts
<1>3. slab_min_size \in Nat \ {0} /\ table_max_size \in Nat BY EngineAssumption
<1>4. /\ Shared(L, nx, q)
      /\ \A n \in L : q[n].data \in Nat /\ q[n].chunk \in Nat /\ q[n].chunk >= slab_min_size
  BY DEF Memory, Shared
<1>5. m # p /\ p \in L /\ m \in L BY <1>2
<1>6. Spanning(q1) = L1
  <2>1. q1[m].chunk > 0 BY <1>3, <1>4, <1>5
  <2>2. QED BY <2>1, <1>2, <1>5 DEF Spanning
<1>7. PICK r : /\ Split(e1, p, L1, nx1, r, a - 1, b + 1)
               /\ \A n \in Node \ L : r[n] = rank[n] + 1
  <2>1. \A n \in Node \ {p} : nx1[n] = IF n \in L /\ nx[n] = p THEN nx[p] ELSE nx[n] BY <1>2, <1>5
  <2>2. p \in L /\ e1 = (IF e = p THEN nx[p] ELSE e) BY <1>5
  <2>3. nx1 \in [Node -> Node \cup {NULL}] /\ nx1[p] = s OBVIOUS
  <2> HIDE DEF L
  <2>4. Spared(e1, p, L, nx1, rank, a, b)
    <3>1. Split(e, s, L, nx, rank, a, b) BY <1>1
    <3>2. QED BY <3>1, <2>1, <2>2, <2>3, NodeRemoved
  <2>5. QED BY <2>4 DEF Spared
<1> HIDE DEF L
<1>8. ASSUME NEW n \in L1
      PROVE  /\ n \in L /\ n # p /\ nx1[n] # p
             /\ nx[n] # p => nx1[n] = nx[n] /\ (nx[n] = NULL \/ nx[n] \in L1)
             /\ nx[n] = p => nx1[n] = nx[p] /\ (nx[p] = NULL \/ nx[p] \in L1)
             /\ n = m => nx[n] = p \/ nx[p] = n
             /\ n # m => q1[n].data = q[n].data /\ q1[n].chunk = q[n].chunk
  BY <1>2, <1>5
<1>9. Shared(L1, nx1, q1)
  <2> SUFFICES ASSUME NEW n \in L1
               PROVE  /\ q1[n].data \in Nat /\ q1[n].chunk \in Nat /\ q1[n].chunk >= slab_min_size
                      /\ q1[n].data + q1[n].chunk <= IF nx1[n] = NULL THEN table_max_size ELSE q1[nx1[n]].data
    BY DEF Shared
  <2>1. \A k \in L : q[k].data + q[k].chunk <= IF nx[k] = NULL THEN table_max_size ELSE q[nx[k]].data
    BY <1>4 DEF Shared
  <2>2. ASSUME NEW k \in L1, k # m PROVE q1[k].data = q[k].data BY <1>8, <2>2
  <2>3. CASE n = m /\ nx[m] = p
    <3>1. q1[n].data = q[m].data /\ q1[n].chunk = q[m].chunk + q[p].chunk BY <2>3
    <3>2. q[m].data + q[m].chunk <= q[p].data BY <2>1, <2>3, <1>2, <1>5
    <3>3. nx1[n] = nx[p] BY <1>8, <2>3
    <3>4. nx[p] # NULL => nx[p] # m
      <4>1. SUFFICES ASSUME nx[p] = m PROVE FALSE OBVIOUS
      <4>2. q[p].data + q[p].chunk <= q[m].data BY <2>1, <4>1, <1>2, <1>5
      <4>3. q[p].chunk \in Nat /\ q[p].chunk > 0 /\ q[m].chunk \in Nat /\ q[p].data \in Nat /\ q[m].data \in Nat
        BY <1>3, <1>4, <1>5
      <4>4. QED BY <3>2, <4>2, <4>3
    <3>5. q[p].data + q[p].chunk <= IF nx1[n] = NULL THEN table_max_size ELSE q1[nx1[n]].data
      BY <2>1, <2>2, <2>3, <3>3, <3>4, <1>5, <1>8
    <3>6. nx1[n] # NULL => q1[nx1[n]].data \in Nat BY <2>2, <2>3, <3>3, <3>4, <1>4, <1>8
    <3>7. QED BY <3>1, <3>2, <3>5, <3>6, <1>3, <1>4, <1>5
  <2>4. CASE n = m /\ nx[m] # p
    <3>1. q1[n].data = q[p].data /\ q1[n].chunk = q[m].chunk + q[p].chunk /\ nx[p] = m BY <2>4
    <3>2. q[p].data + q[p].chunk <= q[m].data BY <2>1, <3>1, <1>2, <1>5
    <3>3. nx1[n] = nx[n] /\ (nx[n] = NULL \/ nx[n] \in L1) /\ nx[n] # m BY <1>2, <1>5, <1>8, <2>4
    <3>4. q[m].data + q[m].chunk <= IF nx1[n] = NULL THEN table_max_size ELSE q1[nx1[n]].data
      BY <2>1, <2>2, <2>4, <3>3, <1>5
    <3>5. nx1[n] # NULL => q1[nx1[n]].data \in Nat BY <2>2, <3>3, <1>4, <1>8
    <3>6. QED BY <3>1, <3>2, <3>4, <3>5, <1>3, <1>4, <1>5
  <2>5. CASE n # m
    <3>1. /\ n \in L /\ q1[n].data = q[n].data /\ q1[n].chunk = q[n].chunk
          /\ nx[n] # NULL => nx[n] \in L
      BY <1>8, <2>5, <1>2
    <3>2. CASE nx[n] # p
      <4>1. nx1[n] = nx[n] /\ (nx[n] = NULL \/ nx[n] \in L1) BY <1>8, <3>2
      <4>2. CASE nx[n] = m
        <5>1. nx[m] = p
          <6>1. nx[p] # m BY <1>2, <1>5, <1>8, <4>2
          <6>2. QED BY <6>1
        <5>2. QED BY <3>1, <4>1, <4>2, <5>1, <2>1, <1>4
      <4>3. CASE nx[n] # m BY <3>1, <4>1, <4>3, <2>1, <2>2, <1>4
      <4>4. QED BY <4>2, <4>3
    <3>3. CASE nx[n] = p
      <4>1. nx[m] # p BY <3>3, <2>5, <1>2, <1>5, <1>8
      <4>2. nx[p] = m /\ nx1[n] = m /\ q1[m].data = q[p].data BY <4>1, <3>3, <1>8
      <4>3. q[n].data + q[n].chunk <= q[p].data BY <2>1, <3>1, <3>3, <1>2, <1>5
      <4>4. QED BY <3>1, <4>2, <4>3, <1>2, <1>4, <1>5
    <3>4. QED BY <3>2, <3>3
  <2>6. QED BY <2>3, <2>4, <2>5
<1>10. Cant \notin L1 /\ r[Cant] = (b + 1) - 1
  <2>1. Cant \in Node /\ b \in Nat BY <1>1, CantIsNat, SplitFacts
  <2>2. QED BY <2>1, <1>1, <1>7
<1>11. Memory(e1, p, nx1, q1) BY <1>6, <1>7, <1>9, <1>10 DEF Memory
<1>12. e1 \in L1
  <2>1. CASE e = p
    <3>1. nx[m] # p BY <2>1, <1>2, <1>5
    <3>2. QED BY <2>1, <3>1, <1>5
  <2>2. CASE e # p BY <2>2, <1>2
  <2>3. QED BY <2>1, <2>2
<1>13. ASSUME nx[m] = p, Exact(e, nx, q) PROVE Exact(e1, nx1, q1)
  <2>0. \A k \in L : q[k].data + q[k].chunk = IF nx[k] = NULL THEN table_max_size ELSE q[nx[k]].data
    BY <1>13 DEF Exact, L
  <2>1. e # p /\ e1 = e BY <1>13, <1>2, <1>5
  <2>2. q1[e1].data = 0
    <3>1. q[e].data = 0 BY <1>13 DEF Exact
    <3>2. q1[e].data = q[e].data BY <2>1, <1>2, <1>13
    <3>3. QED BY <3>1, <3>2, <2>1
  <2>3. ASSUME NEW n \in L1
        PROVE  q1[n].data + q1[n].chunk = IF nx1[n] = NULL THEN table_max_size ELSE q1[nx1[n]].data
    <3>0. \A k \in L1 : q1[k].data = q[k].data BY <1>8, <1>13
    <3>1. CASE n = m
      <4>1. q1[n].data = q[m].data /\ q1[n].chunk = q[m].chunk + q[p].chunk BY <3>1, <1>13
      <4>2. q[m].data + q[m].chunk = q[p].data BY <2>0, <1>13, <1>2, <1>5
      <4>3. nx1[n] = nx[p] /\ (nx[p] = NULL \/ nx[p] \in L1) BY <1>8, <3>1, <1>13
      <4>4. q[p].data + q[p].chunk = IF nx[p] = NULL THEN table_max_size ELSE q[nx[p]].data BY <2>0, <1>5
      <4>5. QED BY <4>1, <4>2, <4>3, <4>4, <3>0, <1>4, <1>5
    <3>2. CASE n # m
      <4>1. nx[n] # p BY <3>2, <1>2, <1>5, <1>8, <1>13
      <4>2. nx1[n] = nx[n] /\ (nx[n] = NULL \/ nx[n] \in L1) BY <1>8, <4>1
      <4>3. QED BY <4>2, <3>0, <3>2, <1>8, <2>0
    <3>3. QED BY <3>1, <3>2
  <2>4. QED BY <2>2, <2>3, <1>6 DEF Exact
<1>14. QED BY <1>6, <1>11, <1>12, <1>13 DEF L

\* nothing moves
LEMMA MemoryStays ==
  ASSUME NEW e, NEW s, NEW nx, NEW q, Memory(e, s, nx, q), NEW q1,
         \A n \in Node : q1[n].data = q[n].data /\ q1[n].chunk = q[n].chunk
  PROVE  /\ Memory(e, s, nx, q1) /\ Spanning(q1) = Spanning(q)
         /\ e \in Node /\ Exact(e, nx, q) => Exact(e, nx, q1)
<1>1. Spanning(q1) = Spanning(q) BY DEF Spanning
<1>2. /\ Spanning(q) \subseteq Node
      /\ \A n \in Spanning(q) : nx[n] = NULL \/ nx[n] \in Spanning(q)
  <2>1. PICK rank, a, b : Split(e, s, Spanning(q), nx, rank, a, b) BY DEF Memory
  <2>2. QED BY <2>1, SplitFacts
<1>3. Shared(Spanning(q), nx, q1)
  <2>1. ASSUME NEW n \in Spanning(q)
        PROVE  /\ q1[n].data = q[n].data /\ q1[n].chunk = q[n].chunk
               /\ nx[n] # NULL => q1[nx[n]].data = q[nx[n]].data
    BY <1>2
  <2>2. Shared(Spanning(q), nx, q) BY DEF Memory
  <2>3. QED BY <2>1, <2>2 DEF Shared
<1>4. Memory(e, s, nx, q1) BY <1>1, <1>3 DEF Memory
<1>5. ASSUME e \in Node, Exact(e, nx, q) PROVE Exact(e, nx, q1)
  <2>1. ASSUME NEW n \in Spanning(q)
        PROVE  /\ q1[n].data = q[n].data /\ q1[n].chunk = q[n].chunk
               /\ nx[n] # NULL => q1[nx[n]].data = q[nx[n]].data
    BY <1>2
  <2>2. QED BY <1>1, <1>5, <2>1 DEF Exact
<1>6. QED BY <1>1, <1>4, <1>5

\* the memory of m and that of the partition p behind it change places
LEMMA MemorySwapped ==
  ASSUME NEW e, NEW s, NEW nx, NEW q, Memory(e, s, nx, q), e # NULL, Exact(e, nx, q),
         NEW m \in Spanning(q), NEW p, nx[m] = p, p # NULL, NEW q1,
         \A n \in Node \ {p, m} : q1[n].data = q[n].data /\ q1[n].chunk = q[n].chunk,
         q1[m].data = q[m].data, q1[m].chunk = q[p].chunk,
         q1[p].data = q[m].data + q[p].chunk, q1[p].chunk = q[m].chunk
  PROVE  Memory(e, s, nx, q1) /\ Spanning(q1) = Spanning(q) /\ Exact(e, nx, q1)
<1> DEFINE L == Spanning(q)
<1>2. /\ L \subseteq Node /\ NULL \notin Node /\ e \in L
      /\ \A n \in L : nx[n] = NULL \/ (nx[n] \in L /\ nx[n] # n /\ nx[n] # e)
      /\ \A k, n \in Node : nx[k] = nx[n] /\ nx[k] # NULL => k = n
  BY MemoryFacts
<1>3. slab_min_size \in Nat \ {0} /\ table_max_size \in Nat BY EngineAssumption
<1>4. \A n \in L : q[n].data \in Nat /\ q[n].chunk \in Nat /\ q[n].chunk >= slab_min_size
  BY DEF Memory, Shared
<1>5. m # p /\ p \in L /\ m \in L /\ p # e BY <1>2
<1>6. Spanning(q1) = L
  <2>1. q1[m].chunk > 0 /\ q1[p].chunk > 0 /\ q[m].chunk > 0 /\ q[p].chunk > 0 BY <1>3, <1>4, <1>5
  <2>2. QED BY <2>1, <1>2, <1>5 DEF Spanning
<1>7. \A k \in L : q[k].data + q[k].chunk = IF nx[k] = NULL THEN table_max_size ELSE q[nx[k]].data
  BY DEF Exact
<1> HIDE DEF L
<1>8. q[p].data = q[m].data + q[m].chunk BY <1>5, <1>7
<1>9. ASSUME NEW n \in L
      PROVE  /\ q1[n].data \in Nat /\ q1[n].chunk \in Nat /\ q1[n].chunk >= slab_min_size
             /\ q1[n].data + q1[n].chunk = IF nx[n] = NULL THEN table_max_size ELSE q1[nx[n]].data
  <2>1. CASE n = m BY <2>1, <1>3, <1>4, <1>5
  <2>2. CASE n = p
    <3>1. nx[p] # NULL => nx[p] \in L /\ nx[p] # p /\ q1[nx[p]].data = q[nx[p]].data
      BY <1>2, <1>5
    <3>2. q1[p].data + q1[p].chunk = q[p].data + q[p].chunk BY <1>4, <1>5, <1>8
    <3>3. q[p].data + q[p].chunk = IF nx[p] = NULL THEN table_max_size ELSE q1[nx[p]].data
      BY <3>1, <1>5, <1>7
    <3>4. q1[p].data \in Nat /\ q1[p].chunk \in Nat /\ q1[p].chunk >= slab_min_size BY <1>4, <1>5
    <3>5. QED BY <2>2, <3>2, <3>3, <3>4
  <2>3. CASE n # m /\ n # p
    <3>1. q1[n].data = q[n].data /\ q1[n].chunk = q[n].chunk BY <2>3, <1>2
    <3>2. nx[n] # NULL => nx[n] \in Node /\ nx[n] # p BY <2>3, <1>2, <1>5
    <3>3. nx[n] # NULL => q1[nx[n]].data = q[nx[n]].data BY <3>2
    <3>4. QED BY <3>1, <3>3, <1>4, <1>7
  <2>4. QED BY <2>1, <2>2, <2>3
<1>10. Shared(L, nx, q1)
  <2>1. \A n \in L : nx[n] # NULL => q1[nx[n]].data \in Nat BY <1>2, <1>9
  <2>2. QED BY <2>1, <1>3, <1>9 DEF Shared
<1>11. Memory(e, s, nx, q1) BY <1>6, <1>10 DEF Memory, L
<1>12. q1[e].data = 0
  <2>1. q[e].data = 0 BY DEF Exact
  <2>2. q1[e].data = q[e].data BY <1>2, <1>5
  <2>3. QED BY <2>1, <2>2
<1>13. Exact(e, nx, q1) BY <1>6, <1>9, <1>12 DEF Exact
<1>14. QED BY <1>6, <1>11, <1>13 DEF L

\* two nodes never have more memory than there is
LEMMA ChunksFit ==
  ASSUME TypeOK, TwoLines, RoomIsShared, NEW m \in Node, NEW n \in Node, m # n
  PROVE  part[m].chunk + part[n].chunk \in 0..table_max_size
<1>1. \A k \in Node : part[k].chunk \in 0..table_max_size /\ part[k].chunk \in Nat /\ part[k].data \in Nat
  BY EngineAssumption DEF TypeOK, Part
<1>2. CASE m \notin InUse \/ n \notin InUse
  <2>1. part[m].chunk = 0 \/ part[n].chunk = 0 BY <1>1, <1>2 DEF InUse
  <2>2. QED BY <2>1, <1>1
<1>3. CASE m \in InUse /\ n \in InUse
  <2>1. Memory(elements, nodes, next, part) /\ Spanning(part) = InUse BY MemoryNow DEF Spanning, InUse
  <2>2. PICK rank, a, b : Split(elements, nodes, InUse, next, rank, a, b) BY <2>1 DEF Memory
  <2>3. Shared(InUse, next, part) BY <2>1 DEF Memory
  <2>4. \/ part[m].data + part[m].chunk <= part[n].data
        \/ part[n].data + part[n].chunk <= part[m].data
    BY <1>3, <2>2, <2>3, PartitionsApart
  <2>5. \A k \in InUse : part[k].data + part[k].chunk <= table_max_size
    <3>1. ASSUME NEW k \in InUse PROVE EndOf(k) <= table_max_size
      <4>1. next[k] = NULL \/ next[k] \in Node BY DEF TypeOK, InUse
      <4>2. QED BY <4>1, EngineAssumption DEF EndOf, TypeOK, Part
    <3>2. \A k \in InUse : part[k].data + part[k].chunk <= EndOf(k) BY DEF RoomIsShared
    <3>3. \A k \in InUse : EndOf(k) \in Nat /\ k \in Node
      BY EngineAssumption DEF EndOf, TypeOK, Part, InUse
    <3>4. QED BY <3>1, <3>2, <3>3, <1>1, EngineAssumption
  <2>6. QED BY <1>1, <1>3, <2>4, <2>5, EngineAssumption
<1>4. QED BY <1>2, <1>3

\* some partition is smallest
LEMMA SmallestExists ==
  ASSUME NEW S, S # {}, \A n \in S : part[n].chunk \in Nat
  PROVE  \E n \in S : \A m \in S : part[n].chunk <= part[m].chunk
<1> DEFINE P == {j \in Nat : \A n \in S : part[n].chunk >= j}
<1> SUFFICES ASSUME ~\E n \in S : \A m \in S : part[n].chunk <= part[m].chunk PROVE FALSE OBVIOUS
<1>1. 0 \in P OBVIOUS
<1>2. ASSUME NEW j \in Nat, j \in P PROVE j + 1 \in P
  <2>1. ASSUME NEW n \in S PROVE part[n].chunk >= j + 1
    <3>1. PICK m \in S : ~(part[n].chunk <= part[m].chunk) BY <2>1
    <3>2. part[m].chunk >= j BY <1>2
    <3>3. part[n].chunk \in Nat /\ part[m].chunk \in Nat OBVIOUS
    <3>4. QED BY <3>1, <3>2, <3>3
  <2>2. QED BY <2>1
<1>3. Nat \subseteq P
  <2> HIDE DEF P
  <2>1. QED BY <1>1, <1>2, Induct
<1>4. PICK n \in S : TRUE OBVIOUS
<1>5. part[n].chunk + 1 \in P BY <1>3
<1>6. QED BY <1>5

LEMMA ChosenFits == ASSUME TypeOK, TwoLines, Fitting # {} PROVE Chosen \in Fitting
<1> DEFINE S == {n \in Fitting : \A m \in Fitting : part[n].chunk <= part[m].chunk}
<1>1. Fitting \subseteq Listed BY DEF Fitting
<1>2. \A n \in Fitting : part[n].chunk \in Nat
  BY ListedAreInUse, EngineAssumption DEF Fitting, InUse, TypeOK, Part
<1>3. S # {} /\ S \subseteq Listed BY <1>1, <1>2, SmallestExists
<1>4. First(S) \in S BY <1>3, FirstIsOne
<1>5. First(Fitting) \in Fitting BY <1>1, FirstIsOne
<1>6. QED BY <1>4, <1>5 DEF Chosen

LEMMA Found ==
  ASSUME TwoLines, NEW k
  PROVE  obtener(k) = NULL \/ (obtener(k) \in InUse /\ part[obtener(k)].key = k /\ k \in Key)
<1>1. CASE With(k) = {} BY <1>1 DEF obtener
<1>2. CASE With(k) # {}
  <2>1. With(k) \subseteq Listed BY DEF With
  <2>2. First(With(k)) \in With(k) BY <1>2, <2>1, FirstIsOne
  <2>3. QED BY <1>2, <2>2, ListedAreInUse DEF obtener, With
<1>3. QED BY <1>1, <1>2

\* the size of one item changes
LEMMA SumChanges ==
  ASSUME NEW q, NEW q1, NEW m \in Node,
         \A n \in Node : q[n].size \in Nat /\ q1[n].size \in Nat,
         \A n \in Node \ {m} : q1[n].size = q[n].size
  PROVE  /\ Total([n \in Node |-> q[n].size]) \in Nat
         /\ Total([n \in Node |-> q1[n].size]) = Total([n \in Node |-> q[n].size]) - q[m].size + q1[m].size
<1> DEFINE g == [n \in Node |-> q[n].size]
           h == [n \in Node |-> q1[n].size]
           v == q1[m].size
<1>1. g \in [Node -> Nat] /\ v \in Nat /\ g[m] = q[m].size OBVIOUS
<1>2. h = [g EXCEPT ![m] = v] OBVIOUS
<1> HIDE DEF g, h, v
<1>3. Total(g) \in Nat /\ Total([g EXCEPT ![m] = v]) = Total(g) - g[m] + v BY <1>1, TotalChanges
<1>4. QED BY <1>1, <1>2, <1>3 DEF g, h, v

-----------------------------------------------------------------------------
(* Every step keeps the inductive invariant: the callbacks *)

LEMMA LayoutStays ==
  ASSUME TypeOK, TwoLines, RoomIsShared, LinksBack, UNCHANGED <<next, prev, scheme, elements, nodes>>,
         \A n \in Node : part'[n].data = part[n].data /\ part'[n].chunk = part[n].chunk
  PROVE  TwoLines' /\ RoomIsShared' /\ LinksBack' /\ InUse' = InUse
<1>1. Memory(elements, nodes, next, part) /\ (~Buddy => Exact(elements, next, part)) BY MemoryNow
<1>2. elements \in Node BY DEF TypeOK
<1>3. /\ Memory(elements, nodes, next, part')
      /\ ~Buddy => Exact(elements, next, part')
      /\ Spanning(part') = Spanning(part)
  BY <1>1, <1>2, MemoryStays
<1>4. Memory(elements', nodes', next', part') /\ (~Buddy' => Exact(elements', next', part'))
  BY <1>3 DEF Buddy
<1>5. TwoLines' /\ RoomIsShared' /\ InUse' = Spanning(part') BY <1>4, MemoryThen
<1>6. InUse' = InUse BY <1>3, <1>5 DEF Spanning, InUse
<1>7. LinksBack' BY <1>6 DEF LinksBack, Buddy
<1>8. QED BY <1>5, <1>6, <1>7

LEMMA NothingMoves ==
  ASSUME TypeOK, MemoryInv, UNCHANGED <<part, next, prev, scheme, elements, nodes, current>>,
         pc = "found" => UNCHANGED <<pc, it>>, Intact
  PROVE  MemoryInv' /\ InUse' = InUse
<1>1. TwoLines' /\ RoomIsShared' /\ LinksBack' /\ InUse' = InUse BY LayoutStays DEF MemoryInv
<1>2. FreeIsBlank' BY <1>1 DEF MemoryInv, FreeIsBlank, Free, estaReservado, Blank
<1>3. CurrentIsSum' BY DEF MemoryInv, CurrentIsSum
<1>4. QED BY <1>1, <1>2, <1>3 DEF MemoryInv

LEMMA FirstIsInUse == ASSUME TypeOK, TwoLines PROVE elements \in InUse
<1>1. PICK rank, a, b : Lines(rank, a, b) BY DEF TwoLines
<1>2. elements # NULL BY CantIsNat DEF TypeOK
<1>3. QED BY <1>1, <1>2 DEF Lines, Line

LEMMA NextInUse ==
  ASSUME TypeOK, TwoLines, NEW n \in InUse
  PROVE  next[n] = NULL \/ (next[n] \in InUse /\ next[n] # n /\ next[n] # elements)
<1>1. PICK rank, a, b : a \in 0..Cant + 1 /\ rank \in [Node -> 0..Cant] /\ Lines(rank, a, b) BY DEF TwoLines
<1>2. Line(elements, InUse, next, a, rank) BY <1>1 DEF Lines
<1>3. rank[n] \in Nat BY <1>1 DEF InUse
<1>4. a # 0 BY <1>2, <1>3 DEF Line
<1>5. rank[elements] = 0 BY <1>2, <1>4 DEF Line
<1>6. IF rank[n] = a - 1 THEN next[n] = NULL ELSE next[n] \in InUse /\ rank[next[n]] = rank[n] + 1
  BY <1>2 DEF Line
<1>7. QED BY <1>3, <1>5, <1>6

\* a callback takes the lock
LEMMA Entered ==
  ASSUME IInv, Intact, NEW c \in Conn, stage[c] \in {"idle", "releasing"},
         NEW f, NEW l, NEW n, NEW w,
         Enter(c, f, l, n, w), UNCHANGED <<memVars, item, crashed, damage>>,
         w \in Wanted, n \in Node \cup {NULL},
         \/ f = "allocate" /\ l = Eliminar /\ n \in InUse /\ w.key \in Key /\ w.size \in Sizes[scheme]
         \/ f = "allocate" /\ l = ObtenerDireccion /\ n = NULL /\ w.key \in Key /\ w.size \in Sizes[scheme]
         \/ f = "release" /\ l = "remove" /\ n \in Node
         \/ f = "delete" /\ l = Eliminar /\ n \in InUse
         \/ f = "flush" /\ l = "flush" /\ n \in InUse
  PROVE  IInv'
<1>1. /\ TypeOK /\ MemoryInv /\ CallFollows /\ ItemFollows /\ owner = NoConn /\ pc = "idle"
      /\ NoConn \notin Conn
  BY EngineAssumption DEF IInv, Enter, CallFollows
<1>2. TypeOK' BY <1>1 DEF TypeOK, Enter, memVars, schemeVars, Eliminar, ObtenerDireccion, Labels, Calls, Stages
<1>3. MemoryInv' /\ InUse' = InUse BY <1>1, NothingMoves DEF memVars, schemeVars
<1>4. CallFollows'
  BY <1>1 DEF CallFollows, Enter, memVars, schemeVars, Eliminar, ObtenerDireccion, Buddy, TypeOK
<1>5. ItemFollows'
  BY <1>1, <1>3 DEF ItemFollows, Enter, memVars, schemeVars, Eliminar, ObtenerDireccion, Buddy, InUse, TypeOK
<1>6. QED BY <1>2, <1>3, <1>4, <1>5 DEF IInv

LEMMA AllocateKeeps ==
  ASSUME IInv, NEW c \in Conn, NEW k \in Key, NEW n \in Sizes[scheme], Allocate(c, k, n) PROVE IInv'
<1>1. Intact /\ TypeOK /\ TwoLines /\ stage[c] = "idle" BY DEF Allocate, Ready, IInv, MemoryInv
<1>2. scheme \in Esquemas BY <1>1 DEF TypeOK
<1>3. [key |-> k, size |-> n] \in Wanted BY <1>2, SizesAreNat DEF Wanted
<1>4. obtener(k) = NULL \/ obtener(k) \in InUse BY <1>1, Found
<1>5. \/ /\ obtener(k) \in InUse
         /\ Enter(c, "allocate", Eliminar, obtener(k), [key |-> k, size |-> n])
      \/ Enter(c, "allocate", ObtenerDireccion, NULL, [key |-> k, size |-> n])
  BY <1>4 DEF Allocate
<1>6. UNCHANGED <<memVars, item, crashed, damage>> BY DEF Allocate
<1>7. InUse \subseteq Node BY DEF InUse
<1>8. QED BY <1>1, <1>3, <1>5, <1>6, <1>7, Entered

LEMMA ReleaseKeeps == ASSUME IInv, NEW c \in Conn, Release(c) PROVE IInv'
<1>1. Intact /\ stage[c] = "releasing" /\ item[c] \in Node BY DEF Release, Ready, IInv, ItemFollows
<1>2. NoWant \in Wanted BY SizesAreNat DEF NoWant, Wanted
<1>3. QED BY <1>1, <1>2, Entered DEF Release

LEMMA DeleteKeeps == ASSUME IInv, NEW c \in Conn, NEW k \in Key, Delete(c, k) PROVE IInv'
<1>1. Intact /\ TwoLines /\ stage[c] = "idle" BY DEF Delete, Ready, IInv, MemoryInv
<1>2. NoWant \in Wanted BY SizesAreNat DEF NoWant, Wanted
<1>3. obtener(k) \in InUse BY <1>1, Found DEF Delete
<1>4. InUse \subseteq Node BY DEF InUse
<1>5. QED BY <1>1, <1>2, <1>3, <1>4, Entered DEF Delete

LEMMA FlushKeeps == ASSUME IInv, NEW c \in Conn, Flush(c) PROVE IInv'
<1>1. Intact /\ elements \in InUse /\ stage[c] = "idle" BY FirstIsInUse DEF Flush, Ready, IInv, MemoryInv
<1>2. NoWant \in Wanted BY SizesAreNat DEF NoWant, Wanted
<1>3. InUse \subseteq Node BY DEF InUse
<1>4. QED BY <1>1, <1>2, <1>3, Entered DEF Flush

LEMMA ReleaseTestKeeps == ASSUME IInv, NEW c \in Conn, ReleaseTest(c) PROVE IInv'
<1>1. /\ TypeOK /\ Intact /\ MemoryInv /\ CallFollows /\ ItemFollows
      /\ stage[c] \in {"held", "stored", "reading"} /\ UNCHANGED <<memVars, callVars, crashed, damage>>
  BY DEF ReleaseTest, Ready, IInv
<1>2. TypeOK' BY <1>1 DEF TypeOK, ReleaseTest, memVars, schemeVars, callVars, Stages
<1>3. MemoryInv' /\ InUse' = InUse BY <1>1, NothingMoves DEF memVars, schemeVars, callVars
<1>4. CallFollows' BY <1>1 DEF CallFollows, ReleaseTest, memVars, schemeVars, callVars, Buddy, TypeOK
<1>5. ItemFollows'
  BY <1>1, <1>3 DEF ItemFollows, ReleaseTest, memVars, schemeVars, callVars, TypeOK, Free, estaReservado, Need
<1>6. QED BY <1>2, <1>3, <1>4, <1>5 DEF IInv

\* what is found by its key, or read, is not free, so no callback that owns the lock has it in
\* its hands as free
LEMMA StoreKeeps == ASSUME IInv, NEW c \in Conn, Store(c) PROVE IInv'
<1> DEFINE x == obtener(part[item[c]].key)
<1>1. /\ TypeOK /\ Intact /\ MemoryInv /\ CallFollows /\ ItemFollows /\ stage[c] = "held"
      /\ TwoLines /\ RoomIsShared /\ LinksBack
      /\ UNCHANGED <<next, prev, schemeVars, nodes, current, tries, callVars, item, crashed, damage>>
      /\ part' = IF x = NULL THEN part ELSE [part EXCEPT ![x].ocupado = TRUE, ![x].dated = TRUE]
      /\ stage' = [stage EXCEPT ![c] = "stored"]
  BY DEF Store, Ready, IInv, MemoryInv
<1>2. x = NULL \/ (x \in InUse /\ part[x].key \in Key /\ x \in Node) BY <1>1, Found DEF InUse
<1>3. NoKey \notin Key /\ NoConn \notin Conn /\ NULL \notin Node BY EngineAssumption, CantIsNat
<1> HIDE DEF x
<1>4. part \in [Node -> Part] /\ part' \in [Node -> Part]
  <2>1. part \in [Node -> Part] BY <1>1 DEF TypeOK
  <2>2. ASSUME x \in Node PROVE [part[x] EXCEPT !.ocupado = TRUE, !.dated = TRUE] \in Part BY <2>1, <2>2 DEF Part
  <2>3. ASSUME x \in Node PROVE [part EXCEPT ![x].ocupado = TRUE, ![x].dated = TRUE] = [part EXCEPT ![x] = [part[x] EXCEPT !.ocupado = TRUE, !.dated = TRUE]] BY <2>1, <2>3
  <2>4. QED BY <1>1, <1>2, <2>1, <2>2, <2>3
<1>5. TypeOK' BY <1>1, <1>4 DEF TypeOK, schemeVars, callVars, Stages
<1>6. ASSUME NEW n \in Node
      PROVE  /\ part'[n].data = part[n].data /\ part'[n].chunk = part[n].chunk
             /\ part'[n].size = part[n].size /\ part'[n].key = part[n].key
             /\ n # x => part'[n] = part[n]
             /\ n = x => part'[n].ocupado
  BY <1>1, <1>2, <1>3, <1>4 DEF Part
<1>7. TwoLines' /\ RoomIsShared' /\ LinksBack' /\ InUse' = InUse
  BY <1>1, <1>6, LayoutStays DEF schemeVars
<1>8. FreeIsBlank'
  <2>1. ASSUME NEW n \in Node
        PROVE  /\ n \notin InUse \/ (Free(n)' /\ ~(pc = "found" /\ it = n)) => Blank(n)'
               /\ part'[n].key # Garbage /\ (part'[n].ocupado => part'[n].key \in Key)
    <3>1. CASE n = x BY <3>1, <1>1, <1>2, <1>3, <1>6 DEF MemoryInv, FreeIsBlank, Free
    <3>2. CASE n # x BY <3>2, <1>1, <1>6 DEF MemoryInv, FreeIsBlank, Free, estaReservado, Blank
    <3>3. QED BY <3>1, <3>2
  <2>2. QED BY <2>1, <1>1, <1>7 DEF FreeIsBlank, callVars
<1>9. CurrentIsSum'
  <2>1. [n \in Node |-> part'[n].size] = [n \in Node |-> part[n].size] BY <1>6
  <2>2. QED BY <2>1, <1>1 DEF MemoryInv, CurrentIsSum
<1>10. CallFollows' BY <1>1, <1>3 DEF CallFollows, schemeVars, callVars, Buddy, TypeOK
<1>11. ItemFollows'
  <2>1. ASSUME pc \in {"shift", "unite", "halve", "found"} PROVE part'[it] = part[it]
    <3>1. it \in InUse /\ Free(it) BY <1>1, <2>1 DEF ItemFollows
    <3>2. it \in Node /\ it # x BY <3>1, <1>2, <1>3 DEF Free, estaReservado, InUse
    <3>3. QED BY <3>2, <1>6
  <2>2. QED BY <2>1, <1>1, <1>7
      DEF ItemFollows, schemeVars, callVars, TypeOK, Free, estaReservado, Need
<1>12. QED BY <1>5, <1>7, <1>8, <1>9, <1>10, <1>11 DEF IInv, MemoryInv

LEMMA GetKeeps == ASSUME IInv, NEW c \in Conn, NEW k \in Key, Get(c, k) PROVE IInv'
<1> DEFINE x == obtener(k)
<1>1. /\ TypeOK /\ Intact /\ MemoryInv /\ CallFollows /\ ItemFollows /\ stage[c] = "idle"
      /\ owner = NoConn /\ pc = "idle" /\ x # NULL /\ part[x].ocupado
      /\ TwoLines /\ RoomIsShared /\ LinksBack
      /\ UNCHANGED <<next, prev, schemeVars, nodes, current, tries, callVars, crashed, damage>>
      /\ part' = IF lru THEN [part EXCEPT ![x].dated = TRUE] ELSE part
      /\ stage' = [stage EXCEPT ![c] = "reading"] /\ item' = [item EXCEPT ![c] = x]
  BY DEF Get, Ready, IInv, MemoryInv, CallFollows
<1>2. x \in Node BY <1>1, Found DEF InUse
<1> HIDE DEF x
<1>3. NoConn \notin Conn BY EngineAssumption
<1>4. part \in [Node -> Part] /\ part' \in [Node -> Part]
  <2>1. part \in [Node -> Part] BY <1>1 DEF TypeOK
  <2>2. ASSUME x \in Node PROVE [part[x] EXCEPT !.dated = TRUE] \in Part BY <2>1, <2>2 DEF Part
  <2>3. ASSUME x \in Node PROVE [part EXCEPT ![x].dated = TRUE] = [part EXCEPT ![x] = [part[x] EXCEPT !.dated = TRUE]] BY <2>1, <2>3
  <2>4. QED BY <1>1, <1>2, <2>1, <2>2, <2>3
<1>5. TypeOK' BY <1>1, <1>2, <1>4 DEF TypeOK, schemeVars, callVars, Stages
<1>6. ASSUME NEW n \in Node
      PROVE  /\ part'[n].data = part[n].data /\ part'[n].chunk = part[n].chunk
             /\ part'[n].size = part[n].size /\ part'[n].key = part[n].key
             /\ part'[n].ocupado = part[n].ocupado
             /\ n # x => part'[n] = part[n]
  BY <1>1, <1>2, <1>4 DEF Part
<1>7. TwoLines' /\ RoomIsShared' /\ LinksBack' /\ InUse' = InUse
  BY <1>1, <1>6, LayoutStays DEF schemeVars
<1>8. FreeIsBlank'
  <2>1. ASSUME NEW n \in Node
        PROVE  /\ n \notin InUse \/ Free(n)' => Blank(n)'
               /\ part'[n].key # Garbage /\ (part'[n].ocupado => part'[n].key \in Key)
    <3>1. CASE n = x
      <4>1. x \in InUse BY <1>1, Found DEF x
      <4>2. QED BY <3>1, <4>1, <1>1, <1>2, <1>6 DEF MemoryInv, FreeIsBlank, Free
    <3>2. CASE n # x BY <3>2, <1>1, <1>6 DEF MemoryInv, FreeIsBlank, Free, estaReservado, Blank
    <3>3. QED BY <3>1, <3>2
  <2>2. QED BY <2>1, <1>1, <1>7 DEF FreeIsBlank, callVars
<1>9. CurrentIsSum'
  <2>1. [n \in Node |-> part'[n].size] = [n \in Node |-> part[n].size] BY <1>6
  <2>2. QED BY <2>1, <1>1 DEF MemoryInv, CurrentIsSum
<1>10. CallFollows' BY <1>1, <1>3 DEF CallFollows, schemeVars, callVars, Buddy, TypeOK
<1>11. ItemFollows' BY <1>1, <1>2, <1>7 DEF ItemFollows, schemeVars, callVars, TypeOK
<1>12. QED BY <1>5, <1>7, <1>8, <1>9, <1>10, <1>11 DEF IInv, MemoryInv

-----------------------------------------------------------------------------
(* ... the engine *)

LEMMA AllocateTooBigKeeps == ASSUME IInv, AllocateTooBig PROVE IInv'
<1>1. /\ TypeOK /\ Intact /\ MemoryInv /\ CallFollows /\ ItemFollows /\ TwoLines
      /\ pc = "toobig" /\ owner \in Conn
  BY DEF AllocateTooBig, Running, IInv, MemoryInv, CallFollows, TypeOK
<1>a. NoWant \in Wanted /\ NoConn \notin Conn BY SizesAreNat, EngineAssumption DEF NoWant, Wanted
<1>2. TypeOK' BY <1>1, <1>a DEF TypeOK, AllocateTooBig, memVars, schemeVars, connVars, Labels, Calls, Stages, Damages, Leave, NoWant
<1>3. MemoryInv' /\ InUse' = InUse BY <1>1, NothingMoves DEF AllocateTooBig, memVars, schemeVars, Leave, NoWant
<1>4. CallFollows' BY <1>1, <1>a DEF CallFollows, AllocateTooBig, memVars, schemeVars, connVars, TypeOK, Buddy, Leave, NoWant
<1>5. ItemFollows' BY <1>1, <1>3, <1>a DEF ItemFollows, AllocateTooBig, memVars, schemeVars, connVars, TypeOK, Buddy, Free, estaReservado, Need, NULL, Leave, NoWant
<1>6. QED BY <1>2, <1>3, <1>4, <1>5 DEF IInv

LEMMA FlushNextKeeps == ASSUME IInv, FlushNext PROVE IInv'
<1>1. /\ TypeOK /\ Intact /\ MemoryInv /\ CallFollows /\ ItemFollows /\ TwoLines
      /\ pc = "flush" /\ owner \in Conn /\ call = "flush"
  BY DEF FlushNext, Running, IInv, MemoryInv, CallFollows, TypeOK
<1>a. /\ NoWant \in Wanted /\ NoConn \notin Conn /\ InUse \subseteq Node
      /\ it = NULL \/ (it \in InUse /\ (next[it] = NULL \/ next[it] \in InUse))
  <2>1. NoWant \in Wanted /\ NoConn \notin Conn BY SizesAreNat, EngineAssumption DEF NoWant, Wanted
  <2>2. it = NULL \/ it \in InUse BY <1>1 DEF ItemFollows
  <2>3. QED BY <1>1, <2>1, <2>2, NextInUse DEF InUse
<1>2. TypeOK' BY <1>1, <1>a DEF TypeOK, FlushNext, memVars, schemeVars, connVars, Labels, Calls, Stages, Damages, Leave, NoWant, Eliminar
<1>3. MemoryInv' /\ InUse' = InUse BY <1>1, NothingMoves DEF FlushNext, memVars, schemeVars, Leave, NoWant, Eliminar
<1>4. CallFollows' BY <1>1, <1>a DEF CallFollows, FlushNext, memVars, schemeVars, connVars, TypeOK, Buddy, Leave, NoWant, Eliminar
<1>5. ItemFollows' BY <1>1, <1>3, <1>a DEF ItemFollows, FlushNext, memVars, schemeVars, connVars, TypeOK, Buddy, Free, estaReservado, Need, NULL, Leave, NoWant, Eliminar
<1>6. QED BY <1>2, <1>3, <1>4, <1>5 DEF IInv

LEMMA RemovedKeeps == ASSUME IInv, Removed PROVE IInv'
<1>1. /\ TypeOK /\ Intact /\ MemoryInv /\ CallFollows /\ ItemFollows /\ TwoLines
      /\ pc = "removed" /\ owner \in Conn
  BY DEF Removed, Running, IInv, MemoryInv, CallFollows, TypeOK
<1>a. /\ NoWant \in Wanted /\ NoConn \notin Conn /\ InUse \subseteq Node
      /\ it \in InUse /\ (next[it] = NULL \/ next[it] \in InUse)
  <2>1. NoWant \in Wanted /\ NoConn \notin Conn BY SizesAreNat, EngineAssumption DEF NoWant, Wanted
  <2>2. it \in InUse BY <1>1 DEF ItemFollows
  <2>3. QED BY <1>1, <2>1, <2>2, NextInUse DEF InUse
<1>2. TypeOK' BY <1>1, <1>a DEF TypeOK, Removed, memVars, schemeVars, connVars, Labels, Calls, Stages, Damages, Leave, NoWant, ObtenerDireccion
<1>3. MemoryInv' /\ InUse' = InUse BY <1>1, NothingMoves DEF Removed, memVars, schemeVars, Leave, NoWant, ObtenerDireccion
<1>4. CallFollows' BY <1>1, <1>a DEF CallFollows, Removed, memVars, schemeVars, connVars, TypeOK, Buddy, Leave, NoWant, ObtenerDireccion
<1>5. ItemFollows' BY <1>1, <1>3, <1>a DEF ItemFollows, Removed, memVars, schemeVars, connVars, TypeOK, Buddy, Free, estaReservado, Need, NULL, Leave, NoWant, ObtenerDireccion
<1>6. QED BY <1>2, <1>3, <1>4, <1>5 DEF IInv

\* the partition found is no longer free
LEMMA AllocateFoundKeeps == ASSUME IInv, AllocateFound PROVE IInv'
<1>1. /\ TypeOK /\ Intact /\ MemoryInv /\ CallFollows /\ ItemFollows
      /\ TwoLines /\ RoomIsShared /\ LinksBack
      /\ pc = "found" /\ owner \in Conn /\ call = "allocate" /\ want.key \in Key
      /\ it \in InUse /\ it \in Node /\ Free(it)
  BY DEF AllocateFound, Running, IInv, MemoryInv, CallFollows, ItemFollows, TypeOK, InUse
<1>2. /\ part' = [part EXCEPT ![it].key = want.key] /\ Leave("held", it)
      /\ UNCHANGED <<next, prev, schemeVars, nodes, current, tries, crashed, damage>>
  BY DEF AllocateFound
<1>a. NoWant \in Wanted /\ NoConn \notin Conn /\ NoKey \notin Key /\ Garbage \notin Key
  BY SizesAreNat, EngineAssumption DEF NoWant, Wanted
<1>3. part \in [Node -> Part] /\ part' \in [Node -> Part]
  <2>1. part \in [Node -> Part] BY <1>1 DEF TypeOK
  <2>2. [part[it] EXCEPT !.key = want.key] \in Part BY <1>1, <2>1 DEF Part
  <2>3. part' = [part EXCEPT ![it] = [part[it] EXCEPT !.key = want.key]] BY <1>1, <1>2, <2>1
  <2>4. QED BY <1>1, <2>1, <2>2, <2>3
<1>4. TypeOK' BY <1>1, <1>2, <1>3, <1>a DEF TypeOK, Leave, schemeVars, Labels, Calls, Stages
<1>5. ASSUME NEW n \in Node
      PROVE  /\ part'[n].data = part[n].data /\ part'[n].chunk = part[n].chunk
             /\ part'[n].size = part[n].size /\ part'[n].ocupado = part[n].ocupado
             /\ n # it => part'[n] = part[n]
             /\ n = it => part'[n].key = want.key /\ ~part'[n].ocupado
  BY <1>1, <1>2, <1>3 DEF Part, Free
<1>6. TwoLines' /\ RoomIsShared' /\ LinksBack' /\ InUse' = InUse
  BY <1>1, <1>2, <1>5, LayoutStays DEF schemeVars
<1>7. FreeIsBlank'
  <2>1. ASSUME NEW n \in Node
        PROVE  /\ n \notin InUse \/ Free(n)' => Blank(n)'
               /\ part'[n].key # Garbage /\ (part'[n].ocupado => part'[n].key \in Key)
    <3>1. CASE n = it BY <3>1, <1>1, <1>5, <1>a DEF Free, estaReservado
    <3>2. CASE n # it BY <3>2, <1>1, <1>5 DEF MemoryInv, FreeIsBlank, Free, estaReservado, Blank
    <3>3. QED BY <3>1, <3>2
  <2>2. pc' = "idle" BY <1>2 DEF Leave
  <2>3. QED BY <2>1, <2>2, <1>6 DEF FreeIsBlank
<1>8. CurrentIsSum'
  <2>1. [n \in Node |-> part'[n].size] = [n \in Node |-> part[n].size] BY <1>5
  <2>2. QED BY <2>1, <1>1, <1>2 DEF MemoryInv, CurrentIsSum
<1>9. CallFollows' BY <1>1, <1>2, <1>a DEF CallFollows, Leave, NoWant, schemeVars, TypeOK
<1>10. ItemFollows' BY <1>1, <1>2, <1>6 DEF ItemFollows, Leave, schemeVars, TypeOK
<1>11. QED BY <1>4, <1>6, <1>7, <1>8, <1>9, <1>10 DEF IInv, MemoryInv

-----------------------------------------------------------------------------
(* ... the steps of both schemes that touch no partition *)

LEMMA BackDoneKeeps == ASSUME IInv, BackDone PROVE IInv'
<1>1. /\ TypeOK /\ Intact /\ MemoryInv /\ CallFollows /\ ItemFollows /\ TwoLines
      /\ pc = "back"
  BY DEF BackDone, Running, IInv, MemoryInv
<1>2. TypeOK' BY <1>1 DEF TypeOK, BackDone, memVars, schemeVars, connVars, Labels, Calls, Stages, Damages
<1>3. MemoryInv' /\ InUse' = InUse BY <1>1, NothingMoves DEF BackDone, memVars, schemeVars
<1>4. CallFollows' BY <1>1 DEF CallFollows, BackDone, memVars, schemeVars, connVars, TypeOK, Buddy
<1>5. ItemFollows' BY <1>1, <1>3 DEF ItemFollows, BackDone, memVars, schemeVars, connVars, TypeOK, Buddy, Free, estaReservado, Need, NULL
<1>6. QED BY <1>2, <1>3, <1>4, <1>5 DEF IInv

LEMMA ForwardDoneKeeps == ASSUME IInv, ForwardDone PROVE IInv'
<1>1. /\ TypeOK /\ Intact /\ MemoryInv /\ CallFollows /\ ItemFollows /\ TwoLines
      /\ pc = "forward"
  BY DEF ForwardDone, Running, IInv, MemoryInv
<1>2. TypeOK' BY <1>1 DEF TypeOK, ForwardDone, memVars, schemeVars, connVars, Labels, Calls, Stages, Damages
<1>3. MemoryInv' /\ InUse' = InUse BY <1>1, NothingMoves DEF ForwardDone, memVars, schemeVars
<1>4. CallFollows' BY <1>1 DEF CallFollows, ForwardDone, memVars, schemeVars, connVars, TypeOK, Buddy
<1>5. ItemFollows' BY <1>1, <1>3 DEF ItemFollows, ForwardDone, memVars, schemeVars, connVars, TypeOK, Buddy, Free, estaReservado, Need, NULL
<1>6. QED BY <1>2, <1>3, <1>4, <1>5 DEF IInv

LEMMA TooBigKeeps == ASSUME IInv, TooBig PROVE IInv'
<1>1. /\ TypeOK /\ Intact /\ MemoryInv /\ CallFollows /\ ItemFollows /\ TwoLines
      /\ pc = "find"
  BY DEF TooBig, Running, IInv, MemoryInv
<1>2. TypeOK' BY <1>1 DEF TypeOK, TooBig, memVars, schemeVars, connVars, Labels, Calls, Stages, Damages
<1>3. MemoryInv' /\ InUse' = InUse BY <1>1, NothingMoves DEF TooBig, memVars, schemeVars
<1>4. CallFollows' BY <1>1 DEF CallFollows, TooBig, memVars, schemeVars, connVars, TypeOK, Buddy
<1>5. ItemFollows' BY <1>1, <1>3 DEF ItemFollows, TooBig, memVars, schemeVars, connVars, TypeOK, Buddy, Free, estaReservado, Need, NULL
<1>6. QED BY <1>2, <1>3, <1>4, <1>5 DEF IInv

LEMMA NoFitKeeps == ASSUME IInv, NoFit PROVE IInv'
<1>1. /\ TypeOK /\ Intact /\ MemoryInv /\ CallFollows /\ ItemFollows /\ TwoLines
      /\ pc = "find" /\ Listed = InUse
  BY ListedAreInUse DEF NoFit, Running, IInv, MemoryInv
<1>2. TypeOK'
  <2>1. tries' \in Int BY <1>1 DEF NoFit, TypeOK
  <2>2. it' \in Node \cup {NULL} /\ crashed' \in BOOLEAN /\ pc' \in Labels
    <3>1. Victims \subseteq Node BY <1>1 DEF Victims, InUse
    <3>2. it \in Node \cup {NULL} /\ crashed \in BOOLEAN /\ pc \in Labels BY <1>1 DEF TypeOK
    <3>3. CASE pc' = "compact" /\ UNCHANGED <<it, crashed>> BY <3>2, <3>3 DEF Labels
    <3>4. CASE it' \in Victims /\ pc' = "remove" /\ UNCHANGED crashed BY <3>1, <3>2, <3>4 DEF Labels
    <3>5. CASE crashed' = TRUE /\ UNCHANGED <<it, pc>> BY <3>2, <3>5
    <3>6. QED BY <3>3, <3>4, <3>5 DEF NoFit
  <2>3. UNCHANGED <<schemeVars, part, next, prev, nodes, current, owner, call, want, connVars, damage>>
    BY DEF NoFit
  <2>4. QED BY <1>1, <2>1, <2>2, <2>3 DEF TypeOK, schemeVars, connVars
<1>3. MemoryInv' /\ InUse' = InUse BY <1>1, NothingMoves DEF NoFit, memVars, schemeVars, Victims, InUse
<1>4. CallFollows' BY <1>1 DEF CallFollows, NoFit, memVars, schemeVars, connVars, TypeOK, Buddy, Victims, InUse
<1>5. ItemFollows' BY <1>1, <1>3 DEF ItemFollows, NoFit, memVars, schemeVars, connVars, TypeOK, Buddy, Free, estaReservado, Need, NULL, Victims, InUse
<1>6. QED BY <1>2, <1>3, <1>4, <1>5 DEF IInv

LEMMA CompactFromKeeps == ASSUME IInv, CompactFrom PROVE IInv'
<1>1. /\ TypeOK /\ Intact /\ MemoryInv /\ CallFollows /\ ItemFollows /\ TwoLines
      /\ pc = "compact" /\ it' \in InUse /\ Free(it')
  <2>1. /\ TypeOK /\ Intact /\ MemoryInv /\ CallFollows /\ ItemFollows /\ TwoLines /\ pc = "compact"
    BY DEF CompactFrom, Running, IInv, MemoryInv
  <2> DEFINE S == {n \in Listed : Free(n)}
  <2>2. S # {} /\ S \subseteq Listed /\ it' = First(S) BY DEF CompactFrom
  <2>3. it' \in S BY <2>2, FirstIsOne
  <2>4. QED BY <2>1, <2>3, ListedAreInUse
<1>2. TypeOK' BY <1>1 DEF TypeOK, CompactFrom, memVars, schemeVars, connVars, Labels, Calls, Stages, Damages, InUse
<1>3. MemoryInv' /\ InUse' = InUse BY <1>1, NothingMoves DEF CompactFrom, memVars, schemeVars, InUse
<1>4. CallFollows' BY <1>1 DEF CallFollows, CompactFrom, memVars, schemeVars, connVars, TypeOK, Buddy, InUse
<1>5. ItemFollows' BY <1>1, <1>3 DEF ItemFollows, CompactFrom, memVars, schemeVars, connVars, TypeOK, Buddy, Free, estaReservado, Need, NULL, InUse
<1>6. QED BY <1>2, <1>3, <1>4, <1>5 DEF IInv

LEMMA CompactDoneKeeps == ASSUME IInv, CompactDone PROVE IInv'
<1>1. /\ TypeOK /\ Intact /\ MemoryInv /\ CallFollows /\ ItemFollows /\ TwoLines
      /\ pc \in {"compact", "shift"}
  BY DEF CompactDone, Running, IInv, MemoryInv
<1>2. TypeOK' BY <1>1, EngineAssumption DEF TypeOK, CompactDone, memVars, schemeVars, connVars, Labels, Calls, Stages, Damages
<1>3. MemoryInv' /\ InUse' = InUse BY <1>1, NothingMoves DEF CompactDone, memVars, schemeVars
<1>4. CallFollows' BY <1>1 DEF CallFollows, CompactDone, memVars, schemeVars, connVars, TypeOK, Buddy
<1>5. ItemFollows' BY <1>1, <1>3 DEF ItemFollows, CompactDone, memVars, schemeVars, connVars, TypeOK, Buddy, Free, estaReservado, Need, NULL
<1>6. QED BY <1>2, <1>3, <1>4, <1>5 DEF IInv

LEMMA UniteDoneKeeps == ASSUME IInv, UniteDone PROVE IInv'
<1>1. /\ TypeOK /\ Intact /\ MemoryInv /\ CallFollows /\ ItemFollows /\ TwoLines
      /\ pc = "unite"
  BY DEF UniteDone, Running, IInv, MemoryInv
<1>2. TypeOK' BY <1>1 DEF TypeOK, UniteDone, memVars, schemeVars, connVars, Labels, Calls, Stages, Damages
<1>3. MemoryInv' /\ InUse' = InUse BY <1>1, NothingMoves DEF UniteDone, memVars, schemeVars
<1>4. CallFollows' BY <1>1 DEF CallFollows, UniteDone, memVars, schemeVars, connVars, TypeOK, Buddy
<1>5. ItemFollows' BY <1>1, <1>3 DEF ItemFollows, UniteDone, memVars, schemeVars, connVars, TypeOK, Buddy, Free, estaReservado, Need, NULL
<1>6. QED BY <1>2, <1>3, <1>4, <1>5 DEF IInv

LEMMA BuddyTooBigKeeps == ASSUME IInv, BuddyTooBig PROVE IInv'
<1>1. /\ TypeOK /\ Intact /\ MemoryInv /\ CallFollows /\ ItemFollows /\ TwoLines
      /\ pc = "find buddy"
  BY DEF BuddyTooBig, Running, IInv, MemoryInv
<1>2. TypeOK' BY <1>1 DEF TypeOK, BuddyTooBig, memVars, schemeVars, connVars, Labels, Calls, Stages, Damages
<1>3. MemoryInv' /\ InUse' = InUse BY <1>1, NothingMoves DEF BuddyTooBig, memVars, schemeVars
<1>4. CallFollows' BY <1>1 DEF CallFollows, BuddyTooBig, memVars, schemeVars, connVars, TypeOK, Buddy
<1>5. ItemFollows' BY <1>1, <1>3 DEF ItemFollows, BuddyTooBig, memVars, schemeVars, connVars, TypeOK, Buddy, Free, estaReservado, Need, NULL
<1>6. QED BY <1>2, <1>3, <1>4, <1>5 DEF IInv

LEMMA BuddyFitsKeeps == ASSUME IInv, BuddyFits PROVE IInv'
<1>1. /\ TypeOK /\ Intact /\ MemoryInv /\ CallFollows /\ ItemFollows /\ TwoLines
      /\ pc = "find buddy" /\ it' \in InUse /\ Free(it') /\ part[it'].chunk >= Need
  <2>1. /\ TypeOK /\ Intact /\ MemoryInv /\ CallFollows /\ ItemFollows /\ TwoLines
        /\ pc = "find buddy" /\ Fitting # {} /\ it' = Chosen
    BY DEF BuddyFits, Running, IInv, MemoryInv
  <2>2. QED BY <2>1, ChosenFits, ListedAreInUse DEF Fitting
<1>2. TypeOK' BY <1>1 DEF TypeOK, BuddyFits, memVars, schemeVars, connVars, Labels, Calls, Stages, Damages, InUse
<1>3. MemoryInv' /\ InUse' = InUse BY <1>1, NothingMoves DEF BuddyFits, memVars, schemeVars, InUse
<1>4. CallFollows' BY <1>1 DEF CallFollows, BuddyFits, memVars, schemeVars, connVars, TypeOK, Buddy, InUse
<1>5. ItemFollows' BY <1>1, <1>3 DEF ItemFollows, BuddyFits, memVars, schemeVars, connVars, TypeOK, Buddy, Free, estaReservado, Need, NULL, InUse
<1>6. QED BY <1>2, <1>3, <1>4, <1>5 DEF IInv

LEMMA BuddyNoFitKeeps == ASSUME IInv, BuddyNoFit PROVE IInv'
<1>1. /\ TypeOK /\ Intact /\ MemoryInv /\ CallFollows /\ ItemFollows /\ TwoLines
      /\ pc = "find buddy" /\ Listed = InUse
  BY ListedAreInUse DEF BuddyNoFit, Running, IInv, MemoryInv
<1>2. TypeOK' BY <1>1 DEF TypeOK, BuddyNoFit, memVars, schemeVars, connVars, Labels, Calls, Stages, Damages, Victims, InUse
<1>3. MemoryInv' /\ InUse' = InUse BY <1>1, NothingMoves DEF BuddyNoFit, memVars, schemeVars, Victims, InUse
<1>4. CallFollows' BY <1>1 DEF CallFollows, BuddyNoFit, memVars, schemeVars, connVars, TypeOK, Buddy, Victims, InUse
<1>5. ItemFollows' BY <1>1, <1>3 DEF ItemFollows, BuddyNoFit, memVars, schemeVars, connVars, TypeOK, Buddy, Free, estaReservado, Need, NULL, Victims, InUse
<1>6. QED BY <1>2, <1>3, <1>4, <1>5 DEF IInv

-----------------------------------------------------------------------------
(* ... the steps that give, take or move memory *)

\* the item in partition n is gone
LEMMA Cleared ==
  ASSUME TypeOK, MemoryInv, Intact, it \in Node, pc # "found",
         part' = [part EXCEPT ![it] = Empty(@.data, @.chunk)], current' = current - part[it].size,
         UNCHANGED <<next, prev, scheme, elements, nodes, it>>
  PROVE  /\ part' \in [Node -> Part] /\ current' \in Int /\ MemoryInv' /\ InUse' = InUse /\ Free(it)'
<1>1. TwoLines /\ RoomIsShared /\ LinksBack /\ part \in [Node -> Part] BY DEF MemoryInv, TypeOK
<1>2. Empty(part[it].data, part[it].chunk) \in Part BY <1>1, SizesAreNat DEF Empty, Part
<1>3. part' \in [Node -> Part] /\ part' = [part EXCEPT ![it] = Empty(part[it].data, part[it].chunk)]
  BY <1>1, <1>2
<1>4. ASSUME NEW n \in Node
      PROVE  /\ part'[n].data = part[n].data /\ part'[n].chunk = part[n].chunk
             /\ n # it => part'[n] = part[n]
             /\ n = it => part'[n] = Empty(part'[n].data, part'[n].chunk)
  <2>1. CASE n = it
    <3>1. part'[n] = Empty(part[n].data, part[n].chunk) BY <2>1, <1>1, <1>3
    <3>2. part'[n].data = part[n].data /\ part'[n].chunk = part[n].chunk BY <3>1 DEF Empty
    <3>3. QED BY <2>1, <3>1, <3>2
  <2>2. CASE n # it BY <2>2, <1>1, <1>3
  <2>3. QED BY <2>1, <2>2
<1>5. TwoLines' /\ RoomIsShared' /\ LinksBack' /\ InUse' = InUse BY <1>1, <1>4, LayoutStays
<1>6. \A n \in Node : part[n].size \in Nat /\ part'[n].size \in Nat
  BY <1>1, <1>3, SizesAreNat DEF Part
<1>7. current' \in Int BY <1>6 DEF TypeOK
<1>8. CurrentIsSum'
  <2>1. part'[it].size = 0 BY <1>4 DEF Empty
  <2>2. Total([n \in Node |-> part'[n].size]) = Total([n \in Node |-> part[n].size]) - part[it].size + part'[it].size
    <3> DEFINE q == part'
    <3>1. \A n \in Node \ {it} : q[n].size = part[n].size BY <1>4
    <3>2. \A n \in Node : part[n].size \in Nat /\ q[n].size \in Nat BY <1>6
    <3> HIDE DEF q
    <3>3. Total([n \in Node |-> q[n].size]) = Total([n \in Node |-> part[n].size]) - part[it].size + q[it].size
      BY <3>1, <3>2, SumChanges
    <3>4. QED BY <3>3 DEF q
  <2>3. current = Total([n \in Node |-> part[n].size]) BY DEF MemoryInv, CurrentIsSum
  <2>4. current \in Int /\ part[it].size \in Nat BY <1>6 DEF TypeOK
  <2>5. Total([n \in Node |-> part'[n].size]) = current' BY <2>1, <2>2, <2>3, <2>4
  <2>6. QED BY <2>5 DEF CurrentIsSum
<1>9. Garbage # NoKey BY EngineAssumption
<1>10. FreeIsBlank'
  <2>1. ASSUME NEW n \in Node
        PROVE  /\ n \notin InUse \/ Free(n)' => Blank(n)'
               /\ part'[n].key # Garbage /\ (part'[n].ocupado => part'[n].key \in Key)
    <3>1. CASE n = it
      <4>1. part'[n].key = NoKey /\ part'[n].ocupado = FALSE BY <3>1, <1>4 DEF Empty
      <4>2. Blank(n)' BY <3>1, <1>4 DEF Blank
      <4>3. QED BY <4>1, <4>2, <1>9
    <3>2. CASE n # it BY <3>2, <1>4 DEF MemoryInv, FreeIsBlank, Free, estaReservado, Blank
    <3>3. QED BY <3>1, <3>2
  <2>2. QED BY <2>1, <1>5 DEF FreeIsBlank
<1>11. Free(it)' BY <1>4 DEF Free, estaReservado, Empty
<1>12. QED BY <1>3, <1>5, <1>7, <1>8, <1>10, <1>11 DEF MemoryInv

LEMMA ClearKeeps == ASSUME IInv, Clear PROVE IInv'
<1>1. /\ TypeOK /\ Intact /\ MemoryInv /\ CallFollows /\ ItemFollows /\ TwoLines
      /\ pc = "remove" /\ it \in Node
  BY DEF Clear, Running, IInv, MemoryInv, ItemFollows
<1>2. part' \in [Node -> Part] /\ current' \in Int /\ MemoryInv' /\ InUse' = InUse
  BY <1>1, Cleared DEF Clear, schemeVars
<1>3. TypeOK' BY <1>1, <1>2 DEF TypeOK, Clear, schemeVars, connVars, Labels, Damages
<1>4. CallFollows' BY <1>1 DEF CallFollows, Clear, schemeVars, connVars, Buddy, TypeOK
<1>5. ASSUME Intact' PROVE ItemFollows'
  <2>1. it \in InUse BY <1>1, <1>5, ListedAreInUse DEF Clear, Intact
  <2>2. QED BY <1>1, <1>2, <2>1 DEF ItemFollows, Clear, schemeVars, connVars
<1>6. QED BY <1>2, <1>3, <1>4, <1>5 DEF IInv

LEMMA BuddyClearKeeps == ASSUME IInv, BuddyClear PROVE IInv'
<1>1. /\ TypeOK /\ Intact /\ MemoryInv /\ CallFollows /\ ItemFollows /\ TwoLines
      /\ pc = "remove buddy" /\ it \in Node
  BY DEF BuddyClear, Running, IInv, MemoryInv, ItemFollows, InUse
<1>2. part' \in [Node -> Part] /\ current' \in Int /\ MemoryInv' /\ InUse' = InUse /\ Free(it)'
  BY <1>1, Cleared DEF BuddyClear, schemeVars
<1>3. TypeOK' BY <1>1, <1>2 DEF TypeOK, BuddyClear, schemeVars, connVars, Labels, Damages
<1>4. CallFollows' BY <1>1 DEF CallFollows, BuddyClear, schemeVars, connVars, Buddy, TypeOK
<1>5. ItemFollows' BY <1>1, <1>2 DEF ItemFollows, BuddyClear, schemeVars, connVars
<1>6. QED BY <1>2, <1>3, <1>4, <1>5 DEF IInv

\* an item gets its size
LEMMA Sized ==
  ASSUME TypeOK, MemoryInv, CallFollows, Intact, call = "allocate", NEW m \in Node, Free(m), m \in InUse,
         pc # "found", pc' = "found", it' = m, NEW q, q \in [Node -> Part], part' = q,
         \A n \in Node \ {m} : q[n].size = part[n].size,
         q[m].size = want.size, current' = current + want.size
  PROVE  current' \in Int /\ (Intact' => CurrentIsSum')
<1>1. \A n \in Node : part[n].size \in Nat /\ q[n].size \in Nat
  <2>1. part \in [Node -> Part] BY DEF TypeOK
  <2>2. QED BY <2>1, SizesAreNat DEF Part
<1>2. part[m].size = 0
  <2>1. Blank(m) BY DEF MemoryInv, FreeIsBlank
  <2>2. QED BY <2>1 DEF Blank, Empty
<1>3. Total([n \in Node |-> q[n].size]) = Total([n \in Node |-> part[n].size]) - part[m].size + q[m].size
  BY <1>1, SumChanges
<1>4. current = Total([n \in Node |-> part[n].size]) BY DEF MemoryInv, CurrentIsSum
<1>5. current \in Int /\ want.size \in Nat
  <2>1. want.size = q[m].size OBVIOUS
  <2>2. QED BY <1>1, <2>1 DEF TypeOK
<1>6. current' = Total([n \in Node |-> q[n].size]) BY <1>2, <1>3, <1>4, <1>5
<1>7. QED BY <1>5, <1>6 DEF CurrentIsSum

LEMMA BuddyFitKeeps == ASSUME IInv, BuddyFit PROVE IInv'
<1>1. /\ TypeOK /\ Intact /\ MemoryInv /\ CallFollows /\ ItemFollows
      /\ TwoLines /\ RoomIsShared /\ LinksBack
      /\ pc = "halve" /\ owner \in Conn /\ call = "allocate" /\ want.size \in Sizes[scheme]
      /\ it \in InUse /\ it \in Node /\ Free(it) /\ part[it].chunk >= Need
  BY DEF BuddyFit, Running, IInv, MemoryInv, CallFollows, ItemFollows, TypeOK, InUse
<1>2. /\ part' = [part EXCEPT ![it].size = want.size] /\ pc' = "found" /\ current' = current + want.size
      /\ UNCHANGED <<next, prev, schemeVars, nodes, tries, owner, call, it, want, connVars, crashed, damage>>
  BY DEF BuddyFit
<1>3. part \in [Node -> Part] /\ part' \in [Node -> Part]
  <2>1. part \in [Node -> Part] BY <1>1 DEF TypeOK
  <2>2. want.size \in AllSizes BY <1>1 DEF TypeOK, Wanted
  <2>3. [part[it] EXCEPT !.size = want.size] \in Part BY <1>1, <2>1, <2>2 DEF Part
  <2>4. part' = [part EXCEPT ![it] = [part[it] EXCEPT !.size = want.size]] BY <1>1, <1>2, <2>1
  <2>5. QED BY <1>1, <2>1, <2>3, <2>4
<1>4. ASSUME NEW n \in Node
      PROVE  /\ part'[n].data = part[n].data /\ part'[n].chunk = part[n].chunk
             /\ part'[n].key = part[n].key /\ part'[n].ocupado = part[n].ocupado
             /\ part'[n].dated = part[n].dated
             /\ n # it => part'[n] = part[n]
             /\ n = it => part'[n].size = want.size
  BY <1>1, <1>2, <1>3 DEF Part
<1>5. current' \in Int /\ CurrentIsSum' BY <1>1, <1>2, <1>3, <1>4, Sized DEF Intact
<1>6. TypeOK' BY <1>1, <1>2, <1>3, <1>5 DEF TypeOK, schemeVars, connVars, Labels
<1>7. TwoLines' /\ RoomIsShared' /\ LinksBack' /\ InUse' = InUse
  BY <1>1, <1>2, <1>4, LayoutStays DEF schemeVars
<1>8. FreeIsBlank'
  <2>1. ASSUME NEW n \in Node
        PROVE  /\ n \notin InUse \/ (Free(n)' /\ n # it) => Blank(n)'
               /\ part'[n].key # Garbage /\ (part'[n].ocupado => part'[n].key \in Key)
    <3>1. CASE n = it BY <3>1, <1>1, <1>4 DEF MemoryInv, FreeIsBlank
    <3>2. CASE n # it BY <3>2, <1>1, <1>4 DEF MemoryInv, FreeIsBlank, Free, estaReservado, Blank
    <3>3. QED BY <3>1, <3>2
  <2>2. QED BY <2>1, <1>2, <1>7 DEF FreeIsBlank
<1>9. CallFollows' BY <1>1, <1>2 DEF CallFollows, schemeVars, connVars, TypeOK, Buddy
<1>10. ItemFollows'
  <2>0. Blank(it) BY <1>1 DEF MemoryInv, FreeIsBlank
  <2>1. part[it].dated = FALSE BY <2>0 DEF Blank, Empty
  <2>2. Free(it)' /\ part'[it].chunk >= Need' /\ part'[it].size = want.size /\ part'[it].dated = FALSE
    BY <2>1, <1>1, <1>2, <1>4 DEF Free, estaReservado, Need
  <2>3. QED BY <2>2, <1>1, <1>2, <1>7 DEF ItemFollows, schemeVars, connVars
<1>11. QED BY <1>5, <1>6, <1>7, <1>8, <1>9, <1>10 DEF IInv, MemoryInv

\* partition a gets the memory of p
LEMMA Absorbed ==
  ASSUME TypeOK, TwoLines, RoomIsShared, NEW a \in Node, NEW p \in Node, NEW q, q = Absorb(a, p)
  PROVE  /\ q \in [Node -> Part]
         /\ \A n \in Node : /\ q[n].data = part[n].data /\ q[n].size = part[n].size
                            /\ q[n].key = part[n].key /\ q[n].ocupado = part[n].ocupado
                            /\ q[n].dated = part[n].dated
                            /\ n \notin {a, p} => q[n] = part[n]
         /\ a # p => q[a].chunk = part[a].chunk + part[p].chunk /\ q[p].chunk = 0
<1>1. part \in [Node -> Part] /\ \A n \in Node : part[n] \in Part /\ part[n].chunk \in Nat
  BY EngineAssumption DEF TypeOK, Part
<1>2. 0 \in 0..table_max_size BY EngineAssumption
<1>3. CASE a = p
  <2>1. q = [part EXCEPT ![a] = [part[a] EXCEPT !.chunk = 0]] BY <1>1, <1>3 DEF Absorb
  <2>2. [part[a] EXCEPT !.chunk = 0] \in Part BY <1>1, <1>2 DEF Part
  <2>3. QED BY <2>1, <2>2, <1>1, <1>3 DEF Part
<1>4. CASE a # p
  <2>1. part[a].chunk + part[p].chunk \in 0..table_max_size BY <1>4, ChunksFit
  <2> DEFINE c == part[a].chunk + part[p].chunk
  <2>2. q = [part EXCEPT ![a] = [part[a] EXCEPT !.chunk = c], ![p] = [part[p] EXCEPT !.chunk = 0]]
    BY <1>1, <1>4 DEF Absorb
  <2> HIDE DEF c
  <2>3. c \in 0..table_max_size BY <2>1 DEF c
  <2>4. [part[a] EXCEPT !.chunk = c] \in Part /\ [part[p] EXCEPT !.chunk = 0] \in Part
    BY <1>1, <1>2, <2>3 DEF Part
  <2>5. q \in [Node -> Part] BY <2>2, <2>4, <1>1
  <2>6. ASSUME NEW n \in Node
        PROVE  /\ q[n].data = part[n].data /\ q[n].size = part[n].size
               /\ q[n].key = part[n].key /\ q[n].ocupado = part[n].ocupado
               /\ q[n].dated = part[n].dated
               /\ n \notin {a, p} => q[n] = part[n]
    <3>1. CASE n = a
      <4>1. q[n] = [part[a] EXCEPT !.chunk = c] BY <3>1, <2>2, <1>1, <1>4
      <4>2. QED BY <4>1, <3>1, <1>1 DEF Part
    <3>2. CASE n = p
      <4>1. q[n] = [part[p] EXCEPT !.chunk = 0] BY <3>2, <2>2, <1>1, <1>4
      <4>2. QED BY <4>1, <3>2, <1>1 DEF Part
    <3>3. CASE n # a /\ n # p BY <3>3, <2>2, <1>1
    <3>4. QED BY <3>1, <3>2, <3>3
  <2>7. q[a].chunk = c /\ q[p].chunk = 0
    <3>1. q[a] = [part[a] EXCEPT !.chunk = c] /\ q[p] = [part[p] EXCEPT !.chunk = 0] BY <2>2, <1>1, <1>4
    <3>2. QED BY <3>1, <1>1 DEF Part
  <2>8. QED BY <2>5, <2>6, <2>7 DEF c
<1>5. QED BY <1>3, <1>4

\* a dynamic partition gets the memory of the free one behind it
LEMMA DynamicMerge ==
  ASSUME TypeOK, MemoryInv, Intact, ~Buddy, pc # "found", pc' # "found",
         NEW a \in InUse, NEW p \in InUse, next[a] = p, Free(p),
         part' = Absorb(a, p), next' = [next EXCEPT ![a] = next[p], ![p] = nodes], nodes' = p,
         UNCHANGED <<elements, scheme, current>>
  PROVE  /\ MemoryInv' /\ InUse' = InUse \ {p} /\ a # p
         /\ \A n \in Node : Free(n)' <=> Free(n)
<1>1. TwoLines /\ RoomIsShared /\ InUse \subseteq Node /\ elements # NULL
  BY CantIsNat DEF MemoryInv, InUse, TypeOK
<1>2. Memory(elements, nodes, next, part) /\ Exact(elements, next, part) /\ Spanning(part) = InUse
  BY <1>1, MemoryNow DEF Spanning, InUse
<1>3. /\ NULL \notin Node /\ nodes \in (Node \ InUse) \cup {NULL} /\ elements \in InUse
      /\ next \in [Node -> Node \cup {NULL}]
      /\ \A n \in InUse : next[n] = NULL \/ (next[n] \in InUse /\ next[n] # n /\ next[n] # elements)
      /\ \A m, n \in Node : next[m] = next[n] /\ next[m] # NULL => m = n
  BY <1>1, <1>2, MemoryFacts
<1>4. a # p /\ p # elements /\ a \in Node /\ p \in Node /\ p # NULL BY <1>1, <1>3
<1> DEFINE q == part'
           nx1 == next'
<1>5. /\ q \in [Node -> Part]
      /\ \A n \in Node : /\ q[n].data = part[n].data /\ q[n].size = part[n].size
                         /\ q[n].key = part[n].key /\ q[n].ocupado = part[n].ocupado
                         /\ q[n].dated = part[n].dated
                         /\ n \notin {a, p} => q[n] = part[n]
      /\ q[a].chunk = part[a].chunk + part[p].chunk /\ q[p].chunk = 0
  <2>1. q = Absorb(a, p) OBVIOUS
  <2> HIDE DEF q
  <2>2. QED BY <2>1, <1>1, <1>4, Absorbed
<1>6. /\ nx1 \in [Node -> Node \cup {NULL}] /\ nx1[p] = nodes
      /\ \A n \in Node \ {p} : nx1[n] = IF next[n] = p THEN next[p] ELSE next[n]
  BY <1>3, <1>4
<1> HIDE DEF q, nx1
<1>7. /\ Memory(elements, p, nx1, q) /\ Spanning(q) = InUse \ {p} /\ Exact(elements, nx1, q)
  <2>1. \A n \in Node \ {p, a} : q[n].data = part[n].data /\ q[n].chunk = part[n].chunk BY <1>5
  <2>2. q[a].data = IF next[a] = p THEN part[a].data ELSE part[p].data BY <1>4, <1>5
  <2>3. elements = IF elements = p THEN next[p] ELSE elements BY <1>4
  <2>4. a \in Spanning(part) /\ p \in Spanning(part) BY <1>2
  <2>5. QED BY <1>1, <1>2, <1>5, <1>6, <2>1, <2>2, <2>3, <2>4, MemoryMerged
<1>8. TwoLines' /\ RoomIsShared' /\ InUse' = InUse \ {p} BY <1>7, MemoryThen DEF q, nx1, Buddy
<1>9. LinksBack' BY DEF LinksBack, Buddy
<1>10. CurrentIsSum'
  <2>1. [n \in Node |-> q[n].size] = [n \in Node |-> part[n].size] BY <1>5
  <2>2. QED BY <2>1 DEF MemoryInv, CurrentIsSum, q
<1>11. ASSUME NEW n \in Node PROVE Free(n)' <=> Free(n) BY <1>5 DEF Free, estaReservado, q
<1>12. FreeIsBlank'
  <2>1. ASSUME NEW n \in Node, Blank(n) PROVE Blank(n)'
    <3>1. part[n] = [data |-> part[n].data, chunk |-> part[n].chunk, size |-> 0, key |-> NoKey,
                     ocupado |-> FALSE, dated |-> FALSE]
      BY <2>1 DEF Blank, Empty
    <3>2. /\ part[n].size = 0 /\ part[n].key = NoKey /\ part[n].ocupado = FALSE
          /\ part[n].dated = FALSE
      BY <3>1
    <3>3. q[n] \in Part BY <1>5
    <3>4. q[n] = [data |-> q[n].data, chunk |-> q[n].chunk, size |-> q[n].size, key |-> q[n].key,
                  ocupado |-> q[n].ocupado, dated |-> q[n].dated]
      BY <3>3 DEF Part
    <3>5. q[n] = Empty(q[n].data, q[n].chunk) BY <3>2, <3>4, <1>5 DEF Empty
    <3>6. QED BY <3>5 DEF Blank, q
  <2>2. ASSUME NEW n \in Node, n \notin InUse' \/ Free(n)' PROVE n \notin InUse \/ Free(n)
    BY <2>2, <1>8, <1>11
  <2>3. \A n \in Node : part'[n].key # Garbage /\ (part'[n].ocupado => part'[n].key \in Key)
    BY <1>5 DEF MemoryInv, FreeIsBlank, q
  <2>4. QED BY <2>1, <2>2, <2>3 DEF MemoryInv, FreeIsBlank
<1>13. QED BY <1>4, <1>8, <1>9, <1>10, <1>11, <1>12 DEF MemoryInv

LEMMA SpareTyped ==
  ASSUME TypeOK, NEW m \in Node, NEW p, p \in [Node -> Node \cup {NULL}]
  PROVE  Spare(m, p) \in [Node -> Node \cup {NULL}]
BY DEF Spare
LEMMA RelinkTyped ==
  ASSUME NEW n \in Node \cup {NULL}, NEW m \in Node \cup {NULL}, NEW p, p \in [Node -> Node \cup {NULL}]
  PROVE  Relink(n, m, p) \in [Node -> Node \cup {NULL}]
BY DEF Relink

LEMMA MergeBackKeeps == ASSUME IInv, MergeBack PROVE IInv'
<1> DEFINE a == prev[it]
<1>1. /\ TypeOK /\ Intact /\ MemoryInv /\ CallFollows /\ ItemFollows /\ TwoLines /\ RoomIsShared
      /\ pc = "back" /\ it \in InUse /\ it \in Node /\ a \in Node /\ ~part[a].ocupado
  BY DEF MergeBack, Running, IInv, MemoryInv, ItemFollows, InUse, Merges, TypeOK
<1>2. /\ part' = Absorb(a, it)
      /\ next' = [next EXCEPT ![a] = next[it], ![it] = nodes]
      /\ prev' = Spare(it, Relink(next[it], a, prev))
      /\ nodes' = it /\ it' = a
      /\ damage' = damage \cup Foreign \cup (IF next[a] = it THEN {} ELSE {"stale link followed"})
                          \cup (IF Free(it) THEN {} ELSE {"reserved node merged"})
      /\ UNCHANGED <<schemeVars, current, tries, owner, pc, call, want, connVars, crashed>>
  BY DEF MergeBack
<1> HIDE DEF a
<1>3. TypeOK'
  <2>1. part' \in [Node -> Part] BY <1>1, <1>2, Absorbed
  <2>2. next' \in [Node -> Node \cup {NULL}] BY <1>1, <1>2 DEF TypeOK
  <2>3. prev' \in [Node -> Node \cup {NULL}]
    <3>1. next[it] \in Node \cup {NULL} /\ prev \in [Node -> Node \cup {NULL}] BY <1>1 DEF TypeOK
    <3>2. QED BY <1>1, <1>2, <3>1, SpareTyped, RelinkTyped
  <2>4. damage' \subseteq Damages BY <1>1, <1>2 DEF TypeOK, Foreign, Damages
  <2>5. QED BY <1>1, <1>2, <2>1, <2>2, <2>3, <2>4 DEF TypeOK, schemeVars, connVars
<1>4. ASSUME Intact' PROVE MemoryInv' /\ CallFollows' /\ ItemFollows'
  <2>1. ~Buddy /\ next[a] = it /\ Free(it) BY <1>2, <1>4 DEF Intact, Foreign
  <2>2. a \in InUse
    <3>1. Memory(elements, nodes, next, part) /\ Spanning(part) = InUse /\ elements # NULL /\ it # NULL
      BY <1>1, MemoryNow, CantIsNat DEF Spanning, InUse, TypeOK
    <3>2. \A n \in Node \ InUse : next[n] = NULL \/ next[n] \in Node \ InUse BY <3>1, MemoryFacts
    <3>3. QED BY <3>1, <3>2, <1>1, <2>1
  <2>3. MemoryInv' /\ InUse' = InUse \ {it} /\ a # it BY <1>1, <1>2, <2>1, <2>2, DynamicMerge DEF schemeVars
  <2>4. CallFollows' BY <1>1, <1>2 DEF CallFollows, schemeVars, connVars, Buddy
  <2>5. ItemFollows' BY <1>1, <1>2, <2>2, <2>3 DEF ItemFollows, schemeVars, connVars
  <2>6. QED BY <2>3, <2>4, <2>5
<1>5. QED BY <1>3, <1>4 DEF IInv

LEMMA MergeForwardKeeps == ASSUME IInv, MergeForward PROVE IInv'
<1> DEFINE p == next[it]
<1>1. /\ TypeOK /\ Intact /\ MemoryInv /\ CallFollows /\ ItemFollows /\ TwoLines /\ RoomIsShared
      /\ pc = "forward" /\ it \in InUse /\ it \in Node /\ p \in Node /\ ~part[p].ocupado /\ p # NULL
  BY DEF MergeForward, Running, IInv, MemoryInv, ItemFollows, InUse, Merges, TypeOK
<1>2. /\ part' = Absorb(it, p)
      /\ next' = [next EXCEPT ![it] = next[p], ![p] = nodes]
      /\ prev' = Spare(p, prev)
      /\ nodes' = p
      /\ damage' = damage \cup Foreign \cup (IF estaReservado(p) THEN {"reserved node merged"} ELSE {})
      /\ UNCHANGED <<schemeVars, current, tries, callVars, connVars, crashed>>
  BY DEF MergeForward
<1>a. p \in InUse BY <1>1, NextInUse
<1>b. next[it] = p OBVIOUS
<1> HIDE DEF p
<1>3. TypeOK'
  <2>1. part' \in [Node -> Part] BY <1>1, <1>2, Absorbed
  <2>2. next' \in [Node -> Node \cup {NULL}] BY <1>1, <1>2 DEF TypeOK
  <2>3. prev' \in [Node -> Node \cup {NULL}]
    <3>1. prev \in [Node -> Node \cup {NULL}] BY <1>1 DEF TypeOK
    <3>2. QED BY <1>1, <1>2, <3>1, SpareTyped
  <2>4. damage' \subseteq Damages BY <1>1, <1>2 DEF TypeOK, Foreign, Damages
  <2>5. QED BY <1>1, <1>2, <2>1, <2>2, <2>3, <2>4 DEF TypeOK, schemeVars, connVars, callVars
<1>4. ASSUME Intact' PROVE MemoryInv' /\ CallFollows' /\ ItemFollows'
  <2>1. ~Buddy /\ Free(p) BY <1>1, <1>2, <1>4 DEF Intact, Foreign, Free
  <2>2. MemoryInv' /\ InUse' = InUse \ {p} /\ it # p
    BY <1>1, <1>2, <1>a, <1>b, <2>1, DynamicMerge DEF schemeVars, callVars
  <2>3. CallFollows' BY <1>1, <1>2 DEF CallFollows, schemeVars, connVars, callVars, Buddy
  <2>4. ItemFollows' BY <1>1, <1>2, <2>2 DEF ItemFollows, schemeVars, connVars, callVars
  <2>5. QED BY <2>2, <2>3, <2>4
<1>5. QED BY <1>3, <1>4 DEF IInv

LEMMA ConsolidateKeeps == ASSUME IInv, Consolidate PROVE IInv'
<1> DEFINE p == next[it]
<1>1. /\ TypeOK /\ Intact /\ MemoryInv /\ CallFollows /\ ItemFollows /\ TwoLines /\ RoomIsShared
      /\ pc = "shift" /\ ~Buddy /\ it \in InUse /\ Free(it) /\ it \in Node /\ p \in Node /\ Free(p) /\ p # NULL
  BY DEF Consolidate, Running, IInv, MemoryInv, CallFollows, ItemFollows, InUse, TypeOK
<1>2. /\ part' = Absorb(it, p)
      /\ next' = [next EXCEPT ![it] = next[p], ![p] = nodes]
      /\ prev' = Spare(p, Relink(next[p], it, prev))
      /\ nodes' = p
      /\ UNCHANGED <<schemeVars, current, tries, callVars, connVars, crashed, damage>>
  BY DEF Consolidate
<1>a. p \in InUse BY <1>1, NextInUse
<1>b. next[it] = p OBVIOUS
<1> HIDE DEF p
<1>3. TypeOK'
  <2>1. part' \in [Node -> Part] BY <1>1, <1>2, Absorbed
  <2>2. next' \in [Node -> Node \cup {NULL}] BY <1>1, <1>2 DEF TypeOK
  <2>3. prev' \in [Node -> Node \cup {NULL}]
    <3>1. next[p] \in Node \cup {NULL} /\ prev \in [Node -> Node \cup {NULL}] BY <1>1 DEF TypeOK
    <3>2. QED BY <1>1, <1>2, <3>1, SpareTyped, RelinkTyped
  <2>4. QED BY <1>1, <1>2, <2>1, <2>2, <2>3 DEF TypeOK, schemeVars, connVars, callVars
<1>4. /\ MemoryInv' /\ InUse' = InUse \ {p} /\ it # p
      /\ \A n \in Node : Free(n)' <=> Free(n)
  BY <1>1, <1>2, <1>a, <1>b, DynamicMerge DEF schemeVars, callVars
<1>5. CallFollows' BY <1>1, <1>2 DEF CallFollows, schemeVars, connVars, callVars, Buddy
<1>6. ItemFollows'
  <2>1. it' = it /\ pc' = pc BY <1>2 DEF callVars
  <2>2. Free(it)' BY <1>1, <1>4, <2>1 DEF Free, estaReservado
  <2>3. QED BY <1>1, <1>2, <1>4, <2>1, <2>2 DEF ItemFollows, schemeVars, connVars, callVars
<1>7. QED BY <1>3, <1>4, <1>5, <1>6 DEF IInv

\* an item moves down, and the free partition up
LEMMA ShiftKeeps == ASSUME IInv, Shift PROVE IInv'
<1> DEFINE p == next[it]
           q == part'
<1>1. /\ TypeOK /\ Intact /\ MemoryInv /\ CallFollows /\ ItemFollows /\ TwoLines /\ RoomIsShared
      /\ pc = "shift" /\ ~Buddy /\ it \in InUse /\ Free(it) /\ it \in Node /\ p # NULL /\ ~Free(p)
  BY DEF Shift, Running, IInv, MemoryInv, CallFollows, ItemFollows, InUse
<1>2. /\ q = [part EXCEPT ![it] = Moved(p), ![p] = Empty(part[it].data + part[p].chunk, part[it].chunk)]
      /\ prev' = [prev EXCEPT ![p] = it] /\ it' = p
      /\ UNCHANGED <<schemeVars, next, nodes, current, tries, owner, pc, call, want, connVars, crashed, damage>>
  BY DEF Shift
<1>3. p \in InUse /\ p # it /\ p \in Node BY <1>1, NextInUse DEF InUse
<1>b. next[it] = p OBVIOUS
<1> HIDE DEF p, q
<1>4. /\ Memory(elements, nodes, next, part) /\ Exact(elements, next, part)
      /\ Spanning(part) = InUse /\ elements # NULL
  BY <1>1, MemoryNow, CantIsNat DEF Spanning, InUse, TypeOK
<1>5. /\ part \in [Node -> Part] /\ \A n \in Node : part[n].data \in Nat /\ part[n].chunk \in Nat
      /\ \A n \in Node : part[n].size \in Nat
      /\ table_max_size \in Nat /\ NoKey \notin Key /\ Garbage # NoKey
  <2>1. part \in [Node -> Part] BY <1>1 DEF TypeOK
  <2>2. \A n \in Node : part[n].size \in AllSizes BY <2>1 DEF Part
  <2>3. \A n \in Node : part[n].data \in Nat /\ part[n].chunk \in Nat BY <2>1, EngineAssumption DEF Part
  <2>4. QED BY <2>1, <2>2, <2>3, SizesAreNat, EngineAssumption
<1>6. part[it].data + part[p].chunk \in 0..table_max_size
  <2>1. part[p].data = part[it].data + part[it].chunk BY <1>1, <1>3, <1>4, <1>b DEF Exact
  <2>2. part[p].data + part[p].chunk <= table_max_size
    <3>1. next[p] = NULL \/ next[p] \in Node BY <1>1, <1>3 DEF TypeOK
    <3>2. part[p].data + part[p].chunk = IF next[p] = NULL THEN table_max_size ELSE part[next[p]].data
      BY <1>3, <1>4 DEF Exact
    <3>3. next[p] # NULL => part[next[p]].data \in 0..table_max_size BY <3>1, <1>5 DEF Part
    <3>4. QED BY <3>2, <3>3, <1>5
  <2>3. QED BY <2>1, <2>2, <1>1, <1>3, <1>5
<1>7. part[p].key \in Key
  <2>1. part[p].key \in Key \cup {NoKey, Garbage} BY <1>3, <1>5 DEF Part
  <2>2. part[p].key # Garbage /\ (part[p].ocupado => part[p].key \in Key)
    BY <1>1, <1>3 DEF MemoryInv, FreeIsBlank
  <2>3. part[p].ocupado \/ part[p].key # NoKey BY <1>1 DEF Free, estaReservado
  <2>4. QED BY <2>1, <2>2, <2>3
<1>8. part[it].size = 0
  <2>1. Blank(it) BY <1>1 DEF MemoryInv, FreeIsBlank
  <2>2. QED BY <2>1 DEF Blank, Empty
<1>9. /\ q \in [Node -> Part]
      /\ q[it].data = part[it].data /\ q[it].chunk = part[p].chunk /\ q[it].size = part[p].size
      /\ q[it].key = part[p].key /\ q[it].ocupado = TRUE
      /\ q[p] = Empty(part[it].data + part[p].chunk, part[it].chunk)
      /\ q[p].data = part[it].data + part[p].chunk /\ q[p].chunk = part[it].chunk /\ q[p].size = 0
      /\ q[p].key = NoKey /\ q[p].ocupado = FALSE
      /\ \A n \in Node \ {p, it} : q[n] = part[n]
  <2> DEFINE x == Moved(p)
             y == Empty(part[it].data + part[p].chunk, part[it].chunk)
  <2>1. /\ x \in Part /\ x.data = part[it].data /\ x.chunk = part[p].chunk /\ x.size = part[p].size
        /\ x.key = part[p].key /\ x.ocupado = TRUE
    <3>1. part[p] \in Part /\ part[it].data \in 0..table_max_size BY <1>1, <1>3, <1>5 DEF Part
    <3>2. QED BY <3>1 DEF Part, Moved
  <2>2. /\ y \in Part /\ y.data = part[it].data + part[p].chunk /\ y.chunk = part[it].chunk
        /\ y.size = 0 /\ y.key = NoKey /\ y.ocupado = FALSE
    <3>1. part[it].chunk \in 0..table_max_size BY <1>1, <1>5 DEF Part
    <3>2. QED BY <3>1, <1>6, SizesAreNat DEF Part, Empty
  <2> HIDE DEF x, y
  <2>3. q = [part EXCEPT ![it] = x, ![p] = y] BY <1>2 DEF x, y
  <2>4. q \in [Node -> Part] /\ q[it] = x /\ q[p] = y /\ \A n \in Node \ {p, it} : q[n] = part[n]
    BY <2>1, <2>2, <2>3, <1>1, <1>3, <1>5
  <2>5. QED BY <2>1, <2>2, <2>4 DEF y
<1>10. TypeOK'
  <2>1. prev' \in [Node -> Node \cup {NULL}] BY <1>1, <1>2, <1>3 DEF TypeOK
  <2>2. QED BY <1>1, <1>2, <1>3, <1>9, <2>1 DEF TypeOK, schemeVars, connVars, q
<1>11. Memory(elements, nodes, next, q) /\ Spanning(q) = InUse /\ Exact(elements, next, q)
  <2>1. \A n \in Node \ {p, it} : q[n].data = part[n].data /\ q[n].chunk = part[n].chunk BY <1>9
  <2>2. it \in Spanning(part) /\ p # NULL BY <1>1, <1>4
  <2>3. QED BY <1>4, <1>9, <1>b, <2>1, <2>2, MemorySwapped
<1>12. TwoLines' /\ RoomIsShared' /\ InUse' = InUse
  BY <1>2, <1>11, MemoryThen DEF q, Buddy, schemeVars
<1>13. LinksBack' BY <1>1, <1>2 DEF LinksBack, Buddy, schemeVars
<1>14. CurrentIsSum'
  <2> DEFINE h == [n \in Node |-> [size |-> IF n = it THEN part[p].size ELSE part[n].size]]
  <2>1. h[it].size = part[p].size /\ \A n \in Node \ {it} : h[n].size = part[n].size BY <1>1
  <2>2. \A n \in Node : h[n].size \in Nat /\ q[n].size \in Nat /\ part[n].size \in Nat
    BY <1>3, <1>5, <1>9, SizesAreNat DEF Part
  <2>3. h[p].size = part[p].size BY <1>3
  <2> HIDE DEF h
  <2>4. /\ Total([n \in Node |-> part[n].size]) \in Nat
        /\ Total([n \in Node |-> h[n].size]) = Total([n \in Node |-> part[n].size]) - part[it].size + h[it].size
    BY <2>1, <2>2, <1>1, SumChanges
  <2>5. \A n \in Node \ {p} : q[n].size = h[n].size BY <2>1, <1>1, <1>9
  <2>6. Total([n \in Node |-> q[n].size]) = Total([n \in Node |-> h[n].size]) - h[p].size + q[p].size
    BY <2>2, <2>5, <1>3, SumChanges
  <2>7. Total([n \in Node |-> q[n].size]) = Total([n \in Node |-> part[n].size])
    BY <2>1, <2>2, <2>3, <2>4, <2>6, <1>3, <1>8, <1>9
  <2>8. QED BY <2>7, <1>1, <1>2 DEF MemoryInv, CurrentIsSum, q
<1>15. FreeIsBlank'
  <2>1. ASSUME NEW n \in Node
        PROVE  /\ n \notin InUse \/ Free(n)' => Blank(n)'
               /\ q[n].key # Garbage /\ (q[n].ocupado => q[n].key \in Key)
    <3>1. CASE n = it
      <4>1. q[n].key # Garbage BY <3>1, <1>7, <1>9, EngineAssumption
      <4>2. ~Free(n)' BY <3>1, <1>9 DEF Free, q
      <4>3. QED BY <4>1, <4>2, <3>1, <1>1, <1>7, <1>9
    <3>2. CASE n = p
      <4>1. Blank(n)' BY <3>2, <1>9 DEF Blank, q
      <4>2. QED BY <4>1, <3>2, <1>5, <1>9
    <3>3. CASE n # p /\ n # it BY <3>3, <1>1, <1>9 DEF MemoryInv, FreeIsBlank, Free, estaReservado, Blank, q
    <3>4. QED BY <3>1, <3>2, <3>3
  <2>2. QED BY <2>1, <1>12 DEF FreeIsBlank, q
<1>16. CallFollows' BY <1>1, <1>2 DEF CallFollows, schemeVars, connVars, Buddy
<1>17. ItemFollows'
  <2>1. Free(it)' BY <1>2, <1>9 DEF Free, estaReservado, q
  <2>2. QED BY <2>1, <1>1, <1>2, <1>3, <1>12 DEF ItemFollows, schemeVars, connVars
<1>18. QED BY <1>10, <1>12, <1>13, <1>14, <1>15, <1>16, <1>17 DEF IInv, MemoryInv

\* the first spare node takes the end of partition x
LEMMA Taken ==
  ASSUME TypeOK, TwoLines, RoomIsShared, NEW x \in InUse, nodes # NULL, NEW q, q \in [Node -> Part],
         NEW c \in Nat, NEW d \in Nat, c >= slab_min_size, d >= slab_min_size,
         c + d <= part[x].chunk, ~Buddy => c + d = part[x].chunk,
         \A n \in Node \ {x, nodes} : q[n] = part[n],
         q[x].data = part[x].data, q[x].chunk = c,
         q[nodes].data = part[x].data + c, q[nodes].chunk = d, part' = q,
         next' = [next EXCEPT ![nodes] = next[x], ![x] = nodes], nodes' = next[nodes],
         UNCHANGED <<elements, scheme>>
  PROVE  TwoLines' /\ RoomIsShared' /\ InUse' = InUse \cup {nodes}
<1> DEFINE nx1 == [next EXCEPT ![nodes] = next[x], ![x] = nodes]
<1>1. /\ Memory(elements, nodes, next, part) /\ (~Buddy => Exact(elements, next, part))
      /\ Spanning(part) = InUse /\ elements # NULL
  BY MemoryNow, CantIsNat DEF Spanning, InUse, TypeOK
<1>2. \A n \in Node \ {x, nodes} : q[n].data = part[n].data /\ q[n].chunk = part[n].chunk OBVIOUS
<1>3. /\ Memory(elements, next[nodes], nx1, q) /\ Spanning(q) = InUse \cup {nodes}
      /\ ~Buddy => Exact(elements, nx1, q)
  <2>1. x \in Spanning(part) BY <1>1
  <2>2. nx1 = PutBehind(nodes, x, next) BY DEF PutBehind
  <2>0. GivesEnd(nodes, x, part, q, c, d) BY <1>2 DEF GivesEnd
  <2> HIDE DEF nx1
  <2>3. /\ Memory(elements, next[nodes], nx1, q) /\ Spanning(q) = Spanning(part) \cup {nodes}
        /\ c + d = part[x].chunk /\ Exact(elements, next, part) => Exact(elements, nx1, q)
    BY <1>1, <2>1, <2>2, <2>0, MemorySplit
  <2>4. QED BY <2>3, <1>1
<1>4. /\ Memory(elements', nodes', next', part') /\ Spanning(part') = InUse \cup {nodes}
      /\ ~Buddy' => Exact(elements', next', part')
  BY <1>3 DEF Buddy
<1>5. QED BY <1>4, MemoryThen

\* where the memory that a spare node takes lies
LEMMA TakenTyped ==
  ASSUME TypeOK, TwoLines, RoomIsShared, FreeIsBlank, NEW x \in InUse, nodes # NULL,
         NEW c \in Nat, c <= part[x].chunk
  PROVE  /\ nodes \in Node \ InUse /\ x \in Node /\ part[x].data + c \in 0..table_max_size
         /\ c \in 0..table_max_size /\ part[x].chunk - c \in 0..table_max_size
         /\ part[nodes].chunk = 0 /\ Blank(nodes) /\ part \in [Node -> Part]
         /\ part[x].data \in Nat /\ part[x].chunk \in Nat
<1>1. /\ Memory(elements, nodes, next, part) /\ Spanning(part) = InUse /\ elements # NULL
  BY MemoryNow, CantIsNat DEF Spanning, InUse, TypeOK
<1>2. nodes \in Node \ InUse BY <1>1, MemoryFacts
<1>3. /\ part \in [Node -> Part] /\ table_max_size \in Nat /\ x \in Node
      /\ \A n \in Node : part[n].data \in 0..table_max_size /\ part[n].chunk \in 0..table_max_size
  BY EngineAssumption DEF TypeOK, Part, InUse
<1>4. part[x].data + part[x].chunk <= table_max_size
  <2>1. next[x] = NULL \/ next[x] \in Node BY <1>3 DEF TypeOK
  <2>2. part[x].data + part[x].chunk <= IF next[x] = NULL THEN table_max_size ELSE part[next[x]].data
    BY DEF RoomIsShared, EndOf
  <2>3. next[x] # NULL => part[next[x]].data \in 0..table_max_size BY <2>1, <1>3
  <2>4. part[x].data \in Nat /\ part[x].chunk \in Nat BY <1>3
  <2>5. QED BY <2>2, <2>3, <2>4, <1>3
<1>5. part[nodes].chunk = 0 BY <1>2, <1>3 DEF InUse
<1>6. Blank(nodes) BY <1>2 DEF FreeIsBlank
<1>7. part[x].data \in Nat /\ part[x].chunk \in 0..table_max_size BY <1>3
<1>8. QED BY <1>2, <1>3, <1>4, <1>5, <1>6, <1>7

LEMMA NeedIsNat == ASSUME want.size \in Nat \ {0} PROVE Need \in Nat \ {0} /\ Need >= slab_min_size /\ want.size <= Need
BY EngineAssumption DEF Need

LEMMA FitKeeps == ASSUME IInv, Fit PROVE IInv'
<1>0. PICK n : n = Chosen OBVIOUS
<1> DEFINE q == part'
           d == part[n].chunk - Need
<1>1. /\ TypeOK /\ Intact /\ MemoryInv /\ CallFollows /\ ItemFollows
      /\ TwoLines /\ RoomIsShared /\ LinksBack /\ FreeIsBlank
      /\ pc = "find" /\ ~Buddy /\ call = "allocate" /\ owner \in Conn /\ want.size \in Sizes[scheme]
      /\ Fitting # {} /\ scheme \in Esquemas
  BY DEF Fit, Running, IInv, MemoryInv, CallFollows, TypeOK
<1>2. /\ current' = current + want.size /\ it' = n /\ pc' = "found"
      /\ UNCHANGED <<schemeVars, tries, owner, call, want, connVars, crashed, damage>>
      /\ IF Splits(n)
           THEN /\ q = [[part EXCEPT ![n].size = want.size] EXCEPT ![n].chunk = Need,
                          ![nodes].chunk = @ + d, ![nodes].data = part[n].data + Need]
                /\ next' = [next EXCEPT ![nodes] = next[n], ![n] = nodes]
                /\ prev' = Relink(next[n], nodes, [Relink(next[nodes], NULL, prev) EXCEPT ![nodes] = n])
                /\ nodes' = next[nodes]
           ELSE q = [part EXCEPT ![n].size = want.size] /\ UNCHANGED <<next, prev, nodes>>
  BY <1>0 DEF Fit, Rest
<1>3. n \in InUse /\ Free(n) /\ part[n].chunk >= Need
  BY <1>0, <1>1, ChosenFits, ListedAreInUse DEF Fitting
<1>4. Splits(n) => nodes # NULL /\ d >= slab_min_size BY DEF Splits, Rest
<1> HIDE DEF q, d
<1>5. /\ want.size \in Nat \ {0} /\ want.size \in AllSizes /\ Need \in Nat \ {0} /\ Need >= slab_min_size
      /\ slab_min_size \in Nat \ {0}
  BY <1>1, SizesAreNat, NeedIsNat, EngineAssumption
<1>6. /\ part \in [Node -> Part] /\ n \in Node /\ part[n].chunk \in Nat
      /\ part[n] \in Part
  BY <1>1, <1>3, EngineAssumption DEF TypeOK, Part, InUse
<1>7. Blank(n) /\ part[n].dated = FALSE
  <2>1. Blank(n) BY <1>1, <1>3, <1>6 DEF FreeIsBlank
  <2>2. QED BY <2>1 DEF Blank, Empty
<1>8. /\ q \in [Node -> Part]
      /\ \A m \in Node : q[m].ocupado = part[m].ocupado /\ q[m].key = part[m].key /\ q[m].dated = part[m].dated
      /\ \A m \in Node \ {n} : q[m].size = part[m].size
      /\ q[n].size = want.size /\ q[n].chunk >= Need
      /\ next' \in [Node -> Node \cup {NULL}] /\ prev' \in [Node -> Node \cup {NULL}]
      /\ nodes' \in Node \cup {NULL}
      /\ TwoLines' /\ RoomIsShared'
      /\ n \in InUse' /\ InUse \subseteq InUse'
      /\ \A m \in Node \ {n} : q[m] = part[m] \/ (Blank(m) /\ Blank(m)')
  <2>0. next \in [Node -> Node \cup {NULL}] /\ prev \in [Node -> Node \cup {NULL}] /\ nodes \in Node \cup {NULL}
    BY <1>1 DEF TypeOK
  <2>1. CASE Splits(n)
    <3>1. /\ nodes \in Node \ InUse /\ part[n].data + Need \in 0..table_max_size
          /\ Need \in 0..table_max_size /\ d \in 0..table_max_size /\ part[nodes].chunk = 0 /\ Blank(nodes)
          /\ part[n].data \in Nat
      BY <2>1, <1>1, <1>3, <1>4, <1>5, TakenTyped DEF d
    <3> DEFINE x == [part[n] EXCEPT !.size = want.size, !.chunk = Need]
               y == [part[nodes] EXCEPT !.chunk = d, !.data = part[n].data + Need]
    <3>2. /\ x \in Part /\ x.data = part[n].data /\ x.chunk = Need /\ x.size = want.size
          /\ x.key = part[n].key /\ x.ocupado = part[n].ocupado /\ x.dated = part[n].dated
      BY <3>1, <1>5, <1>6 DEF Part
    <3>3. /\ y \in Part /\ y.data = part[n].data + Need /\ y.chunk = d /\ y.size = part[nodes].size
          /\ y.key = part[nodes].key /\ y.ocupado = part[nodes].ocupado /\ y.dated = part[nodes].dated
      <4>1. part[nodes] \in Part BY <3>1, <1>6
      <4>2. QED BY <3>1, <4>1 DEF Part
    <3>4. y = Empty(y.data, y.chunk)
      <4>1. part[nodes] = Empty(part[nodes].data, part[nodes].chunk) BY <3>1 DEF Blank
      <4>2. /\ part[nodes].size = 0 /\ part[nodes].key = NoKey /\ part[nodes].ocupado = FALSE
            /\ part[nodes].dated = FALSE
        BY <4>1 DEF Empty
      <4>3. y = [data |-> y.data, chunk |-> y.chunk, size |-> y.size, key |-> y.key,
                 ocupado |-> y.ocupado, dated |-> y.dated]
        <5> HIDE DEF y
        <5>1. QED BY <3>3 DEF Part
      <4>4. QED BY <4>2, <4>3, <3>3 DEF Empty
    <3>5. q = [part EXCEPT ![n] = x, ![nodes] = y]
      <4>1. n # nodes BY <3>1, <1>3
      <4>2. part[nodes].chunk + d = d BY <3>1
      <4> DEFINE t == [part EXCEPT ![n].size = want.size]
      <4>3. t = [part EXCEPT ![n] = [part[n] EXCEPT !.size = want.size]] BY <1>6
      <4>4. t[nodes] = part[nodes] /\ t[n] = [part[n] EXCEPT !.size = want.size] /\ DOMAIN t = Node
        BY <4>1, <4>3, <1>6, <3>1
      <4>5. q = [t EXCEPT ![n].chunk = Need, ![nodes].chunk = @ + d, ![nodes].data = part[n].data + Need]
        BY <1>2, <2>1
      <4> HIDE DEF t
      <4>6. q = [t EXCEPT ![n] = [t[n] EXCEPT !.chunk = Need],
                          ![nodes] = [t[nodes] EXCEPT !.chunk = t[nodes].chunk + d, !.data = part[n].data + Need]]
        BY <4>1, <4>4, <4>5, <1>6, <3>1
      <4>7. [t[n] EXCEPT !.chunk = Need] = x BY <4>4
      <4>8. [t[nodes] EXCEPT !.chunk = t[nodes].chunk + d, !.data = part[n].data + Need] = y
        BY <4>2, <4>4
      <4>9. QED BY <4>1, <4>3, <4>6, <4>7, <4>8, <1>6, <3>1
    <3> HIDE DEF x, y
    <3>6. n # nodes /\ q \in [Node -> Part] /\ q[n] = x /\ q[nodes] = y /\ \A m \in Node \ {n, nodes} : q[m] = part[m]
      BY <3>1, <3>2, <3>3, <3>5, <1>3, <1>6
    <3>7. TwoLines' /\ RoomIsShared' /\ InUse' = InUse \cup {nodes}
      <4>1. Need + d = part[n].chunk BY <1>5, <1>6 DEF d
      <4>2. d \in Nat /\ Need \in Nat BY <3>1, <1>5
      <4>3. part' = q BY DEF q
      <4>4. nodes # NULL /\ d >= slab_min_size BY <1>4, <2>1
      <4>5. Need + d <= part[n].chunk BY <4>1, <1>6
      <4>6. q[n].data = part[n].data /\ q[n].chunk = Need /\ q[nodes].data = part[n].data + Need /\ q[nodes].chunk = d
        BY <3>2, <3>3, <3>6
      <4>7. QED BY <4>1, <4>2, <4>3, <4>4, <4>5, <4>6, <3>6, <1>1, <1>2, <1>3, <1>5, <2>1, Taken DEF schemeVars
    <3>8. \A m \in Node : q[m].ocupado = part[m].ocupado /\ q[m].key = part[m].key /\ q[m].dated = part[m].dated
      BY <3>2, <3>3, <3>6
    <3>9. \A m \in Node \ {n} : q[m].size = part[m].size BY <3>3, <3>6
    <3>10. q[n].size = want.size /\ q[n].chunk >= Need BY <3>2, <3>6, <1>5
    <3>11. Blank(nodes) /\ q[nodes] = Empty(q[nodes].data, q[nodes].chunk) BY <3>1, <3>4, <3>6
    <3>12. /\ next' \in [Node -> Node \cup {NULL}] /\ prev' \in [Node -> Node \cup {NULL}]
           /\ nodes' \in Node \cup {NULL}
      <4>1. next[n] \in Node \cup {NULL} /\ next[nodes] \in Node \cup {NULL} BY <2>0, <3>1, <1>6
      <4>2. NULL \in Node \cup {NULL} /\ nodes \in Node \cup {NULL} BY <2>0
      <4>3. [Relink(next[nodes], NULL, prev) EXCEPT ![nodes] = n] \in [Node -> Node \cup {NULL}]
        <5>1. Relink(next[nodes], NULL, prev) \in [Node -> Node \cup {NULL}] BY <4>1, <4>2, <2>0, RelinkTyped
        <5>2. QED BY <5>1, <1>6
      <4>4. Relink(next[n], nodes, [Relink(next[nodes], NULL, prev) EXCEPT ![nodes] = n]) \in [Node -> Node \cup {NULL}]
        BY <4>1, <4>2, <4>3, RelinkTyped
      <4>5. QED BY <4>1, <4>4, <1>2, <2>0, <2>1, <3>1, <1>6
    <3>13. ASSUME NEW m \in Node \ {n} PROVE q[m] = part[m] \/ (Blank(m) /\ Blank(m)')
      <4>1. CASE m = nodes BY <4>1, <3>11 DEF Blank, q
      <4>2. CASE m # nodes BY <4>2, <3>6
      <4>3. QED BY <4>1, <4>2
    <3>14. QED BY <3>6, <3>7, <3>8, <3>9, <3>10, <3>12, <3>13, <1>3
  <2>2. CASE ~Splits(n)
    <3> DEFINE x == [part[n] EXCEPT !.size = want.size]
    <3>1. /\ x \in Part /\ x.data = part[n].data /\ x.chunk = part[n].chunk /\ x.size = want.size
          /\ x.key = part[n].key /\ x.ocupado = part[n].ocupado /\ x.dated = part[n].dated
      BY <1>5, <1>6 DEF Part
    <3>2. q = [part EXCEPT ![n] = x] BY <1>2, <2>2, <1>6
    <3> HIDE DEF x
    <3>3. q \in [Node -> Part] /\ q[n] = x /\ \A m \in Node \ {n} : q[m] = part[m] BY <3>1, <3>2, <1>6
    <3>4. \A m \in Node : q[m].data = part[m].data /\ q[m].chunk = part[m].chunk BY <3>1, <3>3
    <3>5. TwoLines' /\ RoomIsShared' /\ InUse' = InUse
      BY <3>4, <1>1, <1>2, <2>2, LayoutStays DEF q, schemeVars
    <3>6. \A m \in Node : q[m].ocupado = part[m].ocupado /\ q[m].key = part[m].key /\ q[m].dated = part[m].dated
      BY <3>1, <3>3
    <3>7. QED BY <3>1, <3>3, <3>5, <3>6, <2>0, <1>2, <1>3, <2>2
  <2>3. QED BY <2>1, <2>2
<1>9. current' \in Int /\ CurrentIsSum' BY <1>1, <1>2, <1>3, <1>6, <1>8, Sized DEF Intact, q
<1>10. TypeOK' BY <1>1, <1>2, <1>6, <1>8, <1>9 DEF TypeOK, schemeVars, connVars, Labels, q
<1>11. LinksBack' BY <1>1, <1>2 DEF LinksBack, Buddy, schemeVars
<1>12. FreeIsBlank'
  <2>1. ASSUME NEW m \in Node
        PROVE  /\ m \notin InUse' \/ (Free(m)' /\ m # n) => Blank(m)'
               /\ q[m].key # Garbage /\ (q[m].ocupado => q[m].key \in Key)
    <3>1. q[m].key # Garbage /\ (q[m].ocupado => q[m].key \in Key) BY <1>1, <1>8 DEF FreeIsBlank
    <3>2. ASSUME m # n, m \notin InUse' \/ Free(m)' PROVE Blank(m)'
      <4>1. m \notin InUse \/ Free(m) BY <3>2, <1>8 DEF Free, estaReservado, q
      <4>2. Blank(m) BY <4>1, <1>1 DEF FreeIsBlank
      <4>3. CASE q[m] = part[m] BY <4>2, <4>3 DEF Blank, q
      <4>4. QED BY <4>3, <3>2, <1>8
    <3>3. QED BY <3>1, <3>2, <1>8
  <2>2. QED BY <2>1, <1>2 DEF FreeIsBlank, q
<1>13. CallFollows' BY <1>1, <1>2 DEF CallFollows, schemeVars, connVars, TypeOK, Buddy
<1>14. ItemFollows'
  <2>1. Free(n)' /\ q[n].dated = FALSE
    <3>1. q[n].ocupado = part[n].ocupado /\ q[n].key = part[n].key /\ q[n].dated = part[n].dated
      BY <1>6, <1>8
    <3>2. QED BY <3>1, <1>3, <1>7 DEF Free, estaReservado, q
  <2>2. Free(it)' /\ part'[it'].chunk >= Need' /\ part'[it'].size = want'.size /\ ~part'[it'].dated
    BY <2>1, <1>2, <1>8 DEF Free, estaReservado, Need, q
  <2>3. QED BY <2>2, <1>1, <1>2, <1>8 DEF ItemFollows, schemeVars, connVars
<1>15. QED BY <1>8, <1>9, <1>10, <1>11, <1>12, <1>13, <1>14 DEF IInv, MemoryInv

\* partition n is halved, and the spare node m takes the second half behind it
Halved(n, m, half) ==
  /\ part' \in [Node -> Part]
  /\ \A k \in Node : /\ part'[k].size = part[k].size /\ part'[k].key = part[k].key
                     /\ part'[k].ocupado = part[k].ocupado /\ part'[k].dated = part[k].dated
  /\ part'[n].data = part[n].data /\ part'[n].chunk = half
  /\ part'[m].data = part[n].data + half /\ part'[m].chunk = half
  /\ \A k \in Node \ {n, m} : part'[k] = part[k]
  /\ m \in Node \ InUse /\ TwoLines' /\ RoomIsShared' /\ InUse' = InUse \cup {m}
  /\ prev' \in [Node -> Node \cup {NULL}] /\ next' \in [Node -> Node \cup {NULL}]
  /\ \A k \in InUse \cup {m} : prev'[k] = IF k = m THEN n ELSE IF k = next[n] THEN m ELSE prev[k]
  /\ \A k \in InUse \cup {m} : next'[k] = IF k = m THEN next[n] ELSE IF k = n THEN m ELSE next[k]

LEMMA HalveSplits ==
  ASSUME IInv, Halve, NEW n, NEW m, NEW half, n = it, m = nodes, half = part[n].chunk \div 2
  PROVE  Halved(n, m, half)
<1> DEFINE q == part'
<1>1. /\ TypeOK /\ Intact /\ MemoryInv /\ CallFollows /\ ItemFollows
      /\ TwoLines /\ RoomIsShared /\ LinksBack /\ FreeIsBlank
      /\ pc = "halve" /\ Buddy /\ call = "allocate" /\ owner \in Conn /\ want.size \in Sizes[scheme]
      /\ scheme \in Esquemas /\ n \in InUse /\ Free(n) /\ n \in Node
  BY DEF Halve, Running, IInv, MemoryInv, CallFollows, ItemFollows, TypeOK, InUse
<1>2. /\ q = [part EXCEPT ![n].chunk = half, ![m].chunk = half, ![m].data = part[n].data + half]
      /\ next' = [next EXCEPT ![m] = next[n], ![n] = m]
      /\ prev' = Relink(next[n], m, [Relink(next[m], NULL, prev) EXCEPT ![m] = n])
      /\ nodes' = next[m] /\ m # NULL /\ half >= Need
      /\ UNCHANGED <<schemeVars, current, tries, callVars, connVars, crashed, damage>>
  BY DEF Halve, Halves
<1>3. /\ want.size \in Nat \ {0} /\ Need \in Nat \ {0} /\ Need >= slab_min_size
      /\ slab_min_size \in Nat \ {0} /\ table_max_size \in Nat
  BY <1>1, SizesAreNat, NeedIsNat, EngineAssumption
<1>4. half \in Nat /\ half + half <= part[n].chunk /\ half >= slab_min_size /\ half <= part[n].chunk
  <2>1. part[n].chunk \in Nat BY <1>1, EngineAssumption DEF TypeOK, Part
  <2>2. half \in Nat /\ half + half <= part[n].chunk BY <2>1
  <2>3. QED BY <2>1, <2>2, <1>2, <1>3
<1> HIDE DEF q
<1>5. /\ m \in Node \ InUse /\ part[n].data + half \in 0..table_max_size
      /\ half \in 0..table_max_size /\ part[m].chunk = 0 /\ Blank(m)
      /\ part[n].data \in Nat /\ part \in [Node -> Part] /\ n # m
  BY <1>1, <1>2, <1>4, TakenTyped
<1>6. /\ q \in [Node -> Part]
      /\ \A k \in Node : /\ q[k].size = part[k].size /\ q[k].key = part[k].key
                         /\ q[k].ocupado = part[k].ocupado /\ q[k].dated = part[k].dated
      /\ q[n].data = part[n].data /\ q[n].chunk = half
      /\ q[m].data = part[n].data + half /\ q[m].chunk = half
      /\ \A k \in Node \ {n, m} : q[k] = part[k]
  <2> DEFINE x == [part[n] EXCEPT !.chunk = half]
             y == [part[m] EXCEPT !.chunk = half, !.data = part[n].data + half]
  <2>1. /\ x \in Part /\ x.data = part[n].data /\ x.chunk = half /\ x.size = part[n].size
        /\ x.key = part[n].key /\ x.ocupado = part[n].ocupado /\ x.dated = part[n].dated
    <3>1. part[n] \in Part BY <1>1, <1>5
    <3>2. QED BY <3>1, <1>5 DEF Part
  <2>2. /\ y \in Part /\ y.data = part[n].data + half /\ y.chunk = half /\ y.size = part[m].size
        /\ y.key = part[m].key /\ y.ocupado = part[m].ocupado /\ y.dated = part[m].dated
    <3>1. part[m] \in Part BY <1>5
    <3>2. QED BY <3>1, <1>5 DEF Part
  <2>3. q = [part EXCEPT ![n] = x, ![m] = y] BY <1>1, <1>2, <1>5
  <2> HIDE DEF x, y
  <2>4. q \in [Node -> Part] /\ q[n] = x /\ q[m] = y /\ \A k \in Node \ {n, m} : q[k] = part[k]
    BY <2>1, <2>2, <2>3, <1>1, <1>5
  <2>5. QED BY <2>1, <2>2, <2>4
<1>7. TwoLines' /\ RoomIsShared' /\ InUse' = InUse \cup {m}
  <2>1. part' = q BY DEF q
  <2>2. /\ nodes # NULL /\ q[nodes].data = part[n].data + half /\ q[nodes].chunk = half
        /\ next' = [next EXCEPT ![nodes] = next[n], ![n] = nodes] /\ nodes' = next[nodes]
        /\ \A k \in Node \ {n, nodes} : q[k] = part[k]
    BY <1>2, <1>6
  <2>3. TwoLines' /\ RoomIsShared' /\ InUse' = InUse \cup {nodes}
    <3>1. half \in Nat /\ half >= slab_min_size /\ half + half <= part[n].chunk /\ UNCHANGED <<elements, scheme>>
      BY <1>2, <1>4 DEF schemeVars
    <3>2. /\ q \in [Node -> Part] /\ \A k \in Node \ {n, nodes} : q[k] = part[k]
          /\ q[n].data = part[n].data /\ q[n].chunk = half
      BY <2>2, <1>6
    <3>3. TypeOK /\ TwoLines /\ RoomIsShared /\ Buddy /\ n \in InUse BY <1>1
    <3>4. QED BY ONLY <2>1, <2>2, <3>1, <3>2, <3>3, Taken
  <2>4. QED BY <2>3
<1>8. /\ next \in [Node -> Node \cup {NULL}] /\ prev \in [Node -> Node \cup {NULL}] /\ NULL \notin Node
      /\ next[n] = NULL \/ (next[n] \in InUse /\ next[n] # n /\ next[n] # elements)
      /\ next[m] = NULL \/ (next[m] \in Node \ InUse /\ next[m] # m)
      /\ elements \in InUse
      /\ \A k, j \in Node : next[k] = next[j] /\ next[k] # NULL => k = j
      /\ \A k \in InUse : next[k] = NULL \/ next[k] \in InUse
  <2>1. Memory(elements, nodes, next, part) /\ Spanning(part) = InUse /\ elements # NULL
    BY <1>1, MemoryNow, CantIsNat DEF Spanning, InUse, TypeOK
  <2>2. prev \in [Node -> Node \cup {NULL}] BY <1>1 DEF TypeOK
  <2>3. QED BY <2>1, <2>2, <1>1, <1>5, MemoryFacts
<1>9. /\ prev' \in [Node -> Node \cup {NULL}] /\ next' \in [Node -> Node \cup {NULL}]
      /\ \A k \in InUse \cup {m} : prev'[k] = IF k = m THEN n ELSE IF k = next[n] THEN m ELSE prev[k]
      /\ \A k \in InUse \cup {m} : next'[k] = IF k = m THEN next[n] ELSE IF k = n THEN m ELSE next[k]
  <2> DEFINE p1 == Relink(next[m], NULL, prev)
             p2 == [p1 EXCEPT ![m] = n]
  <2>1. p1 \in [Node -> Node \cup {NULL}] /\ \A k \in InUse : p1[k] = prev[k]
    BY <1>5, <1>8 DEF Relink, InUse
  <2>2. prev' = Relink(next[n], m, p2) BY <1>2
  <2> HIDE DEF p1
  <2>3. /\ p2 \in [Node -> Node \cup {NULL}] /\ p2[m] = n /\ \A k \in InUse : p2[k] = prev[k]
    BY <2>1, <1>1, <1>5 DEF InUse
  <2> HIDE DEF p2
  <2>4. next[n] # m BY <1>5, <1>8
  <2>5. InUse \subseteq Node BY DEF InUse
  <2>6. /\ prev' \in [Node -> Node \cup {NULL}]
        /\ \A k \in InUse \cup {m} : prev'[k] = IF k = m THEN n ELSE IF k = next[n] THEN m ELSE prev[k]
    <3>1. CASE next[n] = NULL BY <3>1, <2>2, <2>3, <2>5, <1>8 DEF Relink
    <3>2. CASE next[n] # NULL
      <4>1. prev' = [p2 EXCEPT ![next[n]] = m] BY <3>2, <2>2 DEF Relink
      <4>2. QED BY <4>1, <3>2, <2>3, <2>4, <2>5, <1>5, <1>8
    <3>3. QED BY <3>1, <3>2
  <2>7. /\ next' \in [Node -> Node \cup {NULL}]
        /\ \A k \in InUse \cup {m} : next'[k] = IF k = m THEN next[n] ELSE IF k = n THEN m ELSE next[k]
    <3>1. next' = [next EXCEPT ![m] = next[n], ![n] = m] BY <1>2
    <3>2. next[n] \in Node \cup {NULL} /\ m \in Node /\ n \in Node /\ n # m BY <1>1, <1>5, <1>8
    <3>3. \A k \in InUse \cup {m} : k \in Node BY <2>5, <3>2
    <3>4. QED BY <3>1, <3>2, <3>3, <1>8
  <2>8. QED BY <2>6, <2>7
<1>10. QED BY <1>5, <1>6, <1>7, <1>9 DEF Halved, q

LEMMA HalveKeeps == ASSUME IInv, Halve PROVE IInv'
<1>0. PICK n, m, half : n = it /\ m = nodes /\ half = part[n].chunk \div 2 OBVIOUS
<1> DEFINE q == part'
<1>1. /\ TypeOK /\ Intact /\ MemoryInv /\ CallFollows /\ ItemFollows
      /\ TwoLines /\ RoomIsShared /\ LinksBack /\ FreeIsBlank
      /\ pc = "halve" /\ Buddy /\ call = "allocate" /\ owner \in Conn /\ want.size \in Sizes[scheme]
      /\ scheme \in Esquemas /\ n \in InUse /\ Free(n) /\ n \in Node
  BY <1>0 DEF Halve, Running, IInv, MemoryInv, CallFollows, ItemFollows, TypeOK, InUse
<1>2. /\ q = [part EXCEPT ![n].chunk = half, ![m].chunk = half, ![m].data = part[n].data + half]
      /\ next' = [next EXCEPT ![m] = next[n], ![n] = m]
      /\ prev' = Relink(next[n], m, [Relink(next[m], NULL, prev) EXCEPT ![m] = n])
      /\ nodes' = next[m] /\ m # NULL /\ half >= Need
      /\ UNCHANGED <<schemeVars, current, tries, callVars, connVars, crashed, damage>>
  BY <1>0 DEF Halve, Halves
<1>3. Halved(n, m, half) BY <1>0, HalveSplits
<1>5. m \in Node \ InUse /\ n # m BY <1>1, <1>3 DEF Halved
<1> HIDE DEF q
<1>6. /\ q \in [Node -> Part]
      /\ \A k \in Node : /\ q[k].size = part[k].size /\ q[k].key = part[k].key
                         /\ q[k].ocupado = part[k].ocupado /\ q[k].dated = part[k].dated
      /\ q[n].data = part[n].data /\ q[n].chunk = half
      /\ q[m].data = part[n].data + half /\ q[m].chunk = half
      /\ \A k \in Node \ {n, m} : q[k] = part[k]
  BY <1>3 DEF Halved, q
<1>7. TwoLines' /\ RoomIsShared' /\ InUse' = InUse \cup {m} BY <1>3 DEF Halved
<1>8. /\ next \in [Node -> Node \cup {NULL}] /\ prev \in [Node -> Node \cup {NULL}] /\ NULL \notin Node
      /\ next[n] = NULL \/ (next[n] \in InUse /\ next[n] # n /\ next[n] # elements)
      /\ next[m] = NULL \/ (next[m] \in Node \ InUse /\ next[m] # m)
      /\ elements \in InUse
      /\ \A k, j \in Node : next[k] = next[j] /\ next[k] # NULL => k = j
      /\ \A k \in InUse : next[k] = NULL \/ next[k] \in InUse
  <2>1. Memory(elements, nodes, next, part) /\ Spanning(part) = InUse /\ elements # NULL
    BY <1>1, MemoryNow, CantIsNat DEF Spanning, InUse, TypeOK
  <2>2. prev \in [Node -> Node \cup {NULL}] BY <1>1 DEF TypeOK
  <2>3. QED BY <2>1, <2>2, <1>1, <1>5, MemoryFacts
<1>9. /\ prev' \in [Node -> Node \cup {NULL}] /\ next' \in [Node -> Node \cup {NULL}]
      /\ \A k \in InUse \cup {m} : prev'[k] = IF k = m THEN n ELSE IF k = next[n] THEN m ELSE prev[k]
      /\ \A k \in InUse \cup {m} : next'[k] = IF k = m THEN next[n] ELSE IF k = n THEN m ELSE next[k]
  BY <1>3 DEF Halved
<1>10. TypeOK'
  <2>1. nodes' \in Node \cup {NULL} BY <1>2, <1>8
  <2>2. QED BY <1>1, <1>2, <1>6, <1>9, <2>1 DEF TypeOK, schemeVars, connVars, callVars, q
<1>11. LinksBack'
  <2>1. /\ \A k \in InUse : /\ IF k = elements THEN prev[k] = NULL
                               ELSE prev[k] \in InUse /\ next[prev[k]] = k
                            /\ next[k] # NULL => prev[next[k]] = k
    BY <1>1 DEF LinksBack
  <2>2. n # NULL /\ m # NULL /\ InUse \subseteq Node /\ m \notin InUse BY <1>1, <1>5, <1>8 DEF InUse
  <2>3. ASSUME NEW k \in InUse \cup {m}
        PROVE  /\ IF k = elements THEN prev'[k] = NULL
                  ELSE prev'[k] \in InUse \cup {m} /\ next'[prev'[k]] = k
               /\ next'[k] # NULL => prev'[next'[k]] = k
    <3>1. CASE k = m
      <4>1. k # elements /\ prev'[k] = n /\ next'[n] = m /\ next'[k] = next[n] BY <3>1, <2>2, <1>1, <1>8, <1>9
      <4>2. next[n] # NULL => prev'[next[n]] = m BY <2>2, <1>8, <1>9
      <4>3. QED BY <3>1, <4>1, <4>2, <1>1
    <3>2. CASE k # m /\ k = next[n]
      <4>0. k # NULL BY <2>2, <1>5, <1>8
      <4>1. k \in InUse /\ k # elements /\ prev'[k] = m /\ next'[m] = k /\ k # n BY <4>0, <3>2, <1>8, <1>9
      <4>2. next'[k] = next[k] BY <3>2, <4>1, <1>9
      <4>3. next[k] # NULL => next[k] \in InUse /\ next[k] # next[n] /\ next[k] # m
        BY <3>2, <4>1, <1>1, <1>8, <2>2
      <4>4. next[k] # NULL => prev'[next[k]] = prev[next[k]] BY <4>3, <1>9
      <4>5. QED BY <4>1, <4>2, <4>4, <2>1
    <3>3. CASE k # m /\ k # next[n]
      <4>1. k \in InUse /\ prev'[k] = prev[k] BY <3>3, <1>9
      <4>2. k # elements => prev[k] \in InUse /\ prev[k] # n /\ prev[k] # m BY <3>3, <4>1, <2>1, <2>2
      <4>3. k # elements => next'[prev[k]] = k BY <4>1, <4>2, <2>1, <1>9
      <4>4. CASE k = n
        <5>1. next'[k] = m /\ prev'[m] = n BY <4>4, <1>1, <1>5, <1>9
        <5>2. k = elements => prev[k] = NULL BY <4>1, <2>1
        <5>3. QED BY <4>1, <4>2, <4>3, <4>4, <5>1, <5>2
      <4>5. CASE k # n
        <5>1. next'[k] = next[k] BY <3>3, <4>1, <4>5, <1>9
        <5>2. next[k] # NULL => next[k] \in InUse /\ next[k] # next[n] /\ next[k] # m
          BY <4>1, <4>5, <1>1, <1>8, <2>2
        <5>3. next[k] # NULL => prev'[next[k]] = prev[next[k]] BY <5>2, <1>9
        <5>4. QED BY <4>1, <4>2, <4>3, <5>1, <5>3, <2>1
      <4>6. QED BY <4>4, <4>5
    <3>4. QED BY <3>1, <3>2, <3>3
  <2>4. elements' = elements BY <1>2 DEF schemeVars
  <2>5. QED BY <2>3, <2>4, <1>7 DEF LinksBack
<1>12. CurrentIsSum'
  <2>1. [k \in Node |-> q[k].size] = [k \in Node |-> part[k].size] BY <1>6
  <2>2. QED BY <2>1, <1>1, <1>2 DEF MemoryInv, CurrentIsSum, q, Intact
<1>13. FreeIsBlank'
  <2>1. ASSUME NEW k \in Node, Blank(k) PROVE Blank(k)'
    <3>1. part[k].size = 0 /\ part[k].key = NoKey /\ part[k].ocupado = FALSE /\ part[k].dated = FALSE
      BY <2>1 DEF Blank, Empty
    <3>2. q[k] = [data |-> q[k].data, chunk |-> q[k].chunk, size |-> q[k].size, key |-> q[k].key,
                  ocupado |-> q[k].ocupado, dated |-> q[k].dated]
      BY <1>6 DEF Part
    <3>3. q[k] = Empty(q[k].data, q[k].chunk) BY <3>1, <3>2, <1>6 DEF Empty
    <3>4. QED BY <3>3 DEF Blank, q
  <2>2. ASSUME NEW k \in Node, k \notin InUse' \/ Free(k)' PROVE k \notin InUse \/ Free(k)
    BY <2>2, <1>6, <1>7 DEF Free, estaReservado, q
  <2>3. \A k \in Node : part'[k].key # Garbage /\ (part'[k].ocupado => part'[k].key \in Key)
    BY <1>1, <1>6 DEF FreeIsBlank, q
  <2>4. pc' = "halve" BY <1>1, <1>2 DEF callVars
  <2>5. QED BY <2>1, <2>2, <2>3, <2>4, <1>1 DEF FreeIsBlank
<1>14. CallFollows' BY <1>1, <1>2 DEF CallFollows, schemeVars, connVars, callVars, Buddy
<1>15. ItemFollows'
  <2>1. it' = it /\ pc' = pc BY <1>2 DEF callVars
  <2>2. Free(n)' BY <1>1, <1>6 DEF Free, estaReservado, q
  <2>3. Free(it)' BY <2>1, <2>2, <1>0 DEF Free, estaReservado
  <2>4. part'[it'].chunk >= Need' BY <2>1, <1>0, <1>2, <1>6 DEF Need, q, callVars
  <2>5. QED BY <2>1, <2>3, <2>4, <1>0, <1>1, <1>2, <1>7 DEF ItemFollows, connVars, callVars
<1>16. QED BY <1>7, <1>10, <1>11, <1>12, <1>13, <1>14, <1>15 DEF IInv, MemoryInv

\* the sibling h of partition n becomes the first spare node, before s, and n gets its memory
United(n, h, s) ==
  /\ part' \in [Node -> Part]
  /\ \A k \in Node : /\ part'[k].size = part[k].size /\ part'[k].key = part[k].key
                     /\ part'[k].ocupado = part[k].ocupado /\ part'[k].dated = part[k].dated
  /\ part'[n].data = IF next[n] = h THEN part[n].data ELSE part[h].data
  /\ part'[n].chunk = part[n].chunk + part[h].chunk /\ part'[h].chunk = 0
  /\ \A k \in Node \ {n, h} : part'[k] = part[k]
  /\ h \in InUse /\ h # n /\ (next[n] = h \/ next[h] = n) /\ (esElPrimerHermano(n) <=> next[n] = h)
  /\ TwoLines' /\ RoomIsShared' /\ InUse' = InUse \ {h}
  /\ elements' = (IF elements = h THEN next[h] ELSE elements) /\ elements' \in InUse \ {h}
  /\ next' \in [Node -> Node \cup {NULL}] /\ prev' \in [Node -> Node \cup {NULL}] /\ next'[h] = s
  /\ \A k \in Node \ {h} : next'[k] = IF next[k] = h THEN next[h] ELSE next[k]
  /\ \A k \in InUse \ {h} : prev'[k] = IF k = next[h] THEN prev[h] ELSE prev[k]

\* the links back tell the two neighbours of a partition
LEMMA UniteJoins ==
  ASSUME IInv, Unite, NEW n, NEW h, NEW s, n = it, h = Hno(it), s = nodes
  PROVE  United(n, h, s)
<1> DEFINE q == part'
           nx1 == next'
           pv1 == prev'
           first == IF esElPrimerHermano(it) THEN TRUE ELSE FALSE
           c == part[n].chunk + part[h].chunk
           e1 == IF elements = h THEN next[h] ELSE elements
<1>1. /\ TypeOK /\ Intact /\ MemoryInv /\ CallFollows /\ ItemFollows
      /\ TwoLines /\ RoomIsShared /\ LinksBack /\ FreeIsBlank
      /\ pc = "unite" /\ Buddy /\ n \in InUse /\ Free(n) /\ n \in Node
      /\ h # NULL /\ Free(h) /\ part[h].chunk = part[n].chunk
  BY DEF Unite, Unites, Running, IInv, MemoryInv, CallFollows, ItemFollows, TypeOK, InUse
<1>2. /\ q = [part EXCEPT ![n].chunk = @ * 2, ![h].chunk = 0, ![h].data = 0,
                          ![n].data = IF first THEN @ ELSE part[h].data]
      /\ nx1 = [k \in Node |-> IF k = h THEN s ELSE IF k = prev[h] THEN next[h] ELSE next[k]]
      /\ pv1 = Spare(h, Relink(next[h], prev[h], prev))
      /\ elements' = (IF prev[h] = NULL THEN next[h] ELSE elements)
      /\ nodes' = h
      /\ UNCHANGED <<scheme, current, tries, callVars, connVars, crashed, damage>>
  BY DEF Unite
<1>3. h = IF first THEN next[n] ELSE prev[n] BY DEF Hno
<1> HIDE DEF q, nx1, pv1, first, c
<1>4. /\ Memory(elements, s, next, part) /\ Spanning(part) = InUse /\ elements # NULL
  BY <1>1, MemoryNow, CantIsNat DEF Spanning, InUse, TypeOK
<1>5. /\ next \in [Node -> Node \cup {NULL}] /\ prev \in [Node -> Node \cup {NULL}] /\ NULL \notin Node
      /\ InUse \subseteq Node /\ elements \in InUse /\ s \in (Node \ InUse) \cup {NULL}
      /\ \A k \in InUse : next[k] = NULL \/ (next[k] \in InUse /\ next[k] # k /\ next[k] # elements)
      /\ \A k \in Node \ InUse : next[k] = NULL \/ next[k] \in Node \ InUse
      /\ \A k, j \in Node : next[k] = next[j] /\ next[k] # NULL => k = j
  <2>1. prev \in [Node -> Node \cup {NULL}] BY <1>1 DEF TypeOK
  <2>2. QED BY <2>1, <1>4, MemoryFacts
<1>6. \A k \in InUse : /\ k = elements => prev[k] = NULL
                       /\ k # elements => prev[k] \in InUse /\ next[prev[k]] = k
                       /\ next[k] # NULL => prev[next[k]] = k
  BY <1>1 DEF LinksBack
<1>7. h \in InUse /\ h # n /\ h \in Node /\ (next[n] = h \/ next[h] = n)
  <2>1. CASE first BY <2>1, <1>1, <1>3, <1>5
  <2>2. CASE ~first
    <3>1. h = prev[n] BY <2>2, <1>3
    <3>2. n # elements BY <3>1, <1>1, <1>6
    <3>3. h \in InUse /\ next[h] = n BY <3>1, <3>2, <1>1, <1>6
    <3>4. QED BY <3>3, <1>1, <1>5
  <2>3. QED BY <2>1, <2>2
<1>8. /\ part \in [Node -> Part] /\ c \in 0..table_max_size /\ c = part[n].chunk * 2
      /\ part[n].chunk \in Nat \ {0} /\ part[h].chunk \in Nat \ {0} /\ 0 \in 0..table_max_size
      /\ part[n].data \in 0..table_max_size /\ part[h].data \in 0..table_max_size
      /\ part[n].data \in Nat /\ part[h].data \in Nat
  <2>1. part \in [Node -> Part] BY <1>1 DEF TypeOK
  <2>2. c \in 0..table_max_size BY <1>1, <1>7, ChunksFit DEF c
  <2>3. /\ \A k \in InUse : part[k].chunk \in Nat \ {0}
        /\ \A k \in Node : part[k].data \in 0..table_max_size /\ part[k].data \in Nat
    BY <2>1, <1>5, EngineAssumption DEF Part, InUse
  <2>4. c = part[n].chunk * 2 BY <2>3, <1>1, <1>7 DEF c
  <2>5. QED BY <2>1, <2>2, <2>3, <2>4, <1>1, <1>7, EngineAssumption
<1>9. first <=> next[n] = h
  <2>1. first => next[n] = h BY <1>3
  <2>2. ASSUME ~first, next[n] = h PROVE FALSE
    <3>1. next[h] = n
      <4>1. h = prev[n] BY <2>2, <1>3
      <4>2. n # elements BY <4>1, <1>1, <1>6
      <4>3. QED BY <4>1, <4>2, <1>1, <1>6
    <3>2. part[n].data + part[n].chunk <= part[h].data BY <2>2, <1>1, <1>5, <1>7 DEF RoomIsShared, EndOf
    <3>3. part[h].data + part[h].chunk <= part[n].data BY <3>1, <1>1, <1>5, <1>7 DEF RoomIsShared, EndOf
    <3>4. QED BY <3>2, <3>3, <1>8
  <2>3. QED BY <2>1, <2>2 DEF first
<1>10. /\ q \in [Node -> Part]
       /\ \A k \in Node : /\ q[k].size = part[k].size /\ q[k].key = part[k].key
                          /\ q[k].ocupado = part[k].ocupado /\ q[k].dated = part[k].dated
       /\ q[n].data = IF next[n] = h THEN part[n].data ELSE part[h].data
       /\ q[n].chunk = c /\ q[h].chunk = 0
       /\ \A k \in Node \ {n, h} : q[k] = part[k]
  <2> DEFINE x == [part[n] EXCEPT !.chunk = c, !.data = IF first THEN part[n].data ELSE part[h].data]
             y == [part[h] EXCEPT !.chunk = 0, !.data = 0]
  <2>1. /\ x \in Part /\ x.data = (IF first THEN part[n].data ELSE part[h].data) /\ x.chunk = c
        /\ x.size = part[n].size
        /\ x.key = part[n].key /\ x.ocupado = part[n].ocupado /\ x.dated = part[n].dated
    <3>1. part[n] \in Part BY <1>1, <1>8
    <3>2. (IF first THEN part[n].data ELSE part[h].data) \in 0..table_max_size BY <1>8
    <3>3. QED BY <3>1, <3>2, <1>8 DEF Part
  <2>2. /\ y \in Part /\ y.chunk = 0 /\ y.size = part[h].size
        /\ y.key = part[h].key /\ y.ocupado = part[h].ocupado /\ y.dated = part[h].dated
    <3>1. part[h] \in Part BY <1>7, <1>8
    <3>2. QED BY <3>1, <1>8 DEF Part
  <2>3. q = [part EXCEPT ![n] = x, ![h] = y]
    <3>1. q \in [Node -> {q[k] : k \in Node}] BY <1>2, <1>8
    <3>2. \A k \in Node \ {n, h} : q[k] = part[k] BY <1>2, <1>8
    <3>3. q[h] = [[part[h] EXCEPT !.chunk = 0] EXCEPT !.data = 0] BY <1>1, <1>2, <1>7, <1>8
    <3>4. q[n] = [[part[n] EXCEPT !.chunk = part[n].chunk * 2]
                    EXCEPT !.data = IF first THEN part[n].data ELSE part[h].data]
      <4>1. part[n] \in Part BY <1>1, <1>8
      <4>2. [part[n] EXCEPT !.chunk = part[n].chunk * 2].data = part[n].data BY <4>1 DEF Part
      <4>3. q[n] = [[part[n] EXCEPT !.chunk = part[n].chunk * 2]
                      EXCEPT !.data = IF first THEN [part[n] EXCEPT !.chunk = part[n].chunk * 2].data
                                      ELSE part[h].data]
        BY <1>1, <1>2, <1>7, <1>8
      <4>4. QED BY <4>2, <4>3
    <3>6. q[n] = x BY <3>4, <1>8
    <3>7. q[h] = y BY <3>3
    <3>8. q = [k \in Node |-> q[k]] BY <3>1
    <3> HIDE DEF x, y
    <3>9. \A k \in Node : q[k] = [part EXCEPT ![n] = x, ![h] = y][k]
      BY <3>2, <3>6, <3>7, <1>1, <1>7, <1>8
    <3>10. QED BY <3>8, <3>9, <1>8
  <2> HIDE DEF x, y
  <2>4. q \in [Node -> Part] /\ q[n] = x /\ q[h] = y /\ \A k \in Node \ {n, h} : q[k] = part[k]
    BY <2>1, <2>2, <2>3, <1>1, <1>7, <1>8
  <2>5. QED BY <2>1, <2>2, <2>4, <1>9
<1>11. /\ nx1 \in [Node -> Node \cup {NULL}] /\ nx1[h] = s
       /\ \A k \in Node \ {h} : nx1[k] = IF next[k] = h THEN next[h] ELSE next[k]
       /\ elements' = e1
  <2>1. nx1 \in [Node -> Node \cup {NULL}] /\ nx1[h] = s BY <1>2, <1>5, <1>7
  <2>2. ASSUME NEW k \in Node \ {h} PROVE next[k] = h <=> k = prev[h]
    <3>1. ASSUME next[k] = h PROVE k = prev[h]
      <4>1. k \in InUse BY <3>1, <1>5, <1>7
      <4>2. QED BY <3>1, <4>1, <1>5, <1>6, <1>7
    <3>2. ASSUME k = prev[h] PROVE next[k] = h
      <4>1. h # elements BY <3>2, <1>5, <1>6, <1>7
      <4>2. QED BY <3>2, <4>1, <1>6, <1>7
    <3>3. QED BY <3>1, <3>2
  <2>3. elements = h <=> prev[h] = NULL BY <1>5, <1>6, <1>7
  <2>4. QED BY <2>1, <2>2, <2>3, <1>2
<1>12. /\ Memory(e1, h, nx1, q) /\ Spanning(q) = InUse \ {h} /\ e1 \in InUse \ {h}
  <2>1. \A k \in Node \ {h, n} : q[k].data = part[k].data /\ q[k].chunk = part[k].chunk BY <1>10
  <2>2. q[n].chunk = part[n].chunk + part[h].chunk BY <1>10 DEF c
  <2>3. n \in Spanning(part) /\ h \in Spanning(part) /\ (next[n] = h \/ next[h] = n) BY <1>1, <1>4, <1>7
  <2> DEFINE f == e1
  <2>4. f = IF elements = h THEN next[h] ELSE elements OBVIOUS
  <2> HIDE DEF f
  <2>5. /\ Memory(f, h, nx1, q) /\ Spanning(q) = Spanning(part) \ {h} /\ f \in Spanning(q)
    BY <2>1, <2>2, <2>3, <2>4, <1>4, <1>10, <1>11, MemoryMerged
  <2>6. QED BY <2>5, <1>4 DEF f
<1>13. TwoLines' /\ RoomIsShared' /\ InUse' = InUse \ {h}
  <2>1. Memory(elements', nodes', next', part') BY <1>2, <1>11, <1>12 DEF q, nx1
  <2>2. Buddy' BY <1>1, <1>2 DEF Buddy
  <2>3. QED BY <2>1, <2>2, <1>12, MemoryThen DEF q
<1>14. /\ pv1 \in [Node -> Node \cup {NULL}]
       /\ \A k \in InUse \ {h} : pv1[k] = IF k = next[h] THEN prev[h] ELSE prev[k]
  <2> DEFINE p1 == Relink(next[h], prev[h], prev)
  <2>1. /\ p1 \in [Node -> Node \cup {NULL}]
        /\ \A k \in Node : p1[k] = IF k = next[h] THEN prev[h] ELSE prev[k]
    BY <1>5, <1>7 DEF Relink
  <2>2. pv1 = Spare(h, p1) BY <1>2
  <2> HIDE DEF p1
  <2>3. pv1 \in [Node -> Node \cup {NULL}] BY <2>1, <2>2, <1>1, <1>7, SpareTyped
  <2>4. ASSUME NEW k \in InUse \ {h} PROVE pv1[k] = p1[k]
    <3>1. k # nodes /\ k # h /\ k \in Node BY <1>5
    <3>2. QED BY <3>1, <2>2 DEF Spare
  <2>5. QED BY <2>1, <2>3, <2>4, <1>5
<1>15. esElPrimerHermano(n) <=> first BY DEF first
<1>16. QED BY <1>7, <1>9, <1>10, <1>11, <1>12, <1>13, <1>14, <1>15 DEF United, q, nx1, pv1, c

LEMMA UniteKeeps == ASSUME IInv, Unite PROVE IInv'
<1>0. PICK n, h, s : n = it /\ h = Hno(it) /\ s = nodes OBVIOUS
<1> DEFINE q == part'
           nx1 == next'
           pv1 == prev'
           e1 == IF elements = h THEN next[h] ELSE elements
<1>1. /\ TypeOK /\ Intact /\ MemoryInv /\ CallFollows /\ ItemFollows
      /\ TwoLines /\ RoomIsShared /\ LinksBack /\ FreeIsBlank
      /\ pc = "unite" /\ Buddy /\ n \in InUse /\ Free(n) /\ n \in Node
      /\ h # NULL /\ Free(h) /\ part[h].chunk = part[n].chunk
  BY <1>0 DEF Unite, Unites, Running, IInv, MemoryInv, CallFollows, ItemFollows, TypeOK, InUse
<1>2. /\ nodes' = h
      /\ UNCHANGED <<scheme, current, tries, callVars, connVars, crashed, damage>>
  BY <1>0 DEF Unite
<1>3. United(n, h, s) BY <1>0, UniteJoins
<1> HIDE DEF q, nx1, pv1
<1>4. /\ Memory(elements, s, next, part) /\ Spanning(part) = InUse /\ elements # NULL
  BY <1>0, <1>1, MemoryNow, CantIsNat DEF Spanning, InUse, TypeOK
<1>5. /\ next \in [Node -> Node \cup {NULL}] /\ prev \in [Node -> Node \cup {NULL}] /\ NULL \notin Node
      /\ InUse \subseteq Node /\ elements \in InUse /\ s \in (Node \ InUse) \cup {NULL}
      /\ \A k \in InUse : next[k] = NULL \/ (next[k] \in InUse /\ next[k] # k /\ next[k] # elements)
      /\ \A k \in Node \ InUse : next[k] = NULL \/ next[k] \in Node \ InUse
      /\ \A k, j \in Node : next[k] = next[j] /\ next[k] # NULL => k = j
  <2>1. prev \in [Node -> Node \cup {NULL}] BY <1>1 DEF TypeOK
  <2>2. QED BY <2>1, <1>4, MemoryFacts
<1>6. \A k \in InUse : /\ k = elements => prev[k] = NULL
                       /\ k # elements => prev[k] \in InUse /\ next[prev[k]] = k
                       /\ next[k] # NULL => prev[next[k]] = k
  BY <1>1 DEF LinksBack
<1>7. h \in InUse /\ h # n /\ h \in Node /\ (next[n] = h \/ next[h] = n) BY <1>3, <1>5 DEF United
<1>10. /\ q \in [Node -> Part]
       /\ \A k \in Node : /\ q[k].size = part[k].size /\ q[k].key = part[k].key
                          /\ q[k].ocupado = part[k].ocupado /\ q[k].dated = part[k].dated
  BY <1>3 DEF United, q
<1>11. /\ nx1 \in [Node -> Node \cup {NULL}] /\ nx1[h] = s
       /\ \A k \in Node \ {h} : nx1[k] = IF next[k] = h THEN next[h] ELSE next[k]
       /\ elements' = e1
  BY <1>3 DEF United, nx1
<1>12. e1 \in InUse \ {h} BY <1>3 DEF United
<1>13. TwoLines' /\ RoomIsShared' /\ InUse' = InUse \ {h} BY <1>3 DEF United
<1>14. /\ pv1 \in [Node -> Node \cup {NULL}]
       /\ \A k \in InUse \ {h} : pv1[k] = IF k = next[h] THEN prev[h] ELSE prev[k]
  BY <1>3 DEF United, pv1
<1>15. TypeOK'
  <2>1. elements' \in Node BY <1>5, <1>11, <1>12
  <2>2. next' \in [Node -> Node \cup {NULL}] /\ prev' \in [Node -> Node \cup {NULL}] /\ part' \in [Node -> Part]
    BY <1>10, <1>11, <1>14 DEF q, nx1, pv1
  <2>3. QED BY <1>1, <1>2, <1>7, <2>1, <2>2 DEF TypeOK, connVars, callVars
<1>16. LinksBack'
  <2>1. ASSUME NEW k \in InUse \ {h}
        PROVE  /\ IF k = e1 THEN pv1[k] = NULL ELSE pv1[k] \in InUse \ {h} /\ nx1[pv1[k]] = k
               /\ nx1[k] # NULL => pv1[nx1[k]] = k
    <3>0. k \in InUse /\ k \in Node /\ k # h /\ k # NULL /\ (next[k] # NULL => next[k] \in InUse)
      BY <1>5
    <3>1. ASSUME k = next[h]
          PROVE  IF k = e1 THEN pv1[k] = NULL ELSE pv1[k] \in InUse \ {h} /\ nx1[pv1[k]] = k
      <4>1. pv1[k] = prev[h] /\ k # elements BY <3>1, <1>5, <1>7, <1>14
      <4>2. CASE h = elements BY <4>1, <4>2, <3>1, <1>6, <1>7
      <4>3. CASE h # elements
        <5>1. prev[h] \in InUse /\ next[prev[h]] = h BY <4>3, <1>6, <1>7
        <5>2. prev[h] # h BY <5>1, <1>5, <1>7
        <5>3. nx1[prev[h]] = next[h] BY <5>1, <5>2, <1>5, <1>11
        <5>4. e1 = elements BY <4>3
        <5>5. QED BY <3>1, <4>1, <5>1, <5>2, <5>3, <5>4
      <4>4. QED BY <4>2, <4>3
    <3>2. ASSUME k # next[h]
          PROVE  IF k = e1 THEN pv1[k] = NULL ELSE pv1[k] \in InUse \ {h} /\ nx1[pv1[k]] = k
      <4>1. pv1[k] = prev[k] BY <3>2, <1>14
      <4>2. CASE k = elements
        <5>1. e1 = k /\ prev[k] = NULL BY <4>2, <3>0, <1>6
        <5>2. QED BY <4>1, <5>1
      <4>3. CASE k # elements
        <5>1. prev[k] \in InUse /\ next[prev[k]] = k BY <4>3, <3>0, <1>6
        <5>2. prev[k] # h BY <5>1, <3>2
        <5>3. nx1[prev[k]] = k BY <5>1, <5>2, <3>0, <1>5, <1>11
        <5>4. k # e1 BY <4>3, <3>2
        <5>5. QED BY <4>1, <5>1, <5>2, <5>3, <5>4
      <4>4. QED BY <4>2, <4>3
    <3>3. nx1[k] # NULL => pv1[nx1[k]] = k
      <4>1. CASE next[k] = h
        <5>1. nx1[k] = next[h] /\ prev[h] = k BY <4>1, <3>0, <1>5, <1>6, <1>7, <1>11
        <5>2. next[h] # NULL => next[h] \in InUse \ {h} BY <1>5, <1>7
        <5>3. QED BY <5>1, <5>2, <1>14
      <4>2. CASE next[k] # h
        <5>1. nx1[k] = next[k] BY <4>2, <3>0, <1>11
        <5>2. ASSUME next[k] # NULL PROVE pv1[next[k]] = k
          <6>1. next[k] \in InUse \ {h} /\ prev[next[k]] = k BY <5>2, <4>2, <3>0, <1>6
          <6>2. next[k] # next[h] BY <5>2, <3>0, <1>5, <1>7
          <6>3. QED BY <6>1, <6>2, <1>14
        <5>3. QED BY <5>1, <5>2
      <4>3. QED BY <4>1, <4>2
    <3>4. QED BY <3>1, <3>2, <3>3
  <2>2. elements' = e1 BY <1>11
  <2>3. QED BY <2>1, <2>2, <1>13 DEF LinksBack, nx1, pv1
<1>17. CurrentIsSum'
  <2>1. [k \in Node |-> q[k].size] = [k \in Node |-> part[k].size] BY <1>10
  <2>2. QED BY <2>1, <1>1, <1>2 DEF MemoryInv, CurrentIsSum, q, Intact
<1>18. FreeIsBlank'
  <2>1. ASSUME NEW k \in Node, Blank(k) PROVE Blank(k)'
    <3>1. part[k].size = 0 /\ part[k].key = NoKey /\ part[k].ocupado = FALSE /\ part[k].dated = FALSE
      BY <2>1 DEF Blank, Empty
    <3>2. q[k] = [data |-> q[k].data, chunk |-> q[k].chunk, size |-> q[k].size, key |-> q[k].key,
                  ocupado |-> q[k].ocupado, dated |-> q[k].dated]
      BY <1>10 DEF Part
    <3>3. q[k] = Empty(q[k].data, q[k].chunk) BY <3>1, <3>2, <1>10 DEF Empty
    <3>4. QED BY <3>3 DEF Blank, q
  <2>2. ASSUME NEW k \in Node, k \notin InUse' \/ Free(k)' PROVE k \notin InUse \/ Free(k)
    <3>1. k = h => Free(k) BY <1>1
    <3>2. QED BY <2>2, <3>1, <1>10, <1>13 DEF Free, estaReservado, q
  <2>3. \A k \in Node : part'[k].key # Garbage /\ (part'[k].ocupado => part'[k].key \in Key)
    BY <1>1, <1>10 DEF FreeIsBlank, q
  <2>4. pc = "unite" BY <1>1
  <2>5. QED BY <2>1, <2>2, <2>3, <2>4, <1>1 DEF FreeIsBlank
<1>19. CallFollows' BY <1>1, <1>2 DEF CallFollows, connVars, callVars, Buddy
<1>20. ItemFollows'
  <2>1. it' = it /\ pc' = pc BY <1>2 DEF callVars
  <2>2. Free(n)' BY <1>1, <1>10 DEF Free, estaReservado, q
  <2>3. Free(it)' BY <2>1, <2>2, <1>0 DEF Free, estaReservado
  <2>4. QED BY <2>1, <2>3, <1>0, <1>1, <1>2, <1>7, <1>13 DEF ItemFollows, connVars, callVars
<1>21. QED BY <1>13, <1>15, <1>16, <1>17, <1>18, <1>19, <1>20 DEF IInv, MemoryInv

-----------------------------------------------------------------------------
(* The invariant holds, and what follows from it *)

LEMMA Starts == ASSUME Init PROVE IInv
<1>1. Cant \in Nat \ {0} /\ Node = 0..Cant /\ NULL \notin Node BY CantIsNat
<1>2. /\ slab_min_size \in Nat \ {0} /\ table_max_size \in Nat /\ table_max_size >= slab_min_size
      /\ NoConn \notin Conn /\ Garbage # NoKey
  BY EngineAssumption
<1>3. PICK k \in {NoKey, Garbage} :
        /\ part = [n \in Node |->
             IF n = 0 THEN [Empty(0, table_max_size) EXCEPT !.key = k] ELSE Empty(0, 0)]
        /\ damage = IF k = NoKey THEN {} ELSE {"first key not empty"}
  BY DEF Init
<1>4. /\ next = [n \in Node |-> IF n \in {0, Cant} THEN NULL ELSE n + 1]
      /\ prev = [n \in Node |-> IF n \in {0, 1} THEN NULL ELSE n - 1]
      /\ elements = 0 /\ nodes = 1 /\ scheme \in Esquemas /\ current = 0 /\ tries = 0
      /\ owner = NoConn /\ pc = "idle" /\ call = "none" /\ it = NULL /\ want = NoWant
      /\ stage = [c \in Conn |-> "idle"] /\ item = [c \in Conn |-> NULL] /\ crashed = FALSE
  BY DEF Init
<1>5. \A n \in Node : /\ part[n].data = 0 /\ part[n].chunk = (IF n = 0 THEN table_max_size ELSE 0)
                      /\ part[n].size = 0 /\ part[n].ocupado = FALSE
                      /\ n # 0 \/ k = NoKey => part[n] = Empty(0, part[n].chunk) /\ part[n].key = NoKey
  BY <1>3 DEF Empty
<1>6. TypeOK
  <2>1. part \in [Node -> Part]
    <3>1. Empty(0, 0) \in Part BY <1>2, SizesAreNat DEF Empty, Part
    <3>2. 0 \in 0..table_max_size /\ table_max_size \in 0..table_max_size /\ 0 \in AllSizes
      BY <1>2, SizesAreNat
    <3>3. Empty(0, table_max_size) \in Part BY <3>2 DEF Empty, Part
    <3>4. \A e \in Part : [e EXCEPT !.key = k] \in Part BY DEF Part
    <3>5. [Empty(0, table_max_size) EXCEPT !.key = k] \in Part BY <3>3, <3>4
    <3>6. QED BY <1>3, <3>1, <3>5
  <2>2. next \in [Node -> Node \cup {NULL}]
    <3>1. ASSUME NEW n \in Node PROVE next[n] \in Node \cup {NULL} BY <1>1, <1>4
    <3>2. next = [n \in Node |-> next[n]] BY <1>4
    <3>3. QED BY <3>1, <3>2
  <2>3. prev \in [Node -> Node \cup {NULL}]
    <3>1. ASSUME NEW n \in Node PROVE prev[n] \in Node \cup {NULL} BY <1>1, <1>4
    <3>2. prev = [n \in Node |-> prev[n]] BY <1>4
    <3>3. QED BY <3>1, <3>2
  <2>4. elements \in Node /\ nodes \in Node BY <1>1, <1>4
  <2>5. NoWant \in Wanted BY SizesAreNat DEF NoWant, Wanted
  <2>6. damage \subseteq Damages BY <1>3 DEF Damages
  <2>7. stage \in [Conn -> Stages] /\ item \in [Conn -> Node \cup {NULL}]
    <3>1. "idle" \in Stages BY DEF Stages
    <3>2. QED BY <1>4, <3>1
  <2>8. pc \in Labels /\ call \in Calls BY <1>4 DEF Labels, Calls
  <2>9. /\ scheme \in Esquemas /\ current \in Int /\ tries \in Int /\ owner \in Conn \cup {NoConn}
        /\ it \in Node \cup {NULL} /\ want \in Wanted /\ crashed \in BOOLEAN
    <3>1. crashed \in BOOLEAN /\ scheme \in Esquemas BY <1>4
    <3>2. current \in Int /\ tries \in Int BY <1>4
    <3>3. owner \in Conn \cup {NoConn} /\ it \in Node \cup {NULL} BY <1>4
    <3>4. want \in Wanted BY <1>4, <2>5
    <3>5. QED BY <3>1, <3>2, <3>3, <3>4
  <2>10. QED BY <2>1, <2>2, <2>3, <2>4, <2>6, <2>7, <2>8, <2>9 DEF TypeOK
<1>7. CallFollows /\ ItemFollows BY <1>1, <1>2, <1>4 DEF CallFollows, ItemFollows
<1>8. ASSUME Intact PROVE MemoryInv
  <2>1. k = NoKey BY <1>3, <1>8 DEF Intact
  <2>2. InUse = {0} BY <1>1, <1>2, <1>5 DEF InUse
  <2> DEFINE rank == [n \in Node |-> IF n = 0 THEN 0 ELSE n - 1]
  <2>3. \A n \in Node : rank[n] = (IF n = 0 THEN 0 ELSE n - 1) OBVIOUS
  <2>4. rank \in [Node -> 0..Cant] BY <1>1
  <2> HIDE DEF rank
  <2>5. /\ \A n \in Node : n \in Nat /\ n <= Cant
        /\ \A n \in Node : n # 0 /\ n # Cant => next[n] = n + 1 /\ n + 1 \in Node
        /\ next[0] = NULL /\ next[Cant] = NULL /\ 0 \in Node /\ 1 \in Node /\ Cant \in Node
    BY <1>1, <1>4
  <2>6. Line(elements, InUse, next, 1, rank) BY <2>2, <2>3, <2>5, <1>4 DEF Line
  <2>7. Line(nodes, Node \ InUse, next, Cant, rank)
    <3> DEFINE F == Node \ {0}
    <3>1. 1 \in F /\ rank[1] = 0 BY <2>3, <2>5
    <3>2. ASSUME NEW n \in F
          PROVE  /\ rank[n] \in 0..Cant - 1
                 /\ IF rank[n] = Cant - 1 THEN next[n] = NULL ELSE next[n] \in F /\ rank[next[n]] = rank[n] + 1
      <4>1. n \in Nat /\ n <= Cant /\ n # 0 /\ rank[n] = n - 1 BY <2>3, <2>5
      <4>2. CASE n = Cant BY <4>1, <4>2, <2>5, <1>1
      <4>3. CASE n # Cant
        <5>1. next[n] = n + 1 /\ n + 1 \in F BY <4>1, <4>3, <2>5
        <5>2. rank[n + 1] = n BY <5>1, <4>1, <2>3
        <5>3. QED BY <4>1, <4>3, <5>1, <5>2, <1>1
      <4>4. QED BY <4>2, <4>3
    <3>3. ASSUME NEW m \in F, NEW n \in F, rank[m] = rank[n] PROVE m = n
      <4>1. m \in Nat /\ n \in Nat /\ rank[m] = m - 1 /\ rank[n] = n - 1 BY <2>3, <2>5
      <4>2. QED BY <4>1, <3>3
    <3>4. Node \ InUse = F /\ nodes = 1 /\ Cant # 0 BY <2>2, <1>1, <1>4
    <3> HIDE DEF F
    <3>5. QED BY <3>1, <3>2, <3>3, <3>4 DEF Line
  <2>8. TwoLines
    <3>1. Cant \notin InUse /\ rank[Cant] = Cant - 1 BY <2>2, <2>3, <2>5, <1>1
    <3>2. Lines(rank, 1, Cant) BY <2>6, <2>7, <3>1, <1>1 DEF Lines
    <3>3. 1 \in 0..Cant + 1 /\ Cant \in 0..Cant + 1 BY <1>1
    <3>4. QED BY <2>4, <3>2, <3>3 DEF TwoLines
  <2>9. RoomIsShared BY <2>2, <2>5, <1>2, <1>4, <1>5 DEF RoomIsShared, EndOf
  <2>10. FreeIsBlank
    <3>1. \A n \in Node : Blank(n) BY <2>1, <1>5 DEF Blank
    <3>2. \A n \in Node : part[n].key # Garbage /\ part[n].ocupado = FALSE BY <2>1, <1>2, <1>5
    <3>3. QED BY <3>1, <3>2 DEF FreeIsBlank
  <2>11. LinksBack
    <3>1. prev[0] = NULL BY <1>4, <2>5
    <3>2. QED BY <3>1, <2>2, <2>5, <1>4 DEF LinksBack
  <2>12. CurrentIsSum
    <3>1. [n \in Node |-> part[n].size] = [n \in Node |-> 0] BY <1>5
    <3>2. QED BY <3>1, <1>4, TotalOfNothing DEF CurrentIsSum
  <2>13. QED BY <2>8, <2>9, <2>10, <2>11, <2>12 DEF MemoryInv
<1>9. QED BY <1>6, <1>7, <1>8 DEF IInv

\* what the process has left behind when it died is kept
LEMMA StutterKeeps == ASSUME IInv, UNCHANGED vars PROVE IInv'
<1>1. UNCHANGED <<part, next, prev, scheme, elements, nodes, current, tries, owner, pc, call, it,
                  want, stage, item, crashed, damage>>
  BY DEF vars, memVars, schemeVars, callVars, connVars
<1>2. TypeOK' BY <1>1 DEF IInv, TypeOK
<1>3. ASSUME Intact' PROVE MemoryInv' /\ CallFollows' /\ ItemFollows'
  <2>1. TypeOK /\ Intact /\ MemoryInv /\ CallFollows /\ ItemFollows BY <1>1, <1>3 DEF IInv, Intact
  <2>2. MemoryInv' /\ InUse' = InUse BY <1>1, <2>1, NothingMoves
  <2>3. CallFollows' BY <1>1, <2>1 DEF CallFollows, Buddy
  <2>4. ItemFollows' BY <1>1, <2>1, <2>2 DEF ItemFollows, Free, estaReservado, Need
  <2>5. QED BY <2>2, <2>3, <2>4
<1>4. QED BY <1>2, <1>3 DEF IInv

LEMMA ConnStepKeeps == ASSUME IInv, NEW c \in Conn, ConnStep(c) PROVE IInv'
BY StoreKeeps, ReleaseTestKeeps, ReleaseKeeps, FlushKeeps, GetKeeps, DeleteKeeps, AllocateKeeps
   DEF ConnStep

LEMMA CallStepKeeps == ASSUME IInv, CallStep PROVE IInv'
<1>1. CASE EngineStep
  BY <1>1, AllocateFoundKeeps, AllocateTooBigKeeps, FlushNextKeeps, RemovedKeeps DEF EngineStep
<1>2. CASE DynamicStep
  BY <1>2, ClearKeeps, MergeBackKeeps, BackDoneKeeps, MergeForwardKeeps, ForwardDoneKeeps, TooBigKeeps,
     FitKeeps, NoFitKeeps, CompactFromKeeps, ConsolidateKeeps, ShiftKeeps, CompactDoneKeeps
     DEF DynamicStep
<1>3. CASE BuddyStep
  BY <1>3, BuddyClearKeeps, UniteKeeps, UniteDoneKeeps, BuddyTooBigKeeps, BuddyFitsKeeps,
     BuddyNoFitKeeps, HalveKeeps, BuddyFitKeeps
     DEF BuddyStep
<1>4. QED BY <1>1, <1>2, <1>3 DEF CallStep

LEMMA StepKeeps == ASSUME IInv, [Next]_vars PROVE IInv'
<1>1. CASE \E c \in Conn : ConnStep(c) BY <1>1, ConnStepKeeps
<1>2. CASE CallStep BY <1>2, CallStepKeeps
<1>3. CASE Over BY <1>3, StutterKeeps DEF Over
<1>4. CASE UNCHANGED vars BY <1>4, StutterKeeps
<1>5. QED BY <1>1, <1>2, <1>3, <1>4 DEF Next

\* Whatever the schemes that the configuration may name, the sizes and the number of
\* connections: IInv holds in every state of the engine.
THEOREM Invariance == Spec => []IInv
<1>1. Init => IInv BY Starts
<1>2. IInv /\ [Next]_vars => IInv' BY StepKeeps
<1>3. QED BY <1>1, <1>2, PTL DEF Spec

\* Every variable has its type; in particular no chunk, address or size outgrows the memory,
\* in the first state behind a damage as well (cansic_engine.c, diccionario_dinamicas.c,
\* diccionario_buddy.c).
THEOREM TypeCorrect == Spec => []TypeOK
<1>1. IInv => TypeOK BY DEF IInv
<1>2. QED BY <1>1, Invariance, PTL

LEMMA InvConservesNodes == ASSUME IInv PROVE NodesConserved
<1> SUFFICES ASSUME Intact PROVE NodesConserved BY DEF NodesConserved
<1>1. TypeOK /\ TwoLines /\ FreeIsBlank BY DEF IInv, MemoryInv
<1>2. Listed = InUse /\ Spares = Node \ InUse /\ InUse \subseteq Node
  BY <1>1, ListedAreInUse, SparesAreTheRest DEF InUse
<1>3. Cant \in Node \ InUse BY <1>1, CantIsNat DEF TwoLines, Lines
<1>4. ASSUME NEW n \in Node \ InUse PROVE part[n] = Empty(part[n].data, 0)
  <2>1. part[n] = Empty(part[n].data, part[n].chunk) BY <1>1 DEF FreeIsBlank, Blank
  <2>2. part[n].chunk \in Nat BY <1>1, EngineAssumption DEF TypeOK, Part
  <2>3. part[n].chunk = 0 BY <2>2 DEF InUse
  <2>4. QED BY <2>1, <2>3
<1>5. QED BY <1>2, <1>3, <1>4 DEF NodesConserved

LEMMA InvHasTheSum == ASSUME IInv PROVE CurrentIsSum
<1>1. CASE Intact BY <1>1 DEF IInv, MemoryInv
<1>2. CASE ~Intact BY <1>2 DEF CurrentIsSum
<1>3. QED BY <1>1, <1>2

\* Under either scheme every node is in the list or among the spare ones, never in both, a
\* spare one was cleared, and the node past the array, which the last one links, is never used.
THEOREM NodesAreConserved == Spec => []NodesConserved
<1>1. IInv => NodesConserved BY InvConservesNodes
<1>2. QED BY <1>1, Invariance, PTL

\* The size that the engine keeps for its table is that of its items, under either scheme.
THEOREM TableSizeIsRight == Spec => []CurrentIsSum
<1>1. IInv => CurrentIsSum BY InvHasTheSum
<1>2. QED BY <1>1, Invariance, PTL

OnlyDynamic == Esquemas = {"ParticionesDinamicas"}

\* With dynamic partitions, whatever callbacks of any number of connections ran into each
\* other: every byte, every node and the table's size are accounted for.
THEOREM MemoryIsAccountedFor == ASSUME OnlyDynamic PROVE Spec => []MemoryAccountedFor
<1>1. IInv => MemoryAccountedFor
  <2> SUFFICES ASSUME IInv PROVE MemoryAccountedFor OBVIOUS
  <2>1. TypeOK BY DEF IInv
  <2>2. Tiles
    <3> SUFFICES ASSUME Intact PROVE Tiles BY DEF Tiles
    <3>1. TypeOK /\ TwoLines /\ RoomIsShared BY DEF IInv, MemoryInv
    <3>2. ~Buddy BY <3>1 DEF OnlyDynamic, TypeOK, Buddy
    <3>3. Listed = InUse /\ Ends BY <3>1, ListedAreInUse
    <3>4. QED BY <3>1, <3>2, <3>3 DEF Tiles, RoomIsShared, EndOf
  <2>3. QED BY <2>1, <2>2, InvConservesNodes, InvHasTheSum DEF MemoryAccountedFor
<1>2. QED BY <1>1, Invariance, PTL

-----------------------------------------------------------------------------
(* One connection: keys are apart, and what is reserved is held *)

LEMMA FoundIfThere ==
  ASSUME TwoLines, NEW n \in InUse, part[n].key \in Key
  PROVE  obtener(part[n].key) \in InUse /\ part[obtener(part[n].key)].key = part[n].key
<1> DEFINE k == part[n].key
<1>1. n \in With(k) BY ListedAreInUse DEF With
<1>2. With(k) \subseteq Listed BY DEF With
<1>3. First(With(k)) \in With(k) BY <1>1, <1>2, FirstIsOne
<1>4. QED BY <1>1, <1>3, ListedAreInUse DEF obtener, With

\* the key of an item is one of the clients', and the item is in the list
LEMMA NamedAreInUse ==
  ASSUME TypeOK, FreeIsBlank, NEW n \in Node, part[n].key # NoKey
  PROVE  n \in InUse /\ part[n].key \in Key
<1>1. ~Blank(n) BY DEF Blank, Empty
<1>2. n \in InUse BY <1>1 DEF FreeIsBlank
<1>3. part[n].key \in Key BY DEF FreeIsBlank, TypeOK, Part
<1>4. QED BY <1>2, <1>3

\* while the only connection is in a callback, nothing is reserved but what a release removes
LEMMA Alone ==
  ASSUME OneConnection, TypeOK, CallFollows, ReservedIsHeld, pc # "idle"
  PROVE  /\ \A c \in Conn : c = owner /\ stage[c] = "calling"
         /\ \A n \in Node : estaReservado(n) => call = "release" /\ pc = "remove" /\ it = n
<1>1. owner \in Conn BY DEF TypeOK, CallFollows
<1>2. \A c \in Conn : c = owner /\ stage[c] = "calling" BY <1>1 DEF OneConnection, CallFollows
<1>3. QED BY <1>2 DEF ReservedIsHeld

\* ... and while it is not, what it holds
LEMMA Outside ==
  ASSUME OneConnection, TypeOK, CallFollows, ReservedIsHeld, NEW c \in Conn, stage[c] # "calling"
  PROVE  /\ pc = "idle" /\ owner = NoConn /\ \A d \in Conn : d = c
         /\ \A n \in Node : estaReservado(n) => stage[c] \in {"held", "releasing"} /\ item[c] = n
<1>1. \A d \in Conn : d = c BY DEF OneConnection
<1>2. owner = NoConn
  <2>1. owner # c BY DEF CallFollows
  <2>2. QED BY <2>1, <1>1 DEF TypeOK
<1>3. pc = "idle" BY <1>2 DEF CallFollows
<1>4. QED BY <1>1, <1>2, <1>3 DEF ReservedIsHeld

LEMMA StartsApart == ASSUME Init PROVE SingleInv
<1> SUFFICES ASSUME Intact PROVE KeysApart /\ WantedIsNew /\ ReservedIsHeld /\ HandsFollow
  BY DEF SingleInv
<1>1. IInv /\ CurrentIsSum /\ FreeIsBlank BY Starts DEF IInv, MemoryInv
<1>2. /\ stage = [c \in Conn |-> "idle"] /\ call = "none" BY DEF Init
<1>3. PICK k \in {NoKey, Garbage} :
        /\ part = [n \in Node |->
             IF n = 0 THEN [Empty(0, table_max_size) EXCEPT !.key = k] ELSE Empty(0, 0)]
        /\ damage = IF k = NoKey THEN {} ELSE {"first key not empty"}
  BY DEF Init
<1>4. k = NoKey BY <1>3 DEF Intact
<1>5. \A n \in Node : part[n].key = NoKey BY <1>3, <1>4 DEF Empty
<1>6. NoKey \notin Key BY EngineAssumption
<1>7. QED BY <1>2, <1>5, <1>6 DEF KeysApart, Has, WantedIsNew, ReservedIsHeld, estaReservado, HandsFollow

\* the callback goes on and no item gets or loses its key
LEMMA GoesOn ==
  ASSUME OneConnection, IInv, SingleInv, Intact, pc \notin {"idle", "remove", "remove buddy"},
         UNCHANGED <<call, want, stage, item>>,
         \A n \in Node : part'[n].key = part[n].key /\ part'[n].ocupado = part[n].ocupado
  PROVE  SingleInv'
<1>1. TypeOK /\ CallFollows /\ KeysApart /\ WantedIsNew /\ ReservedIsHeld BY DEF IInv, SingleInv
<1>2. /\ \A c \in Conn : stage[c] = "calling"
      /\ \A n \in Node : ~estaReservado(n)
  BY <1>1, Alone
<1>3. KeysApart' BY <1>1 DEF KeysApart, Has
<1>4. WantedIsNew' BY <1>1 DEF WantedIsNew, Has
<1>5. ReservedIsHeld' BY <1>2 DEF ReservedIsHeld, estaReservado
<1>6. HandsFollow' BY <1>2 DEF HandsFollow
<1>7. QED BY <1>3, <1>4, <1>5, <1>6 DEF SingleInv

\* ... or ends, with nothing in the connection's hands
LEMMA GoesHome ==
  ASSUME OneConnection, IInv, SingleInv, Intact, pc \notin {"idle", "remove", "remove buddy"},
         Leave("idle", NULL), UNCHANGED part
  PROVE  SingleInv'
<1>1. TypeOK /\ CallFollows /\ KeysApart /\ WantedIsNew /\ ReservedIsHeld BY DEF IInv, SingleInv
<1>2. /\ \A c \in Conn : c = owner
      /\ \A n \in Node : ~estaReservado(n)
  BY <1>1, Alone
<1>3. KeysApart' BY <1>1 DEF KeysApart, Has
<1>4. WantedIsNew' BY DEF WantedIsNew, Leave
<1>5. ReservedIsHeld' BY <1>2 DEF ReservedIsHeld, estaReservado
<1>6. HandsFollow' BY <1>1, <1>2 DEF HandsFollow, Leave, TypeOK
<1>7. QED BY <1>3, <1>4, <1>5, <1>6 DEF SingleInv

\* a callback takes the lock
LEMMA EnteredApart ==
  ASSUME OneConnection, IInv, SingleInv, Intact, NEW c \in Conn, stage[c] \in {"idle", "releasing"},
         NEW f, NEW l, NEW n, NEW w,
         Enter(c, f, l, n, w), UNCHANGED <<memVars, item, crashed, damage>>,
         stage[c] = "releasing" => f = "release" /\ l = "remove" /\ n = item[c],
         f = "allocate" => \A m \in Node : Has(m, w.key) => l \in {"remove", "remove buddy"} /\ n = m
  PROVE  SingleInv'
<1>1. TypeOK /\ CallFollows /\ KeysApart /\ ReservedIsHeld BY DEF IInv, SingleInv
<1>2. /\ \A d \in Conn : d = c
      /\ \A m \in Node : estaReservado(m) => stage[c] = "releasing" /\ item[c] = m
  BY <1>1, Outside
<1>3. /\ part' = part /\ pc' = l /\ call' = f /\ it' = n /\ want' = w /\ stage'[c] = "calling"
  BY <1>1 DEF Enter, memVars, TypeOK
<1>4. KeysApart' BY <1>1, <1>3 DEF KeysApart, Has
<1>5. WantedIsNew' BY <1>3 DEF WantedIsNew, Has
<1>6. ReservedIsHeld' BY <1>2, <1>3 DEF ReservedIsHeld, estaReservado
<1>7. HandsFollow' BY <1>2, <1>3 DEF HandsFollow
<1>8. QED BY <1>4, <1>5, <1>6, <1>7 DEF SingleInv

\* an item with the key that is stored is removed before
LEMMA AllocateApart ==
  ASSUME OneConnection, IInv, SingleInv, NEW c \in Conn, NEW k \in Key, NEW n \in Sizes[scheme],
         Allocate(c, k, n)
  PROVE  SingleInv'
<1> DEFINE x == obtener(k)
<1>1. /\ Intact /\ stage[c] = "idle" /\ TypeOK /\ TwoLines /\ FreeIsBlank /\ KeysApart
      /\ CallFollows /\ ReservedIsHeld /\ UNCHANGED <<memVars, item, crashed, damage>>
      /\ IF x # NULL /\ part[x].ocupado
           THEN Enter(c, "allocate", Eliminar, x, [key |-> k, size |-> n])
           ELSE Enter(c, "allocate", ObtenerDireccion, NULL, [key |-> k, size |-> n])
  BY DEF Allocate, Ready, IInv, MemoryInv, SingleInv
<1>2. NoKey \notin Key BY EngineAssumption
<1>3. ASSUME NEW m \in Node, Has(m, k) PROVE x = m /\ x # NULL /\ part[x].ocupado
  <2>1. m \in InUse BY <1>1, <1>2, <1>3, NamedAreInUse DEF Has
  <2>2. x \in InUse /\ part[x].key = k BY <2>1, <1>1, <1>3, FoundIfThere DEF Has
  <2>3. x = m BY <2>2, <1>1, <1>3 DEF KeysApart, Has, InUse
  <2>4. ~estaReservado(m) BY <1>1, Outside
  <2>5. QED BY <2>3, <2>4, <1>2, <1>3, CantIsNat DEF Has, estaReservado
<1> HIDE DEF x
<1>4. CASE x # NULL /\ part[x].ocupado
  <2>1. Enter(c, "allocate", Eliminar, x, [key |-> k, size |-> n]) BY <1>1, <1>4
  <2>2. Eliminar \in {"remove", "remove buddy"} BY DEF Eliminar
  <2> DEFINE w == [key |-> k, size |-> n]
             l == Eliminar
  <2>3. \A m \in Node : Has(m, w.key) => l \in {"remove", "remove buddy"} /\ x = m
    BY <2>2, <1>3
  <2>4. Enter(c, "allocate", l, x, w) BY <2>1
  <2> HIDE DEF w, l
  <2>5. Intact /\ stage[c] \in {"idle", "releasing"} /\ stage[c] # "releasing" BY <1>1
  <2>6. UNCHANGED <<memVars, item, crashed, damage>> BY <1>1
  <2>7. QED BY <2>3, <2>4, <2>5, <2>6, EnteredApart
<1>5. CASE ~(x # NULL /\ part[x].ocupado)
  <2>1. Enter(c, "allocate", ObtenerDireccion, NULL, [key |-> k, size |-> n]) BY <1>1, <1>5
  <2>2. QED BY <2>1, <1>1, <1>3, <1>5, EnteredApart
<1>6. QED BY <1>4, <1>5

LEMMA OtherCallsApart ==
  ASSUME OneConnection, IInv, SingleInv, NEW c \in Conn,
         Release(c) \/ Flush(c) \/ \E k \in Key : Delete(c, k)
  PROVE  SingleInv'
<1>1. CASE Release(c) BY <1>1, EnteredApart DEF Release, Ready
<1>2. CASE Flush(c) BY <1>2, EnteredApart DEF Flush, Ready
<1>3. CASE \E k \in Key : Delete(c, k) BY <1>3, EnteredApart DEF Delete, Ready
<1>4. QED BY <1>1, <1>2, <1>3

\* the item that is stored is the one the connection holds
LEMMA StoreApart == ASSUME OneConnection, IInv, SingleInv, NEW c \in Conn, Store(c) PROVE SingleInv'
<1> DEFINE i == item[c]
<1>1. /\ Intact /\ stage[c] = "held" /\ TypeOK /\ TwoLines /\ FreeIsBlank /\ KeysApart /\ WantedIsNew
      /\ CallFollows /\ ReservedIsHeld /\ HandsFollow /\ stage' = [stage EXCEPT ![c] = "stored"]
      /\ UNCHANGED <<pc, call, it, want, item>>
  BY DEF Store, Ready, IInv, MemoryInv, SingleInv, callVars
<1>2. i \in InUse /\ i \in Node /\ part[i].key # NoKey BY <1>1 DEF HandsFollow, InUse, estaReservado
<1>3. part[i].key \in Key BY <1>1, <1>2, NamedAreInUse
<1>4. obtener(part[i].key) = i /\ i # NULL
  BY <1>1, <1>2, <1>3, FoundIfThere, CantIsNat DEF KeysApart, Has, InUse
<1>5. part' = [part EXCEPT ![i].ocupado = TRUE, ![i].dated = TRUE] BY <1>4 DEF Store
<1> HIDE DEF i
<1>6. \A n \in Node : /\ part'[n].key = part[n].key
                      /\ n # i => part'[n].ocupado = part[n].ocupado
                      /\ n = i => part'[n].ocupado
  BY <1>1, <1>2, <1>5 DEF TypeOK, Part
<1>7. (\A d \in Conn : d = c) /\ \A n \in Node : estaReservado(n) => i = n BY <1>1, Outside DEF i
<1>8. KeysApart' /\ WantedIsNew' BY <1>1, <1>6 DEF KeysApart, WantedIsNew, Has
<1>9. ReservedIsHeld' BY <1>6, <1>7 DEF ReservedIsHeld, estaReservado
<1>10. HandsFollow' BY <1>1, <1>2, <1>6, <1>7 DEF HandsFollow, TypeOK, i
<1>11. QED BY <1>8, <1>9, <1>10 DEF SingleInv

LEMMA ReleaseTestApart ==
  ASSUME OneConnection, IInv, SingleInv, NEW c \in Conn, ReleaseTest(c) PROVE SingleInv'
<1>1. /\ Intact /\ stage[c] \in {"held", "stored", "reading"} /\ TypeOK /\ KeysApart /\ WantedIsNew
      /\ CallFollows /\ ItemFollows /\ ReservedIsHeld /\ HandsFollow
      /\ UNCHANGED <<part, pc, call, it, want>> /\ item[c] \in Node
  BY DEF ReleaseTest, Ready, IInv, MemoryInv, SingleInv, callVars, memVars, ItemFollows
<1>2. (\A d \in Conn : d = c) /\ \A n \in Node : estaReservado(n) => stage[c] = "held" /\ item[c] = n
  BY <1>1, Outside
<1>3. KeysApart' /\ WantedIsNew' BY <1>1 DEF KeysApart, WantedIsNew, Has
<1>4. CASE part[item[c]].ocupado
  <2>1. stage'[c] = "idle" BY <1>1, <1>4 DEF ReleaseTest, TypeOK
  <2>2. \A n \in Node : ~estaReservado(n) BY <1>2, <1>4 DEF estaReservado
  <2>3. ReservedIsHeld' BY <2>2, <1>1 DEF ReservedIsHeld, estaReservado
  <2>4. HandsFollow' BY <2>1, <1>2 DEF HandsFollow
  <2>5. QED BY <2>3, <2>4, <1>3 DEF SingleInv
<1>5. CASE ~part[item[c]].ocupado
  <2>1. stage'[c] = "releasing" /\ item' = item BY <1>1, <1>5 DEF ReleaseTest, TypeOK
  <2>2. stage[c] = "held" BY <1>1, <1>5 DEF HandsFollow
  <2>3. ReservedIsHeld' BY <2>1, <1>1, <1>2 DEF ReservedIsHeld, estaReservado
  <2>4. HandsFollow'
    BY <2>1, <2>2, <1>1, <1>2 DEF HandsFollow, estaReservado, InUse
  <2>5. QED BY <2>3, <2>4, <1>3 DEF SingleInv
<1>6. QED BY <1>4, <1>5

LEMMA GetApart ==
  ASSUME OneConnection, IInv, SingleInv, NEW c \in Conn, NEW k \in Key, Get(c, k) PROVE SingleInv'
<1> DEFINE x == obtener(k)
<1>1. /\ Intact /\ stage[c] = "idle" /\ TypeOK /\ KeysApart /\ WantedIsNew /\ TwoLines
      /\ CallFollows /\ ReservedIsHeld /\ HandsFollow /\ UNCHANGED <<pc, call, it, want>>
      /\ x # NULL /\ part[x].ocupado
      /\ part' = IF lru THEN [part EXCEPT ![x].dated = TRUE] ELSE part
      /\ stage' = [stage EXCEPT ![c] = "reading"] /\ item' = [item EXCEPT ![c] = x]
  BY DEF Get, Ready, IInv, MemoryInv, SingleInv, callVars
<1>2. x \in Node BY <1>1, Found DEF InUse
<1> HIDE DEF x
<1>3. \A n \in Node : part'[n].key = part[n].key /\ part'[n].ocupado = part[n].ocupado
  BY <1>1, <1>2 DEF TypeOK, Part
<1>4. (\A d \in Conn : d = c) /\ \A n \in Node : ~estaReservado(n) BY <1>1, Outside
<1>5. KeysApart' /\ WantedIsNew'
  <2>1. KeysApart /\ WantedIsNew /\ UNCHANGED <<pc, call, it, want>> BY <1>1
  <2>2. \A j : \A n \in Node : Has(n, j)' <=> Has(n, j) BY <1>3 DEF Has
  <2>3. KeysApart' BY <2>1, <2>2 DEF KeysApart
  <2>4. WantedIsNew' BY <2>1, <2>2 DEF WantedIsNew
  <2>5. QED BY <2>3, <2>4
<1>6. ReservedIsHeld' BY <1>3, <1>4 DEF ReservedIsHeld, estaReservado
<1>7. HandsFollow' BY <1>1, <1>2, <1>3, <1>4 DEF HandsFollow, TypeOK
<1>8. QED BY <1>5, <1>6, <1>7 DEF SingleInv

\* what the client asked for is now held under its key
LEMMA AllocateFoundApart == ASSUME OneConnection, IInv, SingleInv, AllocateFound PROVE SingleInv'
<1>1. /\ Intact /\ pc = "found" /\ TypeOK /\ KeysApart /\ WantedIsNew /\ ReservedIsHeld
      /\ CallFollows /\ ItemFollows /\ call = "allocate" /\ want.key \in Key /\ scheme \in Esquemas
      /\ want.size \in Sizes[scheme] /\ it \in InUse /\ it \in Node /\ Free(it)
      /\ part[it].chunk >= Need /\ part[it].size = want.size /\ owner \in Conn
  BY DEF AllocateFound, Running, IInv, SingleInv, CallFollows, ItemFollows, InUse, TypeOK
<1>2. /\ part' = [part EXCEPT ![it].key = want.key] /\ Leave("held", it)
      /\ part \in [Node -> Part]
  BY <1>1 DEF AllocateFound, TypeOK
<1>3. \A n \in Node : /\ n # it => part'[n] = part[n]
                      /\ n = it => /\ part'[n].key = want.key /\ part'[n].ocupado = part[n].ocupado
                                   /\ part'[n].size = part[n].size /\ part'[n].chunk = part[n].chunk
  BY <1>1, <1>2 DEF Part
<1>4. /\ \A c \in Conn : c = owner
      /\ \A n \in Node : ~estaReservado(n) /\ ~Has(n, want.key)
  BY <1>1, Alone DEF WantedIsNew
<1>5. KeysApart' BY <1>1, <1>3, <1>4 DEF KeysApart, Has
<1>6. WantedIsNew' BY <1>2 DEF WantedIsNew, Leave
<1>7. stage'[owner] = "held" /\ item'[owner] = it BY <1>1, <1>2 DEF Leave, TypeOK
<1>8. ReservedIsHeld' BY <1>1, <1>3, <1>4, <1>7 DEF ReservedIsHeld, estaReservado
<1>9. it \in InUse'
  <2>1. part[it].chunk > 0 BY <1>1 DEF InUse
  <2>2. QED BY <2>1, <1>1, <1>3 DEF InUse
<1>10. part'[it].size \in 1..part'[it].chunk
  <2>1. want.size \in Nat \ {0} BY <1>1, EngineAssumption
  <2>2. Need \in Nat /\ want.size <= Need BY <2>1, NeedIsNat
  <2>3. part[it].chunk \in Nat BY <1>1, <1>2, EngineAssumption DEF Part
  <2>4. want.size \in 1..part[it].chunk BY <2>1, <2>2, <2>3, <1>1
  <2>5. QED BY <2>4, <1>1, <1>3
<1>11. HandsFollow'
  <2>1. ASSUME NEW c \in Conn PROVE stage'[c] = "held" /\ item'[c] = it BY <1>4, <1>7
  <2>2. \A c \in Conn : item'[c] \in InUse' BY <2>1, <1>9
  <2>3. \A c \in Conn : ~part'[item'[c]].ocupado /\ part'[item'[c]].key # NoKey
    BY <2>1, <1>1, <1>3, EngineAssumption DEF Free
  <2>4. \A c \in Conn : part'[item'[c]].size \in 1..part'[item'[c]].chunk BY <2>1, <1>10
  <2>5. QED BY <2>1, <2>2, <2>3, <2>4 DEF HandsFollow, estaReservado
<1>12. QED BY <1>5, <1>6, <1>8, <1>11 DEF SingleInv

\* the item is gone
LEMMA ClearApart ==
  ASSUME OneConnection, IInv, SingleInv, Clear \/ BuddyClear PROVE SingleInv'
<1>1. /\ Intact /\ pc \in {"remove", "remove buddy"} /\ TypeOK /\ KeysApart /\ WantedIsNew
      /\ ReservedIsHeld /\ CallFollows /\ it \in Node /\ part \in [Node -> Part]
      /\ part' = [part EXCEPT ![it] = Empty(@.data, @.chunk)]
      /\ UNCHANGED <<call, it, want, stage, item>>
  BY DEF Clear, BuddyClear, Running, IInv, SingleInv, ItemFollows, TypeOK, InUse, connVars
<1>2. \A n \in Node : /\ n # it => part'[n] = part[n]
                      /\ n = it => part'[n].key = NoKey
  BY <1>1 DEF Empty
<1>3. NoKey \notin Key BY EngineAssumption
<1>4. /\ \A c \in Conn : stage[c] = "calling"
      /\ \A n \in Node : estaReservado(n) => it = n
  BY <1>1, Alone
<1>5. KeysApart' BY <1>1, <1>2, <1>3 DEF KeysApart, Has
<1>6. call = "allocate" => want.key \in Key BY <1>1 DEF CallFollows
<1>7. WantedIsNew'
  <2>1. ASSUME call = "allocate", NEW n \in Node PROVE part'[n].key # want.key
    <3>1. CASE n = it BY <3>1, <2>1, <1>2, <1>3, <1>6
    <3>2. CASE n # it BY <3>2, <2>1, <1>1, <1>2 DEF WantedIsNew, Has
    <3>3. QED BY <3>1, <3>2
  <2>2. QED BY <2>1, <1>1 DEF WantedIsNew, Has
<1>8. ReservedIsHeld' BY <1>2, <1>4 DEF ReservedIsHeld, estaReservado
<1>9. HandsFollow' BY <1>1, <1>4 DEF HandsFollow
<1>10. QED BY <1>5, <1>7, <1>8, <1>9 DEF SingleInv

\* an item moves with its key
LEMMA ShiftApart == ASSUME OneConnection, IInv, SingleInv, Shift PROVE SingleInv'
<1> DEFINE p == next[it]
<1>1. /\ Intact /\ pc = "shift" /\ TypeOK /\ KeysApart /\ WantedIsNew /\ TwoLines
      /\ ReservedIsHeld /\ CallFollows /\ it \in InUse /\ it \in Node /\ part \in [Node -> Part]
      /\ p # NULL
      /\ part' = [part EXCEPT ![it] = Moved(p),
                              ![p]  = Empty(part[it].data + part[p].chunk, part[it].chunk)]
      /\ UNCHANGED <<pc, call, want, stage, item>>
  BY DEF Shift, Running, IInv, MemoryInv, SingleInv, ItemFollows, TypeOK, InUse, connVars
<1>2. p \in Node /\ p # it BY <1>1, NextInUse DEF InUse
<1> HIDE DEF p
<1>3. \A n \in Node : /\ n \notin {it, p} => part'[n] = part[n]
                      /\ n = it => part'[n].key = part[p].key /\ part'[n].ocupado
                      /\ n = p => part'[n].key = NoKey
  <2>1. part'[it] = Moved(p) /\ part'[p] = Empty(part[it].data + part[p].chunk, part[it].chunk)
    BY <1>1, <1>2
  <2>2. part[p] \in Part BY <1>1, <1>2
  <2>3. part'[it].key = part[p].key /\ part'[it].ocupado BY <2>1, <2>2 DEF Moved, Part
  <2>4. part'[p].key = NoKey BY <2>1 DEF Empty
  <2>5. QED BY <2>3, <2>4, <1>1, <1>2
<1>4. NoKey \notin Key BY EngineAssumption
<1>5. /\ \A c \in Conn : stage[c] = "calling"
      /\ \A n \in Node : ~estaReservado(n)
  BY <1>1, Alone
<1>6. call = "allocate" /\ want.key \in Key BY <1>1 DEF CallFollows
<1>7. KeysApart'
  <2>1. ASSUME NEW k \in Key, NEW n \in Node, part'[n].key = k
        PROVE  IF n = it THEN part[p].key = k ELSE n # p /\ part[n].key = k
    BY <2>1, <1>2, <1>3, <1>4
  <2>2. QED BY <2>1, <1>1, <1>2 DEF KeysApart, Has
<1>8. WantedIsNew'
  <2>1. \A n \in Node : part[n].key # want.key BY <1>1, <1>6 DEF WantedIsNew, Has
  <2>2. \A n \in Node : part'[n].key # want.key BY <2>1, <1>2, <1>3, <1>4, <1>6
  <2>3. QED BY <2>2, <1>1 DEF WantedIsNew, Has
<1>9. ReservedIsHeld'
  <2>1. ASSUME NEW n \in Node PROVE ~(~part'[n].ocupado /\ part'[n].key # NoKey)
    BY <1>3, <1>5 DEF estaReservado
  <2>2. QED BY <2>1 DEF ReservedIsHeld, estaReservado
<1>10. HandsFollow' BY <1>1, <1>5 DEF HandsFollow
<1>11. QED BY <1>7, <1>8, <1>9, <1>10 DEF SingleInv

\* memory moves from one partition to another, keys do not
LEMMA MergeApart ==
  ASSUME OneConnection, IInv, SingleInv, MergeBack \/ MergeForward \/ Consolidate PROVE SingleInv'
<1>1. /\ Intact /\ TypeOK /\ TwoLines /\ RoomIsShared /\ pc \in {"back", "forward", "shift"} /\ it \in Node
      /\ UNCHANGED <<call, want, stage, item>>
  BY DEF MergeBack, MergeForward, Consolidate, Running, IInv, MemoryInv, ItemFollows, InUse, connVars, callVars
<1>2. PICK a \in Node, p \in Node : part' = Absorb(a, p)
  <2>1. CASE MergeBack
    <3>1. prev[it] \in Node BY <2>1, <1>1 DEF MergeBack, Merges, TypeOK
    <3>2. QED BY <2>1, <3>1, <1>1 DEF MergeBack
  <2>2. CASE MergeForward
    <3>1. next[it] \in Node BY <2>2, <1>1 DEF MergeForward, Merges, TypeOK
    <3>2. QED BY <2>2, <3>1, <1>1 DEF MergeForward
  <2>3. CASE Consolidate
    <3>1. next[it] \in Node BY <2>3, <1>1 DEF Consolidate, TypeOK
    <3>2. QED BY <2>3, <3>1, <1>1 DEF Consolidate
  <2>4. QED BY <2>1, <2>2, <2>3
<1>3. \A n \in Node : part'[n].key = part[n].key /\ part'[n].ocupado = part[n].ocupado
  BY <1>1, <1>2, Absorbed
<1>4. QED BY <1>1, <1>3, GoesOn

\* steps that only move on, or give the item its size
LEMMA MoveOnApart ==
  ASSUME OneConnection, IInv, SingleInv,
         \/ BackDone \/ ForwardDone \/ TooBig \/ NoFit \/ CompactFrom \/ CompactDone
         \/ UniteDone \/ BuddyTooBig \/ BuddyFits \/ BuddyNoFit \/ BuddyFit
  PROVE  SingleInv'
<1>1. /\ Intact /\ TypeOK /\ pc \notin {"idle", "remove", "remove buddy"}
      /\ UNCHANGED <<call, want, stage, item>>
  BY DEF IInv, Running, BackDone, ForwardDone, TooBig, NoFit, CompactFrom, CompactDone, UniteDone,
         BuddyTooBig, BuddyFits, BuddyNoFit, BuddyFit, connVars
<1>2. part' = part \/ (it \in Node /\ part' = [part EXCEPT ![it].size = want.size])
  BY DEF IInv, Running, ItemFollows, InUse, BackDone, ForwardDone, TooBig, NoFit, CompactFrom, CompactDone,
         UniteDone, BuddyTooBig, BuddyFits, BuddyNoFit, BuddyFit, memVars
<1>3. \A n \in Node : part'[n].key = part[n].key /\ part'[n].ocupado = part[n].ocupado
  <2>1. part \in [Node -> Part] BY <1>1 DEF TypeOK
  <2>2. QED BY <1>2, <2>1 DEF Part
<1>4. QED BY <1>1, <1>3, GoesOn

LEMMA FitApart == ASSUME OneConnection, IInv, SingleInv, Fit PROVE SingleInv'
<1> DEFINE m == Chosen
           taken == [part EXCEPT ![m].size = want.size]
<1>1. /\ Intact /\ TypeOK /\ TwoLines /\ pc = "find" /\ UNCHANGED <<call, want, stage, item>>
      /\ Fitting # {} /\ part \in [Node -> Part]
  BY DEF Fit, Running, IInv, MemoryInv, connVars, TypeOK
<1>2. m \in Node BY <1>1, ChosenFits, ListedAreInUse DEF Fitting, InUse
<1>3. IF Splits(m)
        THEN part' = [taken EXCEPT ![m].chunk = Need,
                        ![nodes].chunk = @ + Rest(m), ![nodes].data = part[m].data + Need]
        ELSE part' = taken
  BY DEF Fit
<1>4. Splits(m) => nodes \in Node BY <1>1 DEF Splits, TypeOK
<1> HIDE DEF m
<1>5. \A n \in Node : taken[n].key = part[n].key /\ taken[n].ocupado = part[n].ocupado
  BY <1>1, <1>2 DEF Part
<1>6. taken \in [Node -> Part] \/ DOMAIN taken = Node BY <1>1
<1>7. \A n \in Node : part'[n].key = part[n].key /\ part'[n].ocupado = part[n].ocupado
  BY <1>1, <1>2, <1>3, <1>4, <1>5 DEF Part
<1>8. QED BY <1>1, <1>7, GoesOn

LEMMA HalveApart == ASSUME OneConnection, IInv, SingleInv, Halve PROVE SingleInv'
<1> DEFINE half == part[it].chunk \div 2
<1>1. /\ Intact /\ TypeOK /\ pc = "halve" /\ UNCHANGED <<call, want, stage, item>>
      /\ it \in Node /\ nodes \in Node /\ part \in [Node -> Part]
      /\ part' = [part EXCEPT ![it].chunk = half,
                              ![nodes].chunk = half, ![nodes].data = part[it].data + half]
  BY DEF Halve, Halves, Running, IInv, ItemFollows, InUse, connVars, callVars, TypeOK
<1> HIDE DEF half
<1>2. \A n \in Node : part'[n].key = part[n].key /\ part'[n].ocupado = part[n].ocupado BY <1>1 DEF Part
<1>3. QED BY <1>1, <1>2, GoesOn

LEMMA UniteApart == ASSUME OneConnection, IInv, SingleInv, Unite PROVE SingleInv'
<1> DEFINE h == Hno(it)
           e == esElPrimerHermano(it)
<1>1. /\ Intact /\ TypeOK /\ pc = "unite" /\ UNCHANGED <<call, want, stage, item>>
      /\ it \in Node /\ h # NULL /\ part \in [Node -> Part]
      /\ part' = [part EXCEPT ![it].chunk = @ * 2, ![h].chunk = 0, ![h].data = 0,
                              ![it].data = IF e THEN @ ELSE part[h].data]
  BY DEF Unite, Unites, Running, IInv, ItemFollows, InUse, connVars, callVars, TypeOK
<1>2. h \in Node BY <1>1 DEF Hno, TypeOK
<1> HIDE DEF h, e
<1>3. \A n \in Node : part'[n].key = part[n].key /\ part'[n].ocupado = part[n].ocupado BY <1>1, <1>2 DEF Part
<1>4. QED BY <1>1, <1>3, GoesOn

LEMMA EngineApart == ASSUME OneConnection, IInv, SingleInv, EngineStep PROVE SingleInv'
<1>1. CASE AllocateFound BY <1>1, AllocateFoundApart
<1>2. CASE AllocateTooBig
  <2>1. Intact /\ pc = "toobig" /\ Leave("idle", NULL) /\ UNCHANGED part
    BY <1>2 DEF AllocateTooBig, Running, memVars
  <2>2. QED BY <2>1, GoesHome
<1>3. CASE FlushNext
  <2>1. Intact /\ pc = "flush" /\ UNCHANGED part BY <1>3 DEF FlushNext, Running, memVars
  <2>2. Leave("idle", NULL) \/ UNCHANGED <<call, want, stage, item>> BY <1>3 DEF FlushNext, connVars
  <2>3. QED BY <2>1, <2>2, GoesHome, GoesOn
<1>4. CASE Removed
  <2>1. Intact /\ pc = "removed" /\ UNCHANGED part BY <1>4 DEF Removed, Running, memVars
  <2>2. Leave("idle", NULL) \/ UNCHANGED <<call, want, stage, item>> BY <1>4 DEF Removed, connVars
  <2>3. QED BY <2>1, <2>2, GoesHome, GoesOn
<1>5. QED BY <1>1, <1>2, <1>3, <1>4 DEF EngineStep

LEMMA StutterApart == ASSUME SingleInv, UNCHANGED vars PROVE SingleInv'
<1>1. UNCHANGED <<part, pc, call, it, want, stage, item, damage>>
  BY DEF vars, memVars, callVars, connVars
<1>2. InUse' = InUse BY <1>1 DEF InUse
<1>3. QED BY <1>1, <1>2
      DEF SingleInv, Intact, KeysApart, Has, WantedIsNew, ReservedIsHeld, estaReservado, HandsFollow

LEMMA StepApart == ASSUME OneConnection, IInv, SingleInv, [Next]_vars PROVE SingleInv'
<1>1. ASSUME NEW c \in Conn, ConnStep(c) PROVE SingleInv'
  BY <1>1, StoreApart, ReleaseTestApart, OtherCallsApart, GetApart, AllocateApart DEF ConnStep
<1>2. CASE DynamicStep
  BY <1>2, ClearApart, MergeApart, MoveOnApart, FitApart, ShiftApart DEF DynamicStep
<1>3. CASE BuddyStep BY <1>3, ClearApart, UniteApart, MoveOnApart, HalveApart DEF BuddyStep
<1>4. CASE EngineStep BY <1>4, EngineApart
<1>5. CASE UNCHANGED vars BY <1>5, StutterApart
<1>6. QED BY <1>1, <1>2, <1>3, <1>4, <1>5 DEF Next, CallStep, Over

\* With one connection, the invariant behind the two properties below.
THEOREM SingleInvariance == ASSUME OneConnection PROVE Spec => [](IInv /\ SingleInv)
<1>1. Init => IInv /\ SingleInv BY Starts, StartsApart
<1>2. IInv /\ SingleInv /\ [Next]_vars => IInv' /\ SingleInv' BY StepKeeps, StepApart
<1>3. QED BY <1>1, <1>2, PTL DEF Spec

\* One connection at a time, under either scheme, a key has one item, whatever sets, deletes,
\* flushes, evictions and compactions came before (allocate, item_delete, flush).
THEOREM KeysAreUnique == ASSUME OneConnection PROVE Spec => []UniqueKeys
<1>1. IInv /\ SingleInv => UniqueKeys
  <2> SUFFICES ASSUME IInv, SingleInv, Intact, NEW k \in Key PROVE Cardinality(With(k)) <= 1
    BY DEF UniqueKeys
  <2>1. TwoLines /\ KeysApart BY DEF IInv, MemoryInv, SingleInv
  <2>2. \A m, n \in With(k) : m = n BY <2>1, ListedAreInUse DEF With, KeysApart, Has, InUse
  <2>3. With(k) = {} \/ \E n : With(k) = {n} BY <2>2
  <2>4. With(k) = {} => Cardinality(With(k)) = 0 BY FS_EmptySet
  <2>5. \A n : With(k) = {n} => Cardinality(With(k)) = 1 BY FS_Singleton, Zenon
  <2>6. CASE With(k) = {} BY <2>6, <2>4
  <2>7. CASE \E n : With(k) = {n} BY <2>7, <2>5
  <2>8. QED BY <2>3, <2>6, <2>7
<1>2. QED BY <1>1, SingleInvariance, PTL

\* One connection at a time, the item it sends the body of is in the list, reserved for its key,
\* and its partition is as large as the item (allocate, store).
THEOREM HeldAreReserved == ASSUME OneConnection PROVE Spec => []HeldIsReserved
<1>1. IInv /\ SingleInv => HeldIsReserved
  <2> SUFFICES ASSUME IInv, SingleInv, Intact, NEW c \in Conn, stage[c] = "held"
               PROVE  /\ item[c] \in Listed /\ estaReservado(item[c])
                      /\ part[item[c]].size \in 1..part[item[c]].chunk
    BY DEF HeldIsReserved
  <2>1. TwoLines /\ HandsFollow BY DEF IInv, MemoryInv, SingleInv
  <2>2. QED BY <2>1, ListedAreInUse DEF HandsFollow
<1>2. QED BY <1>1, SingleInvariance, PTL

LEMMA ListedAreInUseThen == TwoLines' => (Listed = InUse)'
<1>1. TwoLines => Listed = InUse BY ListedAreInUse
<1>2. QED BY <1>1, PTL

\* free memory behind a free partition is merged into it; no item is concerned
LEMMA ConsolidateKeepsItems ==
  ASSUME OneConnection, IInv, SingleInv, Consolidate PROVE Stored' = Stored
<1> DEFINE p == next[it]
<1>1. /\ Intact /\ TypeOK /\ TwoLines /\ RoomIsShared /\ it \in InUse /\ it \in Node /\ Free(it)
      /\ p # NULL /\ Free(p) /\ part' = Absorb(it, p) /\ damage' = damage
      /\ part \in [Node -> Part]
  BY DEF Consolidate, Running, IInv, MemoryInv, ItemFollows, InUse, TypeOK
<1>2. p \in InUse /\ p \in Node /\ p # it BY <1>1, NextInUse DEF InUse
<1>3. Listed = InUse /\ Listed' = InUse'
  <2>1. IInv' BY ConsolidateKeeps
  <2>2. TwoLines' BY <2>1, <1>1 DEF IInv, MemoryInv, Intact
  <2>3. Listed' = InUse' BY <2>2, ListedAreInUseThen
  <2>4. QED BY <2>3, <1>1, ListedAreInUse
<1> HIDE DEF p
<1>4. /\ \A n \in Node : /\ part'[n].key = part[n].key /\ part'[n].size = part[n].size
                         /\ part'[n].ocupado = part[n].ocupado
                         /\ n \notin {it, p} => part'[n] = part[n]
      /\ ~part[it].ocupado /\ ~part[p].ocupado
  BY <1>1, <1>2, Absorbed DEF Free
<1>5. {m \in InUse' : part'[m].ocupado} = {m \in InUse : part[m].ocupado}
  BY <1>1, <1>2, <1>4 DEF InUse
<1> DEFINE S == {m \in InUse : part[m].ocupado}
<1>6. \A n \in S : part'[n].key = part[n].key /\ part'[n].size = part[n].size BY <1>4 DEF InUse
<1>7. Stored = {[key |-> part[n].key, size |-> part[n].size] : n \in S} BY <1>3 DEF Stored
<1>8. Stored' = {[key |-> part'[n].key, size |-> part'[n].size] : n \in S} BY <1>3, <1>5 DEF Stored
<1> HIDE DEF S
<1>9. QED BY <1>6, <1>7, <1>8

\* the item that follows a free partition is stored, and moves there as it is
LEMMA ShiftKeepsItems ==
  ASSUME OneConnection, IInv, SingleInv, Shift PROVE Stored' = Stored
<1> DEFINE p == next[it]
<1>1. /\ Intact /\ pc = "shift" /\ TypeOK /\ TwoLines /\ CallFollows /\ ReservedIsHeld
      /\ it \in InUse /\ it \in Node /\ Free(it)
      /\ p # NULL /\ ~Free(p) /\ damage' = damage /\ part \in [Node -> Part]
      /\ part' = [part EXCEPT ![it] = Moved(p),
                              ![p]  = Empty(part[it].data + part[p].chunk, part[it].chunk)]
  BY DEF Shift, Running, IInv, MemoryInv, SingleInv, ItemFollows, InUse, TypeOK
<1>2. p \in InUse /\ p \in Node /\ p # it BY <1>1, NextInUse DEF InUse
<1>3. Listed = InUse /\ Listed' = InUse'
  <2>1. IInv' BY ShiftKeeps
  <2>2. TwoLines' BY <2>1, <1>1 DEF IInv, MemoryInv, Intact
  <2>3. Listed' = InUse' BY <2>2, ListedAreInUseThen
  <2>4. QED BY <2>3, <1>1, ListedAreInUse
<1> HIDE DEF p
<1>4. ~part[it].ocupado /\ part[p].ocupado
  <2>1. ~estaReservado(p) BY <1>1, <1>2, Alone
  <2>2. QED BY <2>1, <1>1 DEF Free
<1>5. /\ part'[it].key = part[p].key /\ part'[it].size = part[p].size /\ part'[it].ocupado
      /\ part'[it].chunk = part[p].chunk /\ part'[p].chunk = part[it].chunk /\ ~part'[p].ocupado
      /\ \A n \in Node \ {it, p} : part'[n] = part[n]
  <2>1. part'[it] = Moved(p) /\ part'[p] = Empty(part[it].data + part[p].chunk, part[it].chunk)
    BY <1>1, <1>2
  <2>2. part[p] \in Part BY <1>1, <1>2
  <2>3. /\ part'[it].key = part[p].key /\ part'[it].size = part[p].size /\ part'[it].ocupado
        /\ part'[it].chunk = part[p].chunk
    BY <2>1, <2>2 DEF Moved, Part
  <2>4. part'[p].chunk = part[it].chunk /\ ~part'[p].ocupado BY <2>1 DEF Empty
  <2>5. QED BY <2>3, <2>4, <1>1, <1>2
<1>6. InUse' = InUse
  <2>1. \A n \in Node : n \in InUse' <=> n \in InUse BY <1>1, <1>2, <1>5 DEF InUse
  <2>2. QED BY <2>1 DEF InUse
<1> DEFINE old == [n \in Node |-> [key |-> part[n].key, size |-> part[n].size]]
           new == [n \in Node |-> [key |-> part'[n].key, size |-> part'[n].size]]
           S == {m \in InUse : part[m].ocupado}
           T == {m \in InUse : part'[m].ocupado}
<1>7. T = (S \ {p}) \cup {it} /\ p \in S /\ it \notin S /\ S \subseteq Node
  BY <1>1, <1>2, <1>4, <1>5 DEF InUse
<1>8. new[it] = old[p] /\ \A n \in S \ {p} : new[n] = old[n] BY <1>1, <1>2, <1>5, <1>7
<1>9. Stored = {old[n] : n \in S} /\ Stored' = {new[n] : n \in T}
  <2>1. Stored = {[key |-> part[n].key, size |-> part[n].size] : n \in S} BY <1>3 DEF Stored
  <2>2. Stored' = {[key |-> part'[n].key, size |-> part'[n].size] : n \in T} BY <1>3, <1>6 DEF Stored
  <2>3. S \subseteq Node /\ T \subseteq Node BY DEF InUse
  <2>4. \A n \in Node : old[n] = [key |-> part[n].key, size |-> part[n].size] OBVIOUS
  <2>5. \A n \in Node : new[n] = [key |-> part'[n].key, size |-> part'[n].size] OBVIOUS
  <2> HIDE DEF old, new, S, T
  <2>6. QED BY <2>1, <2>2, <2>3, <2>4, <2>5
<1> HIDE DEF old, new, S, T
<1>10. QED BY <1>7, <1>8, <1>9

\* One connection at a time, a compaction keeps every stored item with its key and its size
\* (diccionario_compactarMemoria).
THEOREM CompactionKeeps == ASSUME OneConnection PROVE Spec => CompactionKeepsItems
<1>1. IInv /\ SingleInv /\ [Next]_vars
        => [Intact /\ pc \in {"compact", "shift"} => Stored' = Stored]_vars
  <2> SUFFICES ASSUME IInv, SingleInv, Next, Intact, pc \in {"compact", "shift"} PROVE Stored' = Stored
    OBVIOUS
  <2>1. \A c \in Conn : stage[c] = "calling" BY Alone DEF IInv, SingleInv
  <2>2. ASSUME NEW c \in Conn, ConnStep(c) PROVE FALSE
    BY <2>1, <2>2 DEF ConnStep, Store, ReleaseTest, Release, Flush, Get, Delete, Allocate, Ready
  <2>3. CASE UNCHANGED <<part, elements, next>>
    <3>1. At' = At BY <2>3 DEF At
    <3>2. Listed' = Listed BY <3>1 DEF Listed
    <3>3. QED BY <3>2, <2>3 DEF Stored
  <2>4. CASE CallStep
    <3>1. ~EngineStep BY DEF EngineStep, AllocateFound, AllocateTooBig, FlushNext, Removed, Running
    <3>2. ~BuddyStep
      BY DEF BuddyStep, BuddyClear, Unite, UniteDone, BuddyTooBig, BuddyFits, BuddyNoFit, Halve, BuddyFit,
             Running
    <3>3. CompactFrom \/ Consolidate \/ Shift \/ CompactDone
      BY <2>4, <3>1, <3>2
         DEF CallStep, DynamicStep, Clear, MergeBack, BackDone, MergeForward, ForwardDone, TooBig, Fit, NoFit,
             Running
    <3>4. CASE Consolidate BY <3>4, ConsolidateKeepsItems
    <3>5. CASE Shift BY <3>5, ShiftKeepsItems
    <3>6. CASE CompactFrom BY <3>6, <2>3 DEF CompactFrom, memVars, schemeVars
    <3>7. CASE CompactDone BY <3>7, <2>3 DEF CompactDone, schemeVars
    <3>8. QED BY <3>3, <3>4, <3>5, <3>6, <3>7
  <2>5. CASE Over BY <2>5, <2>3 DEF Over, vars, memVars, schemeVars
  <2>6. QED BY <2>2, <2>4, <2>5 DEF Next
<1>2. QED BY <1>1, SingleInvariance, PTL DEF Spec, CompactionKeepsItems
=============================================================================
