-------------------------- MODULE StateQueueProofs --------------------------
(***************************************************************************)
(* Proofs about the queues of the state service, for every block tree and  *)
(* any number of requests.                                                 *)
(***************************************************************************)
EXTENDS StateQueue, FiniteSetTheorems, TLAPS

-----------------------------------------------------------------------------
(* Sets and sequences.                                                      *)

\* A nonempty set of naturals has a least element.
LEMMA LeastNatural ==
    ASSUME NEW T \in SUBSET Nat, T # {}
    PROVE  \E x \in T : \A y \in T : x <= y
<1>1. PICK x \in T : \A y \in T : ~(<<y, x>> \in OpToRel(<, Nat))
  BY NatLessThanWellFounded, WFMin, Zenon
<1>2. ASSUME NEW y \in T PROVE x <= y
  <2>1. x \in Nat /\ y \in Nat
    BY Zenon
  <2>2. ~(y < x)
    BY <1>1, <2>1, Zenon DEF OpToRel
  <2> QED BY <2>1, <2>2
<1> QED BY <1>2, Zenon

\* Max picks the greatest element of a set of naturals that has a bound.
LEMMA MaxOfBounded ==
    ASSUME NEW S \in SUBSET Nat, S # {}, NEW n \in Nat, \A x \in S : x <= n
    PROVE  Max(S) \in S /\ \A x \in S : x <= Max(S)
<1> DEFINE T == {n - x : x \in S}
<1>1. T \in SUBSET Nat /\ T # {}
  <2>1. \A x \in S : n - x \in Nat
    OBVIOUS
  <2> QED BY <2>1, Zenon
<1>2. PICK t \in T : \A y \in T : t <= y
  BY <1>1, LeastNatural, Zenon
<1>3. PICK m \in S : t = n - m
  BY <1>2, Zenon
<1>4. ASSUME NEW x \in S PROVE m >= x
  <2>1. n - x \in T
    BY Zenon
  <2>2. t <= n - x
    BY <1>2, <2>1, Zenon
  <2> QED BY <1>3, <2>2
<1>5. Max(S) \in S /\ \A x \in S : Max(S) >= x
  BY <1>4, Zenon DEF Max
<1> QED BY <1>5, Zenon

\* Whether a block is in a set, as a number.
LEMMA InSet ==
    ASSUME NEW b, NEW S
    PROVE  Cardinality({b} \cap S) = IF b \in S THEN 1 ELSE 0
<1>1. CASE b \in S
  <2>1. {b} \cap S = {b}
    BY <1>1, Zenon
  <2> QED BY <1>1, <2>1, FS_Singleton, Zenon
<1>2. CASE b \notin S
  <2>1. {b} \cap S = {}
    BY <1>2, Zenon
  <2> QED BY <1>2, <2>1, FS_EmptySet, Zenon
<1> QED BY <1>1, <1>2, Zenon

\* The places of a block in a channel.
Places(b, s) == {i \in DOMAIN s : s[i] = b}

\* A channel holds a block a finite number of times.
LEMMA PlacesAreFinite ==
    ASSUME NEW S, NEW s \in Seq(S), NEW b
    PROVE  IsFiniteSet(Places(b, s)) /\ InChannel(b, s) = Cardinality(Places(b, s))
           /\ InChannel(b, s) \in Nat
<1>1. IsFiniteSet(1 .. Len(s))
  BY FS_Interval
<1>2. Places(b, s) \subseteq 1 .. Len(s)
  BY DEF Places
<1>3. IsFiniteSet(Places(b, s))
  BY <1>1, <1>2, FS_Subset, Zenon
<1> QED BY <1>3, FS_CardinalityType, Zenon DEF InChannel, Places

\* A channel that is appended to another carries its requests in addition.
LEMMA InConcat ==
    ASSUME NEW S, NEW s \in Seq(S), NEW t \in Seq(S), NEW b
    PROVE  InChannel(b, s \o t) = InChannel(b, s) + InChannel(b, t)
<1> DEFINE P == Places(b, s)
           Q == Places(b, t)
           R == {i + Len(s) : i \in Q}
           f == [i \in Q |-> i + Len(s)]
<1>1. /\ s \o t \in Seq(S) /\ Len(s) \in Nat /\ Len(t) \in Nat /\ Len(s \o t) = Len(s) + Len(t)
      /\ DOMAIN s = 1 .. Len(s) /\ DOMAIN t = 1 .. Len(t) /\ DOMAIN (s \o t) = 1 .. Len(s \o t)
  OBVIOUS
<1>2. \A i \in 1 .. Len(s) : (s \o t)[i] = s[i]
  OBVIOUS
<1>3. \A i \in 1 .. Len(t) : (s \o t)[i + Len(s)] = t[i]
  OBVIOUS
<1>4. Q \subseteq 1 .. Len(t) /\ P \subseteq 1 .. Len(s)
  BY DEF Places
<1>5. f \in Bijection(Q, R)
  <2>1. f \in [Q -> R]
    BY Zenon
  <2>2. \A i, j \in Q : f[i] = f[j] => i = j
    BY <1>1, <1>4
  <2>3. \A r \in R : \E i \in Q : f[i] = r
    BY Zenon
  <2> QED BY <2>1, <2>2, <2>3, Zenon DEF Bijection, Injection, Surjection, IsInjective
<1>6. IsFiniteSet(P) /\ IsFiniteSet(Q)
  BY PlacesAreFinite, Zenon
<1>7. IsFiniteSet(R) /\ Cardinality(R) = Cardinality(Q)
  <2>1. ExistsBijection(Q, R)
    BY <1>5, Zenon DEF ExistsBijection
  <2> QED BY <2>1, <1>6, FS_Bijection, Zenon
<1>8. Places(b, s \o t) = P \cup R
  <2>1. ASSUME NEW i \in Places(b, s \o t) PROVE i \in P \cup R
    <3>1. i \in 1 .. Len(s) + Len(t) /\ (s \o t)[i] = b
      BY <1>1, Zenon DEF Places
    <3>2. CASE i <= Len(s)
      BY <1>1, <1>2, <3>1, <3>2 DEF Places
    <3>3. CASE i > Len(s)
      <4>1. PICK j \in 1 .. Len(t) : i = j + Len(s)
        <5>1. i - Len(s) \in 1 .. Len(t) /\ i = (i - Len(s)) + Len(s)
          BY <1>1, <3>1, <3>3
        <5> QED BY <5>1, Zenon
      <4>2. t[j] = b
        BY <1>3, <3>1, <4>1, Zenon
      <4> QED BY <1>1, <4>1, <4>2, Zenon DEF Places
    <3> QED BY <1>1, <3>1, <3>2, <3>3
  <2>2. ASSUME NEW i \in P PROVE i \in Places(b, s \o t)
    BY <1>1, <1>2 DEF Places
  <2>3. ASSUME NEW i \in R PROVE i \in Places(b, s \o t)
    BY <1>1, <1>3 DEF Places
  <2> QED BY <2>1, <2>2, <2>3, Zenon
<1>9. P \cap R = {}
  BY <1>1, <1>4
<1>10. Cardinality(P \cup R) = Cardinality(P) + Cardinality(R)
  <2>1. Cardinality(P \cup R) = Cardinality(P) + Cardinality(R) - Cardinality(P \cap R)
    BY <1>6, <1>7, FS_Union, Zenon
  <2>2. Cardinality(P \cap R) = 0
    BY <1>9, FS_EmptySet, Zenon
  <2>3. Cardinality(P) \in Nat /\ Cardinality(R) \in Nat
    BY <1>6, <1>7, FS_CardinalityType, Zenon
  <2> QED BY <2>1, <2>2, <2>3
<1> QED BY <1>1, <1>7, <1>8, <1>10, PlacesAreFinite, Zenon

\* The head of a channel carries one request.
LEMMA InTail ==
    ASSUME NEW S, NEW s \in Seq(S), s # <<>>, NEW b
    PROVE  InChannel(b, s) = InChannel(b, Tail(s)) + IF b = Head(s) THEN 1 ELSE 0
<1>1. /\ Head(s) \in S /\ Tail(s) \in Seq(S) /\ <<Head(s)>> \in Seq(S)
      /\ s = <<Head(s)>> \o Tail(s)
  OBVIOUS
<1>2. InChannel(b, s) = InChannel(b, <<Head(s)>>) + InChannel(b, Tail(s))
  BY <1>1, InConcat, Zenon
<1>3. InChannel(b, <<Head(s)>>) = IF b = Head(s) THEN 1 ELSE 0
  <2>1. InChannel(b, <<Head(s)>>) = Cardinality(Places(b, <<Head(s)>>))
    BY Zenon DEF InChannel, Places
  <2>2. CASE b = Head(s)
    <3>1. Places(b, <<Head(s)>>) = {1}
      BY <2>2 DEF Places
    <3> QED BY <2>1, <2>2, <3>1, FS_Singleton, Zenon
  <2>3. CASE b # Head(s)
    <3>1. Places(b, <<Head(s)>>) = {}
      BY <2>3 DEF Places
    <3> QED BY <2>1, <2>3, <3>1, FS_EmptySet, Zenon
  <2> QED BY <2>2, <2>3, Zenon
<1>4. InChannel(b, Tail(s)) \in Nat
  BY <1>1, PlacesAreFinite, Zenon
<1> QED BY <1>2, <1>3, <1>4

\* A channel that carries each block of a set once.
LEMMA InEnumeration ==
    ASSUME NEW S, NEW s \in Seq(S), NEW T, Range(s) = T,
           \A i, j \in DOMAIN s : s[i] = s[j] => i = j, NEW b
    PROVE  InChannel(b, s) = IF b \in T THEN 1 ELSE 0
<1>1. InChannel(b, s) = Cardinality(Places(b, s))
  BY Zenon DEF InChannel, Places
<1>2. CASE b \in T
  <2>1. PICK i \in DOMAIN s : s[i] = b
    BY <1>2, Zenon DEF Range
  <2>2. Places(b, s) = {i}
    BY <2>1, Zenon DEF Places
  <2> QED BY <1>1, <1>2, <2>2, FS_Singleton, Zenon
<1>3. CASE b \notin T
  <2>1. Places(b, s) = {}
    BY <1>3, Zenon DEF Places, Range
  <2> QED BY <1>1, <1>3, <2>1, FS_EmptySet, Zenon
<1> QED BY <1>2, <1>3, Zenon

\* The elements of Orders list a finite set, each element once.
LEMMA EnumerationOf ==
    ASSUME NEW S, IsFiniteSet(S), NEW s \in Orders(S)
    PROVE  /\ s \in Seq(S) /\ Range(s) = S
           /\ \A i, j \in DOMAIN s : s[i] = s[j] => i = j
<1> DEFINE n == Cardinality(S)
<1>1. n \in Nat
  BY FS_CardinalityType, Zenon
<1>2. s \in [1 .. n -> S] /\ \A i, j \in 1 .. n : i # j => s[i] # s[j]
  BY Zenon DEF Orders, Injection, IsInjective
<1>3. s \in Seq(S) /\ DOMAIN s = 1 .. n
  BY <1>1, <1>2
<1>4. \A i, j \in DOMAIN s : s[i] = s[j] => i = j
  BY <1>2, <1>3, Zenon
<1> DEFINE R == Range(s)
<1>5. R \subseteq S
  BY <1>2, Zenon DEF Range
<1>6. IsFiniteSet(R)
  BY <1>5, FS_Subset, Zenon
<1>7. s \in Bijection(1 .. n, R)
  <2>1. s \in [1 .. n -> R]
    BY <1>2, Zenon DEF Range
  <2>2. \A r \in R : \E i \in 1 .. n : s[i] = r
    BY <1>2, Zenon DEF Range
  <2> QED BY <1>2, <2>1, <2>2, Zenon DEF Bijection, Injection, Surjection, IsInjective
<1>8. ExistsBijection(1 .. n, R)
  BY <1>7, Zenon DEF ExistsBijection
<1>9. IsFiniteSet(1 .. n) /\ Cardinality(1 .. n) = n
  BY <1>1, FS_Interval
<1>10. Cardinality(R) = n
  BY <1>8, <1>9, FS_Bijection, Zenon
<1>11. R = S
  BY <1>5, <1>10, FS_Subset, Zenon
<1> QED BY <1>3, <1>4, <1>11, Zenon

-----------------------------------------------------------------------------
(* The block tree.                                                          *)

\* A way of n steps from a block to an ancestor.
IsPath(p, n, b, c) ==
    /\ p \in [0 .. n -> Block] /\ p[0] = b /\ p[n] = c
    /\ \A i \in 0 .. n - 1 : p[i] # Genesis /\ p[i + 1] = Parent[p[i]]

Reached(b) == {c \in Block : \E n \in Nat \ {0} : \E p : IsPath(p, n, b, c)}

\* The recursion that defines Ancestors has a solution: what paths reach.
LEMMA ReachedStep ==
    ASSUME NEW b \in Block
    PROVE  Reached(b) = IF b = Genesis THEN {} ELSE {Parent[b]} \cup Reached(Parent[b])
<1>1. Parent[b] \in Block
  BY QueueAssumption, Zenon
<1>2. CASE b = Genesis
  <2>1. ASSUME NEW n \in Nat \ {0}, NEW p, NEW c, IsPath(p, n, b, c) PROVE FALSE
    BY <1>2, <2>1 DEF IsPath
  <2> QED BY <1>2, <2>1, Zenon DEF Reached
<1>3. CASE b # Genesis
  <2>1. Parent[b] \in Reached(b)
    <3> DEFINE p == [i \in 0 .. 1 |-> IF i = 0 THEN b ELSE Parent[b]]
    <3>1. IsPath(p, 1, b, Parent[b])
      BY <1>1, <1>3 DEF IsPath
    <3> HIDE DEF p
    <3> QED BY <1>1, <3>1 DEF Reached
  <2>2. ASSUME NEW c \in Reached(Parent[b]) PROVE c \in Reached(b)
    <3>1. PICK n \in Nat \ {0} : \E q : IsPath(q, n, Parent[b], c)
      BY Zenon DEF Reached
    <3>2. PICK q : IsPath(q, n, Parent[b], c)
      BY <3>1, Zenon
    <3> DEFINE p == [i \in 0 .. n + 1 |-> IF i = 0 THEN b ELSE q[i - 1]]
    <3>3. p \in [0 .. n + 1 -> Block]
      BY <3>2 DEF IsPath
    <3>4. p[0] = b /\ p[n + 1] = c
      BY <3>2 DEF IsPath
    <3>5. ASSUME NEW i \in 0 .. (n + 1) - 1 PROVE p[i] # Genesis /\ p[i + 1] = Parent[p[i]]
      <4>1. CASE i = 0
        BY <1>3, <3>2, <4>1 DEF IsPath
      <4>2. CASE i # 0
        <5>1. i - 1 \in 0 .. n - 1 /\ (i - 1) + 1 = i /\ (i + 1) - 1 = i /\ i \in 0 .. n + 1
              /\ i + 1 \in 0 .. n + 1 /\ i + 1 # 0
          BY <4>2
        <5>2. q[i - 1] # Genesis /\ q[(i - 1) + 1] = Parent[q[i - 1]]
          BY <3>2, <5>1, Zenon DEF IsPath
        <5> QED BY <4>2, <5>1, <5>2, Zenon
      <4> QED BY <4>1, <4>2, Zenon
    <3>6. IsPath(p, n + 1, b, c)
      BY <3>3, <3>4, <3>5, Zenon DEF IsPath
    <3> HIDE DEF p
    <3>7. n + 1 \in Nat \ {0} /\ c \in Block
      BY DEF Reached
    <3> QED BY <3>6, <3>7, Zenon DEF Reached
  <2>3. ASSUME NEW c \in Reached(b) PROVE c \in {Parent[b]} \cup Reached(Parent[b])
    <3>1. PICK n \in Nat \ {0} : \E q : IsPath(q, n, b, c)
      BY Zenon DEF Reached
    <3>2. PICK q : IsPath(q, n, b, c)
      BY <3>1, Zenon
    <3>3. q[1] = Parent[b]
      BY <3>2 DEF IsPath
    <3>4. CASE n = 1
      BY <3>2, <3>3, <3>4, Zenon DEF IsPath
    <3>5. CASE n # 1
      <4> DEFINE p == [i \in 0 .. n - 1 |-> q[i + 1]]
      <4>1. n - 1 \in Nat \ {0}
        BY <3>5
      <4>2. p \in [0 .. n - 1 -> Block] /\ p[0] = Parent[b] /\ p[n - 1] = c
        BY <3>2, <3>3, <4>1 DEF IsPath
      <4>3. ASSUME NEW i \in 0 .. (n - 1) - 1 PROVE p[i] # Genesis /\ p[i + 1] = Parent[p[i]]
        <5>1. i + 1 \in 0 .. n - 1 /\ i \in 0 .. n - 1
          OBVIOUS
        <5>2. q[i + 1] # Genesis /\ q[(i + 1) + 1] = Parent[q[i + 1]]
          BY <3>2, <5>1, Zenon DEF IsPath
        <5> QED BY <5>1, <5>2, Zenon
      <4>4. IsPath(p, n - 1, Parent[b], c)
        BY <4>2, <4>3, Zenon DEF IsPath
      <4> HIDE DEF p
      <4>5. c \in Block
        BY Zenon DEF Reached
      <4> QED BY <4>1, <4>4, <4>5, Zenon DEF Reached
    <3> QED BY <3>4, <3>5, Zenon
  <2> QED BY <1>3, <2>1, <2>2, <2>3, Zenon
<1> QED BY <1>2, <1>3, Zenon

\* The recursive function is what its equation says.
LEMMA AncestorsStep ==
    ASSUME NEW b \in Block
    PROVE  Ancestors[b] = IF b = Genesis THEN {} ELSE {Parent[b]} \cup Ancestors[Parent[b]]
<1> DEFINE Rec(f) == f = [x \in Block |-> IF x = Genesis THEN {} ELSE {Parent[x]} \cup f[Parent[x]]]
           g == [x \in Block |-> Reached(x)]
<1>1. Rec(g)
  <2>1. \A x \in Block : Parent[x] \in Block
    BY QueueAssumption, Zenon
  <2>2. \A x \in Block : g[x] = IF x = Genesis THEN {} ELSE {Parent[x]} \cup g[Parent[x]]
    BY <2>1, ReachedStep, Zenon
  <2> QED BY <2>2, Zenon
<1>2. Rec(Ancestors)
  <2>1. Ancestors = CHOOSE f : Rec(f)
    BY Zenon DEF Ancestors
  <2> HIDE DEF g
  <2> QED BY <1>1, <2>1, Zenon
<1> QED BY <1>2, Zenon

\* Ancestors are lower.
LEMMA AncestorsAreLower ==
    ASSUME NEW b \in Block, NEW c \in Ancestors[b]
    PROVE  c \in Block /\ Height[c] < Height[b]
<1> DEFINE Bad(x) == \E y \in Ancestors[x] : ~(y \in Block /\ Height[y] < Height[x])
           T == {Height[x] : x \in {x \in Block : Bad(x)}}
<1>1. SUFFICES T = {}
  BY Zenon
<1>2. SUFFICES ASSUME T # {} PROVE FALSE
  BY Zenon
<1>3. T \in SUBSET Nat
  BY QueueAssumption
<1>4. PICK h \in T : \A k \in T : h <= k
  BY <1>2, <1>3, LeastNatural, Zenon
<1>5. PICK x \in Block : h = Height[x] /\ Bad(x)
  BY <1>4, Zenon
<1>6. PICK y \in Ancestors[x] : ~(y \in Block /\ Height[y] < Height[x])
  BY <1>5, Zenon
<1>7. x # Genesis /\ (y = Parent[x] \/ y \in Ancestors[Parent[x]])
  BY <1>6, AncestorsStep, Zenon
<1>8. Parent[x] \in Block /\ Height[x] = Height[Parent[x]] + 1 /\ Height[Parent[x]] \in Nat
  BY <1>7, QueueAssumption, Zenon
<1>9. y \in Ancestors[Parent[x]]
  BY <1>6, <1>7, <1>8
<1>10. ~Bad(Parent[x])
  <2>1. Height[Parent[x]] \notin T
    <3> HIDE DEF T
    <3>1. ~(h <= Height[Parent[x]])
      BY <1>3, <1>5, <1>8
    <3> QED BY <1>4, <3>1, Zenon
  <2> QED BY <1>8, <2>1, Zenon
<1>11. y \in Block /\ Height[y] < Height[Parent[x]]
  BY <1>9, <1>10, Zenon
<1>12. Height[y] \in Nat
  BY <1>11, QueueAssumption, Zenon
<1> QED BY <1>6, <1>8, <1>11, <1>12

-----------------------------------------------------------------------------
(* What the operations compute.                                             *)

\* The blocks that are ready follow the last one that was sent, without a gap.
LEMMA RunFollows ==
    ASSUME NEW q, DOMAIN q \subseteq Checkpoints, IsFiniteSet(DOMAIN q), NEW last \in Block
    PROVE  /\ ReadyRun(q, last) \in Seq(DOMAIN q)
           /\ \A i \in DOMAIN ReadyRun(q, last) :
                Height[ReadyRun(q, last)[i]] = Height[last] + i
           /\ \A i, j \in DOMAIN ReadyRun(q, last) :
                ReadyRun(q, last)[i] = ReadyRun(q, last)[j] => i = j
<1> DEFINE n == RunLength(q, last)
           run == ReadyRun(q, last)
           N == {m \in 0 .. Cardinality(DOMAIN q) :
                    \A i \in 1 .. m : \E b \in DOMAIN q : Height[b] = Height[last] + i}
<1>1. Cardinality(DOMAIN q) \in Nat
  BY FS_CardinalityType, Zenon
<1>2. 0 \in N /\ N \in SUBSET Nat /\ \A x \in N : x <= Cardinality(DOMAIN q)
  BY <1>1
<1>3. Max(N) \in N
  <2> HIDE DEF N
  <2> QED BY <1>1, <1>2, MaxOfBounded, Zenon
<1>4. n = Max(N)
  BY Zenon DEF RunLength
<1>5. n \in Nat /\ \A i \in 1 .. n : \E b \in DOMAIN q : Height[b] = Height[last] + i
  BY <1>1, <1>3, <1>4
<1> HIDE DEF n
<1>6. run = [i \in 1 .. n |-> CHOOSE b \in DOMAIN q : Height[b] = Height[last] + i]
  BY Zenon DEF ReadyRun, n
<1>7. \A i \in 1 .. n : run[i] \in DOMAIN q /\ Height[run[i]] = Height[last] + i
  BY <1>5, <1>6, Zenon
<1>8. DOMAIN run = 1 .. n /\ run \in Seq(DOMAIN q)
  <2>1. run \in [1 .. n -> DOMAIN q]
    BY <1>6, <1>7, Zenon
  <2> QED BY <1>5, <2>1
<1>9. \A i, j \in 1 .. n : run[i] = run[j] => i = j
  <2>1. Height[last] \in Nat
    BY QueueAssumption, Zenon
  <2> HIDE DEF run
  <2> QED BY <1>5, <1>7, <2>1
<1> QED BY <1>7, <1>8, <1>9, Zenon

\* Pruning keeps what is above the bound in a batch.
LEMMA PruneKeepsHigh ==
    ASSUME NEW buf \in Seq(Block), NEW bound \in Nat
    PROVE  /\ PruneBatch(buf, bound) \in Seq(Block)
           /\ Range(PruneBatch(buf, bound)) \subseteq Range(buf)
           /\ \A b \in Range(buf) : Height[b] > bound => b \in Range(PruneBatch(buf, bound))
<1> DEFINE high == {i \in DOMAIN buf : Height[buf[i]] > bound}
           left == PruneBatch(buf, bound)
<1>1. DOMAIN buf = 1 .. Len(buf) /\ Len(buf) \in Nat
  OBVIOUS
<1>2. CASE high = {}
  <2>1. left = <<>>
    BY <1>2, Zenon DEF PruneBatch
  <2>2. \A b \in Range(buf) : ~(Height[b] > bound)
    BY <1>2, Zenon DEF Range
  <2>3. Range(left) = {}
    BY <2>1 DEF Range
  <2> QED BY <2>1, <2>2, <2>3
<1>3. CASE high # {}
  <2>1. high \in SUBSET Nat
    BY <1>1
  <2>2. PICK m \in high : \A i \in high : m <= i
    BY <1>3, <2>1, LeastNatural, Zenon
  <2>3. Min(high) \in high /\ \A i \in high : Min(high) <= i
    BY <2>2, Zenon DEF Min
  <2>4. left = SubSeq(buf, Min(high), Len(buf))
    BY <1>3, Zenon DEF PruneBatch
  <2> DEFINE lo == Min(high)
  <2>5. lo \in 1 .. Len(buf)
    BY <1>1, <2>3, Zenon
  <2> HIDE DEF lo, high
  <2>6. /\ left \in Seq(Block) /\ Len(left) = Len(buf) - lo + 1
        /\ \A i \in 1 .. Len(left) : left[i] = buf[lo + i - 1]
    BY <1>1, <2>4, <2>5 DEF lo
  <2> HIDE DEF left
  <2>7. DOMAIN left = 1 .. Len(left)
    BY <2>6
  <2>8. ASSUME NEW i \in DOMAIN left PROVE left[i] \in Range(buf)
    <3>1. lo + i - 1 \in DOMAIN buf
      BY <1>1, <2>5, <2>6, <2>7
    <3> QED BY <2>6, <2>7, <3>1, Zenon DEF Range
  <2>9. ASSUME NEW b \in Range(buf), Height[b] > bound PROVE b \in Range(left)
    <3>1. PICK i \in DOMAIN buf : buf[i] = b
      BY Zenon DEF Range
    <3>2. i \in high
      BY <2>9, <3>1, Zenon DEF high
    <3>3. lo <= i
      BY <2>3, <3>2, Zenon DEF lo
    <3>4. i - lo + 1 \in 1 .. Len(left) /\ lo + (i - lo + 1) - 1 = i
      BY <1>1, <2>5, <2>6, <3>3
    <3>5. left[i - lo + 1] = b
      BY <2>6, <3>1, <3>4, Zenon
    <3> QED BY <2>7, <3>4, <3>5, Zenon DEF Range
  <2> QED BY <2>6, <2>8, <2>9, Zenon DEF Range, left
<1> QED BY <1>2, <1>3, Zenon

-----------------------------------------------------------------------------
(* The inductive invariant.                                                 *)

\* The blocks that are verified in full.
FullyVerified == Block \ ({Genesis} \cup Checkpoints)

\* The queue and its indexes.
QueueInv ==
    /\ blocks \subseteq FullyVerified /\ IsFiniteSet(blocks) /\ IsFiniteSet(DOMAIN f_queue)
    /\ \A p \in Block : by_parent[p] = {b \in blocks : Parent[b] = p}
    /\ \A h \in Heights : by_height[h] \subseteq {b \in blocks : Height[b] = h}

\* The steps of the service.
ServiceInv ==
    /\ pc \in Block => pc \in FullyVerified
    /\ pc \in {"handover", "send", "prune"} => ~f_open
    /\ pc = "prune" => curr_buf = <<>>
    /\ pc \notin {"handover", "send"} => work = <<>>
    /\ dropped => pc = "idle" /\ ~f_open /\ blocks = {}

\* The phases: full verification starts with the hand over, when the tip is the last
\* checkpoint, and the write task follows.
PhaseInv ==
    /\ Range(n_chan) \subseteq FullyVerified /\ Range(BlocksOf(f_chan)) \subseteq Checkpoints
    /\ f_open => writer = "checkpoint" /\ n_chan = <<>>
    /\ ~f_open /\ ~dropped => \A c \in Checkpoints : Height[c] <= Height[tip]
    /\ writer = "checkpoint" => chains = {} /\ tip \in Checkpoints \cup {Genesis}
    /\ \A b \in chains : Height[b] > Height[tip]

\* The first k blocks of a channel to the write task are too high to be written: they
\* followed a block that failed.  The others continue the tip.
Continues(chan, k, top) ==
    /\ \A i \in 1 .. k : Height[chan[i][1]] > Height[top] + 1
    /\ \A i \in k + 1 .. Len(chan) : Height[chan[i][1]] = Height[top] + (i - k)

\* The others end with the last block that was sent, or all of the channel is too
\* high, and a reset to the tip is on its way.
Leads(chan, k, top, last, back) ==
    \/ back = <<>> /\ Height[last] = Height[top] + (Len(chan) - k)
    \/ back = <<top>> /\ k = Len(chan)

ChannelInv ==
    writer = "checkpoint" /\ ~dropped =>
        \E k \in 0 .. Len(f_chan) :
            /\ Continues(f_chan, k, tip) /\ Leads(f_chan, k, tip, last_sent, resets)
            /\ ~f_open => k = Len(f_chan)

\* A block is settled if it was sent, or its height is finalized: it is not queued
\* any more.
Settled(b) == b \in sent \/ Height[b] <= Height[tip]

\* What was sent is remembered until the tip has passed it.
SentInv ==
    /\ sent \subseteq Range(curr_buf) \cup UNION {Range(buf) : buf \in bufs}
    /\ \A b \in Range(n_chan) : Settled(b)
    /\ f_open => \A b \in DOMAIN f_queue \cup Range(BlocksOf(f_chan)) :
                    Height[b] >= full_verifier_utxo_lookahead => b \in sent

\* The blocks that have left the queue.
Out == sent \cup Range(work) \cup Range(n_chan) \cup chains \cup {tip}

\* They are settled with all their ancestors, of which none is queued.
Clear(b) == b \notin blocks /\ Settled(b)

ClosedInv ==
    ~f_open /\ ~dropped => \A p \in Out : Clear(p) /\ \A a \in Ancestors[p] : Clear(a)

\* The channel has them in the order of the chain.
OrderInv ==
    \A i, j \in DOMAIN n_chan : n_chan[j] \in Ancestors[n_chan[i]] => j < i

\* A block that stays in the queue has no parent that was sent, unless the service
\* is about to send it, or its height is finalized.
ReadyInv ==
    ~f_open /\ ~dropped =>
        \A b \in blocks : Parent[b] \in sent \cup {tip} =>
            Height[b] <= Height[tip] \/ Parent[b] \in Range(work) \/ pc = b

\* The outputs that wait for a block which has not arrived.
Exempt(b) == b \in Checkpoints /\ Height[b] < full_verifier_utxo_lookahead
UtxoInv ==
    \A b \in Awaited :
        /\ utxo[b] \in {"reading", "waiting"} => Exempt(b) \/ b \notin blocks \cup sent
        /\ utxo[b] = "waiting" => Exempt(b) \/ b \notin chains \cup db

IInv ==
    /\ TypeOK /\ QueueInv /\ ServiceInv /\ PhaseInv /\ ChannelInv /\ SentInv
    /\ ClosedInv /\ OrderInv /\ ReadyInv /\ UtxoInv /\ RequestsAreAccounted

-----------------------------------------------------------------------------
(* Facts that the steps share.                                              *)

\* The numbers and blocks that a block refers to.
LEMMA HeightsAreNatural ==
    ASSUME NEW b \in Block
    PROVE  Height[b] \in Nat /\ Height[b] \in Heights /\ Parent[b] \in Block
BY QueueAssumption, Zenon DEF Heights

\* The blocks in the channel of checkpoint verified blocks.
LEMMA BlocksOfChannel ==
    ASSUME NEW c \in Seq(Block \X BOOLEAN)
    PROVE  /\ BlocksOf(c) \in Seq(Block) /\ Len(BlocksOf(c)) = Len(c)
           /\ DOMAIN c = 1 .. Len(c) /\ Len(c) \in Nat
           /\ \A i \in 1 .. Len(c) : /\ BlocksOf(c)[i] = c[i][1] /\ c[i][1] \in Block
                                     /\ c[i] = <<c[i][1], c[i][2]>>
<1>1. DOMAIN c = 1 .. Len(c) /\ Len(c) \in Nat /\ \A i \in 1 .. Len(c) : c[i] \in Block \X BOOLEAN
  OBVIOUS
<1>2. \A i \in 1 .. Len(c) : c[i][1] \in Block /\ c[i] = <<c[i][1], c[i][2]>>
  BY <1>1
<1>3. BlocksOf(c) \in [1 .. Len(c) -> Block] /\ \A i \in 1 .. Len(c) : BlocksOf(c)[i] = c[i][1]
  BY <1>1, <1>2, Zenon DEF BlocksOf
<1>4. BlocksOf(c) \in Seq(Block) /\ Len(BlocksOf(c)) = Len(c)
  BY <1>1, <1>3
<1> QED BY <1>1, <1>2, <1>3, <1>4, Zenon

\* The checkpoints are a chain from genesis.
LEMMA CheckpointAncestors ==
    ASSUME NEW c \in Checkpoints \cup {Genesis}
    PROVE  Ancestors[c] \subseteq Checkpoints \cup {Genesis}
<1> DEFINE Bad(x) == ~(Ancestors[x] \subseteq Checkpoints \cup {Genesis})
           T == {Height[x] : x \in {x \in Checkpoints \cup {Genesis} : Bad(x)}}
<1>1. SUFFICES ASSUME T # {} PROVE FALSE
  BY Zenon
<1>2. T \in SUBSET Nat
  BY QueueAssumption
<1>3. PICK h \in T : \A k \in T : h <= k
  BY <1>1, <1>2, LeastNatural, Zenon
<1>4. PICK x \in Checkpoints \cup {Genesis} : h = Height[x] /\ Bad(x)
  BY <1>3, Zenon
<1>5. x \in Block /\ x # Genesis
  BY <1>4, AncestorsStep, QueueAssumption, Zenon
<1>6. Parent[x] \in Checkpoints \cup {Genesis} /\ Height[x] = Height[Parent[x]] + 1
      /\ Height[Parent[x]] \in Nat
  BY <1>4, <1>5, QueueAssumption, Zenon
<1>7. Bad(Parent[x])
  <2>1. Ancestors[x] = {Parent[x]} \cup Ancestors[Parent[x]]
    BY <1>5, AncestorsStep, Zenon
  <2> QED BY <1>4, <1>6, <2>1, Zenon
<1>8. Height[Parent[x]] \in T
  BY <1>6, <1>7, Zenon
<1> HIDE DEF T
<1> QED BY <1>3, <1>4, <1>6, <1>8

\* The parent and the ancestors of a block that is verified in full.
LEMMA AncestorsOfChild ==
    ASSUME NEW b \in FullyVerified
    PROVE  /\ b \in Block /\ Parent[b] \in Block /\ Height[b] = Height[Parent[b]] + 1
           /\ Ancestors[b] = {Parent[b]} \cup Ancestors[Parent[b]]
<1>1. b \in Block /\ b # Genesis
  BY Zenon DEF FullyVerified
<1> QED BY <1>1, AncestorsStep, QueueAssumption, Zenon

-----------------------------------------------------------------------------
(* The initial state, and the steps, one by one.                            *)

\* The service starts with empty queues, at the finalized tip.
LEMMA InitIInv == Init => IInv
<1> SUFFICES ASSUME Init PROVE IInv
  BY Zenon
<1>0. DOMAIN f_queue = {} /\ Range(n_chan) = {} /\ DOMAIN f_chan = {} /\ DOMAIN n_chan = {}
      /\ Range(BlocksOf(f_chan)) = {} /\ Range(work) = {}
  BY DEF Init, Range, BlocksOf
<1>1. TypeOK
  <2>1. f_queue \in [DOMAIN f_queue -> BOOLEAN]
    BY <1>0 DEF Init
  <2>2. bufs = {} /\ curr_buf \in Seq(Block) /\ work \in Seq(Block) /\ n_chan \in Seq(Block)
        /\ resets \in Seq(Block) /\ f_chan \in Seq(Block \X BOOLEAN)
    BY DEF Init
  <2> QED BY <1>0, <2>1, <2>2, QueueAssumption, Zenon DEF Init, TypeOK
<1>2. QueueInv
  BY <1>0, FS_EmptySet, Zenon DEF Init, QueueInv
<1>3. ServiceInv /\ PhaseInv
  BY <1>0, QueueAssumption, Zenon DEF Init, ServiceInv, PhaseInv
<1>4. ChannelInv
  <2>1. Len(f_chan) = 0 /\ 0 \in 0 .. 0 /\ Height[Genesis] \in Nat
    BY QueueAssumption DEF Init
  <2>2. Continues(f_chan, 0, tip) /\ Leads(f_chan, 0, tip, last_sent, resets)
    BY <2>1 DEF Init, Continues, Leads
  <2> QED BY <2>1, <2>2, Zenon DEF ChannelInv
<1>5. SentInv
  BY <1>0, Zenon DEF Init, SentInv
<1>6. ClosedInv /\ OrderInv /\ ReadyInv /\ UtxoInv
  BY <1>0, Zenon DEF Init, ClosedInv, OrderInv, ReadyInv, UtxoInv
<1>7. RequestsAreAccounted
  <2>1. ASSUME NEW b \in Block
        PROVE  InChannel(b, n_chan) = 0 /\ InChannel(b, BlocksOf(f_chan)) = 0
    <3>1. {i \in DOMAIN n_chan : n_chan[i] = b} = {}
      BY <1>0, Zenon
    <3>2. {i \in DOMAIN BlocksOf(f_chan) : BlocksOf(f_chan)[i] = b} = {}
      BY <1>0, Zenon DEF Range
    <3> QED BY <3>1, <3>2, FS_EmptySet, Zenon DEF InChannel
  <2>2. blocks = {} /\ asked = [b \in Block |-> 0] /\ answered = [b \in Block |-> 0]
    BY Zenon DEF Init
  <2> QED BY <1>0, <2>1, <2>2, InSet DEF RequestsAreAccounted
<1> QED BY <1>1, <1>2, <1>3, <1>4, <1>5, <1>6, <1>7, Zenon DEF IInv

\* send_ready_non_finalized_queued is entered, or the call ends.
LEMMA SendIfReadyKeeps ==
    ASSUME IInv, SendIfReady
    PROVE  IInv'
<1>0. /\ UNCHANGED <<blocks, by_parent, by_height, f_queue, f_open, last_sent, sent, curr_buf,
                     bufs, utxo, f_chan, n_chan, resets, writer, tip, db, chains, errors,
                     asked, answered, dropped>>
      /\ pc \in Block /\ Parent[pc] \in Block
  BY HeightsAreNatural, Zenon DEF SendIfReady, queueVars, finalizedVars, sentVars, writerVars
<1>1. \/ CanForkChainAt(Parent[pc]) /\ ~f_open /\ work' = <<Parent[pc]>> /\ pc' = "send"
      \/ ~(CanForkChainAt(Parent[pc]) /\ ~f_open) /\ pc' = "idle" /\ work' = work
  BY Zenon DEF SendIfReady
<1>2. work = <<>> /\ Range(work) = {}
  <2>1. pc \notin {"handover", "send"}
    BY <1>0, QueueAssumption, Zenon
  <2> QED BY <2>1 DEF IInv, ServiceInv, Range
<1>3. TypeOK'
  <2>1. TypeOK
    BY Zenon DEF IInv
  <2>2. pc' \in {"idle", "handover", "send", "prune"} \cup Block /\ work' \in Seq(Block)
    <3>1. CASE work' = <<Parent[pc]>> /\ pc' = "send"
      BY <1>0, <3>1
    <3>2. CASE pc' = "idle" /\ work' = work
      BY <1>2, <3>2
    <3> QED BY <1>1, <3>1, <3>2, Zenon
  <2> QED BY <1>0, <2>1, <2>2, Zenon DEF TypeOK
<1>4. QueueInv'
  BY <1>0, Zenon DEF IInv, QueueInv
<1>5. ServiceInv'
  <2>1. pc' \notin Block
    BY <1>1, QueueAssumption, Zenon
  <2> QED BY <1>0, <1>1, <1>2, <2>1, QueueAssumption, Zenon DEF IInv, ServiceInv
<1>6. PhaseInv'
  BY <1>0, Zenon DEF IInv, PhaseInv
<1>7. ChannelInv'
  BY <1>0, Zenon DEF IInv, ChannelInv
<1>8. SentInv'
  BY <1>0, Zenon DEF IInv, SentInv, Settled
<1>9. ClosedInv'
  <2> SUFFICES ASSUME ~f_open, ~dropped, NEW p \in Out'
               PROVE  Clear(p)' /\ \A a \in Ancestors[p] : Clear(a)'
    BY <1>0, Zenon DEF ClosedInv
  <2>1. p \in Out
    <3>1. Range(work') \subseteq Out
      BY <1>1, <1>2 DEF CanForkChainAt, Out, Range
    <3> QED BY <1>0, <3>1, Zenon DEF Out
  <2>2. Clear(p) /\ \A a \in Ancestors[p] : Clear(a)
    BY <2>1, Zenon DEF IInv, ClosedInv
  <2> QED BY <1>0, <2>2, Zenon DEF Clear, Settled
<1>10. OrderInv'
  BY <1>0, Zenon DEF IInv, OrderInv
<1>11. ReadyInv'
  <2> SUFFICES ASSUME ~f_open, ~dropped, NEW b \in blocks, Parent[b] \in sent \cup {tip}
               PROVE  Height[b] <= Height[tip] \/ Parent[b] \in Range(work)' \/ (pc = b)'
    BY <1>0, Zenon DEF ReadyInv
  <2>1. Height[b] <= Height[tip] \/ pc = b
    BY <1>2, Zenon DEF IInv, ReadyInv
  <2>2. CASE pc = b
    <3>1. CanForkChainAt(Parent[pc]) /\ ~f_open
      BY <2>2, Zenon DEF CanForkChainAt
    <3>2. work' = <<Parent[b]>>
      BY <1>1, <2>2, <3>1, Zenon
    <3> QED BY <3>2 DEF Range
  <2> QED BY <2>1, <2>2, Zenon
<1>12. UtxoInv'
  BY <1>0, Zenon DEF IInv, UtxoInv
<1>13. RequestsAreAccounted'
  BY <1>0, Zenon DEF IInv, RequestsAreAccounted
<1> QED BY <1>3, <1>4, <1>5, <1>6, <1>7, <1>8, <1>9, <1>10, <1>11, <1>12, <1>13, Zenon DEF IInv

\* finish_batch.
LEMMA FinishBatchKeeps ==
    ASSUME IInv, FinishBatch
    PROVE  IInv'
<1>0. /\ UNCHANGED <<work, blocks, by_parent, by_height, f_queue, f_open, last_sent, sent, utxo,
                     f_chan, n_chan, resets, writer, tip, db, chains, errors, asked, answered,
                     dropped>>
      /\ pc \in {"send", "handover"} /\ work = <<>> /\ curr_buf' = <<>>
      /\ pc' \in {"prune", "idle"} /\ bufs' = IF curr_buf = <<>> THEN bufs ELSE bufs \cup {curr_buf}
  BY Zenon DEF FinishBatch, queueVars, finalizedVars, writerVars
<1>1. pc \notin Block /\ pc' \notin Block
  BY <1>0, QueueAssumption, Zenon
<1>2. TypeOK
  BY Zenon DEF IInv
<1>3. TypeOK'
  <2>1. curr_buf \in Seq(Block) /\ bufs \subseteq Seq(Block) \ {<<>>}
    BY <1>2, Zenon DEF TypeOK
  <2>2. bufs' \subseteq Seq(Block) \ {<<>>} /\ curr_buf' \in Seq(Block)
    BY <1>0, <2>1
  <2> QED BY <1>0, <1>2, <2>2, Zenon DEF TypeOK
<1>4. QueueInv'
  BY <1>0, Zenon DEF IInv, QueueInv
<1>5. ServiceInv'
  BY <1>0, <1>1, Zenon DEF IInv, ServiceInv
<1>6. PhaseInv'
  BY <1>0, Zenon DEF IInv, PhaseInv
<1>7. ChannelInv'
  BY <1>0, Zenon DEF IInv, ChannelInv
<1>8. SentInv'
  <2>1. sent \subseteq Range(curr_buf) \cup UNION {Range(buf) : buf \in bufs}
    BY Zenon DEF IInv, SentInv
  <2>2. UNION {Range(buf) : buf \in bufs'} = Range(curr_buf) \cup UNION {Range(buf) : buf \in bufs}
    <3>1. CASE curr_buf = <<>>
      <4>1. Range(curr_buf) = {}
        BY <3>1 DEF Range
      <4> QED BY <1>0, <3>1, <4>1, Zenon
    <3>2. CASE curr_buf # <<>>
      BY <1>0, <3>2, Zenon
    <3> QED BY <3>1, <3>2, Zenon
  <2>3. sent' \subseteq Range(curr_buf') \cup UNION {Range(buf) : buf \in bufs'}
    BY <1>0, <2>1, <2>2, Zenon
  <2> QED BY <1>0, <2>3, Zenon DEF IInv, SentInv, Settled
<1>9. ClosedInv'
  BY <1>0 DEF IInv, ClosedInv, Out, Clear, Settled
<1>10. OrderInv'
  BY <1>0, Zenon DEF IInv, OrderInv
<1>11. ReadyInv'
  BY <1>0, <1>1, <1>2, Zenon DEF IInv, ReadyInv, TypeOK
<1>12. UtxoInv'
  BY <1>0, Zenon DEF IInv, UtxoInv
<1>13. RequestsAreAccounted'
  BY <1>0, Zenon DEF IInv, RequestsAreAccounted
<1> QED BY <1>3, <1>4, <1>5, <1>6, <1>7, <1>8, <1>9, <1>10, <1>11, <1>12, <1>13, Zenon DEF IInv

\* The steps of AwaitUtxo.
LEMMA UtxoStepKeeps ==
    ASSUME IInv, NEW w \in Awaited, AwaitUtxo(w) \/ ReadUtxo(w) \/ AwaitTimesOut(w)
    PROVE  IInv'
<1>0. UNCHANGED <<pc, work, blocks, by_parent, by_height, f_queue, f_open, last_sent, sent,
                  curr_buf, bufs, f_chan, n_chan, resets, writer, tip, db, chains, errors,
                  asked, answered, dropped>>
  BY Zenon DEF AwaitUtxo, ReadUtxo, AwaitTimesOut, queueVars, finalizedVars, writerVars, sentVars
<1>1. TypeOK
  BY Zenon DEF IInv
<1>2. PICK u \in {"none", "reading", "waiting", "answered"} :
        /\ utxo' = [utxo EXCEPT ![w] = u]
        /\ u = "reading" => w \notin blocks \cup sent
        /\ u = "waiting" => utxo[w] = "reading" /\ w \notin chains \cup db
  <2>1. CASE AwaitUtxo(w)
    BY <2>1, Zenon DEF AwaitUtxo
  <2>2. CASE ReadUtxo(w)
    BY <2>2, Zenon DEF ReadUtxo
  <2>3. CASE AwaitTimesOut(w)
    BY <2>3, Zenon DEF AwaitTimesOut
  <2> QED BY <2>1, <2>2, <2>3, Zenon
<1>3. utxo \in [Awaited -> {"none", "reading", "waiting", "answered"}]
  BY <1>1, Zenon DEF TypeOK
<1>4. TypeOK'
  <2>1. utxo' \in [Awaited -> {"none", "reading", "waiting", "answered"}]
    BY <1>2, <1>3, Zenon
  <2> QED BY <1>0, <1>1, <2>1, Zenon DEF TypeOK
<1>5. UtxoInv'
  <2> SUFFICES ASSUME NEW b \in Awaited
               PROVE  /\ utxo'[b] \in {"reading", "waiting"} => Exempt(b) \/ b \notin blocks \cup sent
                      /\ utxo'[b] = "waiting" => Exempt(b) \/ b \notin chains \cup db
    BY <1>0, Zenon DEF UtxoInv, Exempt
  <2>1. /\ utxo[b] \in {"reading", "waiting"} => Exempt(b) \/ b \notin blocks \cup sent
        /\ utxo[b] = "waiting" => Exempt(b) \/ b \notin chains \cup db
    BY Zenon DEF IInv, UtxoInv
  <2>2. utxo'[b] = IF b = w THEN u ELSE utxo[b]
    BY <1>2, <1>3, Zenon
  <2> QED BY <1>2, <2>1, <2>2, Zenon
<1>6. QueueInv' /\ ServiceInv' /\ PhaseInv' /\ ChannelInv'
  BY <1>0, Zenon DEF IInv, QueueInv, ServiceInv, PhaseInv, ChannelInv
<1>7. SentInv' /\ ClosedInv' /\ OrderInv' /\ ReadyInv'
  BY <1>0 DEF IInv, SentInv, Settled, ClosedInv, Out, Clear, OrderInv, ReadyInv
<1>8. RequestsAreAccounted'
  BY <1>0, Zenon DEF IInv, RequestsAreAccounted
<1> QED BY <1>4, <1>5, <1>6, <1>7, <1>8, Zenon DEF IInv

\* The write task goes on to semantically verified blocks.
LEMMA StartBlocksKeeps ==
    ASSUME IInv, StartBlocks
    PROVE  IInv'
<1>0. /\ UNCHANGED <<pc, work, blocks, by_parent, by_height, f_queue, f_open, last_sent, sent,
                     curr_buf, bufs, utxo, f_chan, n_chan, resets, tip, db, chains, errors,
                     asked, answered, dropped>>
      /\ ~f_open /\ writer' = "blocks"
  BY Zenon DEF StartBlocks, serviceVars, queueVars, finalizedVars, sentVars
<1>1. TypeOK'
  BY <1>0, Zenon DEF IInv, TypeOK
<1>2. QueueInv' /\ ServiceInv'
  BY <1>0, Zenon DEF IInv, QueueInv, ServiceInv
<1>3. PhaseInv'
  BY <1>0, Zenon DEF IInv, PhaseInv
<1>4. ChannelInv'
  BY <1>0, Zenon DEF ChannelInv
<1>5. SentInv' /\ ClosedInv' /\ OrderInv' /\ ReadyInv'
  BY <1>0, Zenon DEF IInv, SentInv, Settled, ClosedInv, Out, Clear, OrderInv, ReadyInv
<1>6. UtxoInv' /\ RequestsAreAccounted'
  BY <1>0, Zenon DEF IInv, UtxoInv, RequestsAreAccounted
<1> QED BY <1>1, <1>2, <1>3, <1>4, <1>5, <1>6, Zenon DEF IInv

\* The requests of a block are natural numbers.
LEMMA Counts ==
    ASSUME TypeOK, NEW b \in Block
    PROVE  /\ asked[b] \in Nat /\ answered[b] \in Nat
           /\ InChannel(b, n_chan) \in Nat /\ InChannel(b, BlocksOf(f_chan)) \in Nat
<1>1. BlocksOf(f_chan) \in Seq(Block)
  BY BlocksOfChannel, Zenon DEF TypeOK
<1>2. n_chan \in Seq(Block) /\ asked \in [Block -> Nat] /\ answered \in [Block -> Nat]
  BY Zenon DEF TypeOK
<1> QED BY <1>1, <1>2, PlacesAreFinite, Zenon

\* What is asked and not answered, as the queues and channels have it.
Owed(b) ==
    (IF b \in blocks THEN 1 ELSE 0) + (IF b \in DOMAIN f_queue THEN 1 ELSE 0)
    + InChannel(b, n_chan) + InChannel(b, BlocksOf(f_chan))

\* RequestsAreAccounted with conditions in the place of cardinalities.
LEMMA OwedIsCounted ==
    /\ RequestsAreAccounted <=> \A b \in Block : asked[b] - answered[b] = Owed(b)
    /\ RequestsAreAccounted' <=> \A b \in Block : asked'[b] - answered'[b] = Owed(b)'
<1>1. ASSUME NEW b \in Block
      PROVE  Owed(b) = Cardinality({b} \cap blocks) + Cardinality({b} \cap DOMAIN f_queue)
                       + InChannel(b, n_chan) + InChannel(b, BlocksOf(f_chan))
  BY InSet, Zenon DEF Owed
<1>2. ASSUME NEW b \in Block
      PROVE  Owed(b)' = Cardinality({b} \cap blocks') + Cardinality({b} \cap DOMAIN f_queue')
                        + InChannel(b, n_chan') + InChannel(b, BlocksOf(f_chan'))
  BY InSet, Zenon DEF Owed
<1> QED BY <1>1, <1>2, Zenon DEF RequestsAreAccounted

\* Answers, one for each block of a set.
LEMMA AnswerCounts ==
    ASSUME TypeOK, NEW bs, answered' = Answer(bs)
    PROVE  /\ answered' \in [Block -> Nat]
           /\ \A b \in Block : answered'[b] = answered[b] + IF b \in bs THEN 1 ELSE 0
<1>1. answered \in [Block -> Nat]
  BY Zenon DEF TypeOK
<1> QED BY <1>1 DEF Answer

\* The end of the service.
LEMMA DropStateKeeps ==
    ASSUME IInv, DropState
    PROVE  IInv'
<1>0. /\ UNCHANGED <<pc, work, last_sent, sent, curr_buf, bufs, utxo, f_chan, n_chan, resets,
                     writer, tip, db, chains, errors, asked>>
      /\ pc = "idle" /\ dropped' = TRUE /\ f_open' = FALSE
      /\ answered' = Answer(DOMAIN f_queue \cup blocks) /\ f_queue' = <<>> /\ blocks' = {}
      /\ by_parent' = [b \in Block |-> {}] /\ by_height' = [h \in Heights |-> {}]
  BY Zenon DEF DropState, sentVars, writerVars
<1>1. TypeOK
  BY Zenon DEF IInv
<1>2. DOMAIN f_queue' = {} /\ f_queue' \in [DOMAIN f_queue' -> BOOLEAN]
  BY <1>0
<1>3. /\ answered' \in [Block -> Nat]
      /\ \A b \in Block : answered'[b] = answered[b] + IF b \in DOMAIN f_queue \cup blocks
                                                       THEN 1 ELSE 0
  BY <1>0, <1>1, AnswerCounts, Zenon
<1>4. TypeOK'
  BY <1>0, <1>1, <1>2, <1>3, Zenon DEF TypeOK
<1>5. QueueInv'
  BY <1>0, <1>2, FS_EmptySet, Zenon DEF QueueInv
<1>6. ServiceInv'
  BY <1>0, QueueAssumption, Zenon DEF IInv, ServiceInv
<1>7. PhaseInv'
  BY <1>0, Zenon DEF IInv, PhaseInv
<1>8. ChannelInv' /\ ClosedInv' /\ ReadyInv'
  BY <1>0, Zenon DEF ChannelInv, ClosedInv, ReadyInv
<1>9. SentInv' /\ OrderInv'
  BY <1>0, Zenon DEF IInv, SentInv, Settled, OrderInv
<1>10. UtxoInv'
  BY <1>0, Zenon DEF IInv, UtxoInv
<1>11. RequestsAreAccounted'
  <2>1. ASSUME NEW b \in Block PROVE asked'[b] - answered'[b] = Owed(b)'
    <3>1. asked[b] - answered[b] = Owed(b)
      BY OwedIsCounted, Zenon DEF IInv
    <3>2. ~(b \in blocks /\ b \in DOMAIN f_queue)
      BY Zenon DEF IInv, QueueInv, FullyVerified, TypeOK
    <3>3. Owed(b)' = 0 + 0 + InChannel(b, n_chan) + InChannel(b, BlocksOf(f_chan))
      BY <1>0, <1>2, Zenon DEF Owed
    <3>4. /\ asked[b] \in Nat /\ answered[b] \in Nat
          /\ InChannel(b, n_chan) \in Nat /\ InChannel(b, BlocksOf(f_chan)) \in Nat
      BY <1>1, Counts, Zenon
    <3>5. /\ asked'[b] = asked[b]
          /\ answered'[b] = answered[b] + IF b \in DOMAIN f_queue \cup blocks THEN 1 ELSE 0
      BY <1>0, <1>3, Zenon
    <3> QED BY <3>1, <3>2, <3>3, <3>4, <3>5 DEF Owed
  <2> QED BY <2>1, OwedIsCounted, Zenon
<1> QED BY <1>4, <1>5, <1>6, <1>7, <1>8, <1>9, <1>10, <1>11, Zenon DEF IInv

\* The write task ends with the service.
LEMMA WriterExitsKeeps ==
    ASSUME IInv, WriterExits
    PROVE  IInv'
<1>0. /\ UNCHANGED <<pc, work, blocks, by_parent, by_height, f_queue, f_open, last_sent, sent,
                     curr_buf, bufs, utxo, resets, tip, db, chains, errors, asked, dropped>>
      /\ dropped /\ writer' = "exited" /\ f_chan' = <<>> /\ n_chan' = <<>>
      /\ answered' = [b \in Block |-> answered[b] + InChannel(b, n_chan)
                                      + InChannel(b, BlocksOf(f_chan))]
  BY Zenon DEF WriterExits, serviceVars, queueVars, finalizedVars, sentVars
<1>1. TypeOK
  BY Zenon DEF IInv
<1>2. \A b \in Block : /\ answered'[b] = answered[b] + InChannel(b, n_chan)
                                         + InChannel(b, BlocksOf(f_chan))
                       /\ answered'[b] \in Nat
  BY <1>0, <1>1, Counts
<1>3. answered' \in [Block -> Nat]
  BY <1>0, <1>2, Zenon
<1>4. Range(n_chan') = {} /\ DOMAIN n_chan' = {} /\ DOMAIN BlocksOf(f_chan') = {}
      /\ Range(BlocksOf(f_chan')) = {}
  BY <1>0 DEF Range, BlocksOf
<1>5. TypeOK'
  <2>1. f_chan' \in Seq(Block \X BOOLEAN) /\ n_chan' \in Seq(Block)
    BY <1>0
  <2> QED BY <1>0, <1>1, <1>3, <2>1, Zenon DEF TypeOK
<1>6. QueueInv' /\ ServiceInv'
  BY <1>0, Zenon DEF IInv, QueueInv, ServiceInv
<1>7. PhaseInv'
  BY <1>0, <1>4, Zenon DEF IInv, PhaseInv, ServiceInv
<1>8. ChannelInv' /\ ClosedInv' /\ ReadyInv' /\ OrderInv'
  BY <1>0, <1>4, Zenon DEF ChannelInv, ClosedInv, ReadyInv, OrderInv
<1>9. SentInv'
  BY <1>0, <1>4, Zenon DEF IInv, SentInv, ServiceInv
<1>10. UtxoInv'
  BY <1>0, Zenon DEF IInv, UtxoInv
<1>11. RequestsAreAccounted'
  <2>1. ASSUME NEW b \in Block PROVE asked'[b] - answered'[b] = Owed(b)'
    <3>1. asked[b] - answered[b] = Owed(b)
      BY OwedIsCounted, Zenon DEF IInv
    <3>2. Places(b, n_chan') = {} /\ Places(b, BlocksOf(f_chan')) = {}
      BY <1>4, Zenon DEF Places
    <3>3. InChannel(b, n_chan') = 0 /\ InChannel(b, BlocksOf(f_chan')) = 0
      BY <3>2, FS_EmptySet, Zenon DEF InChannel, Places
    <3>4. Owed(b)' = (IF b \in blocks THEN 1 ELSE 0) + (IF b \in DOMAIN f_queue THEN 1 ELSE 0) + 0 + 0
      BY <1>0, <3>3, Zenon DEF Owed
    <3>5. /\ asked[b] \in Nat /\ answered[b] \in Nat
          /\ InChannel(b, n_chan) \in Nat /\ InChannel(b, BlocksOf(f_chan)) \in Nat
      BY <1>1, Counts, Zenon
    <3>6. /\ asked'[b] = asked[b]
          /\ answered'[b] = answered[b] + InChannel(b, n_chan) + InChannel(b, BlocksOf(f_chan))
      BY <1>0, <1>2, Zenon
    <3> QED BY <3>1, <3>4, <3>5, <3>6 DEF Owed
  <2> QED BY <2>1, OwedIsCounted, Zenon
<1> QED BY <1>5, <1>6, <1>7, <1>8, <1>9, <1>10, <1>11, Zenon DEF IInv

\* The write task takes the first block of the channel.
LEMMA ChannelTail ==
    ASSUME NEW chan \in Seq(Block \X BOOLEAN), chan # <<>>, NEW k \in 0 .. Len(chan),
           NEW top \in Block, Continues(chan, k, top)
    PROVE  /\ Height[chan[1][1]] = Height[top] + 1 <=> k = 0
           /\ k # 0 => k - 1 \in 0 .. Len(Tail(chan)) /\ Continues(Tail(chan), k - 1, top)
           /\ k = 0 => /\ Continues(Tail(chan), 0, chan[1][1])
                       /\ Continues(Tail(chan), Len(Tail(chan)), top)
<1> DEFINE t == Tail(chan)
           n == Len(chan)
<1>1. n \in Nat \ {0} /\ Len(t) = n - 1 /\ \A i \in 1 .. n - 1 : t[i] = chan[i + 1]
  OBVIOUS
<1>2. Height[top] \in Nat /\ \A i \in 1 .. n : Height[chan[i][1]] \in Nat
  BY BlocksOfChannel, HeightsAreNatural, Zenon
<1>3. /\ \A i \in 1 .. k : Height[chan[i][1]] > Height[top] + 1
      /\ \A i \in k + 1 .. n : Height[chan[i][1]] = Height[top] + (i - k)
  BY Zenon DEF Continues
<1> HIDE DEF t, n
<1>4. k \in 0 .. n
  BY Zenon DEF n
<1>5. Height[chan[1][1]] = Height[top] + 1 <=> k = 0
  <2>1. CASE k = 0
    <3>1. 1 \in k + 1 .. n /\ 1 - k = 1
      BY <1>1, <2>1
    <3> QED BY <1>3, <2>1, <3>1, Zenon
  <2>2. CASE k # 0
    <3>1. 1 \in 1 .. k /\ 1 \in 1 .. n
      BY <1>1, <1>4, <2>2
    <3> QED BY <1>2, <1>3, <2>2, <3>1
  <2> QED BY <2>1, <2>2, Zenon
<1>6. ASSUME k # 0 PROVE k - 1 \in 0 .. Len(t) /\ Continues(t, k - 1, top)
  <2>1. k - 1 \in 0 .. Len(t)
    BY <1>1, <1>4, <1>6
  <2>2. ASSUME NEW i \in 1 .. k - 1 PROVE Height[t[i][1]] > Height[top] + 1
    <3>1. i + 1 \in 1 .. k /\ i \in 1 .. n - 1
      BY <1>1, <1>4
    <3>2. Height[chan[i + 1][1]] > Height[top] + 1
      BY <1>3, <3>1, Zenon
    <3> QED BY <1>1, <3>1, <3>2, Zenon
  <2>3. ASSUME NEW i \in (k - 1) + 1 .. Len(t)
        PROVE  Height[t[i][1]] = Height[top] + (i - (k - 1))
    <3>1. i + 1 \in k + 1 .. n /\ i \in 1 .. n - 1 /\ (i + 1) - k = i - (k - 1)
      BY <1>1, <1>4, <1>6
    <3>2. Height[chan[i + 1][1]] = Height[top] + ((i + 1) - k)
      BY <1>3, <3>1, Zenon
    <3> QED BY <1>1, <3>1, <3>2, Zenon
  <2> QED BY <2>1, <2>2, <2>3, Zenon DEF Continues
<1>7. ASSUME k = 0
      PROVE  Continues(t, 0, chan[1][1]) /\ Continues(t, Len(t), top)
  <2>1. Height[chan[1][1]] = Height[top] + 1
    BY <1>5, <1>7, Zenon
  <2>2. ASSUME NEW i \in 1 .. Len(t) PROVE Height[t[i][1]] = Height[top] + (i + 1)
    <3>1. i + 1 \in k + 1 .. n /\ i \in 1 .. n - 1 /\ (i + 1) - k = i + 1
      BY <1>1, <1>7
    <3>2. Height[chan[i + 1][1]] = Height[top] + ((i + 1) - k)
      BY <1>3, <3>1, Zenon
    <3> QED BY <1>1, <3>1, <3>2, Zenon
  <2>3. Len(t) \in Nat
    BY <1>1
  <2>4. Continues(t, 0, chan[1][1])
    <3>1. ASSUME NEW i \in 1 .. Len(t) PROVE Height[t[i][1]] = Height[chan[1][1]] + (i - 0)
      <4>1. Height[t[i][1]] = Height[top] + (i + 1)
        BY <2>2, Zenon
      <4>2. \A h, j \in Nat : h + (j + 1) = (h + 1) + (j - 0)
        OBVIOUS
      <4>3. Height[top] \in Nat /\ i \in Nat
        BY <1>2, <2>3
      <4> QED BY <2>1, <4>1, <4>2, <4>3, Zenon
    <3>2. \A i \in 1 .. 0 : Height[t[i][1]] > Height[chan[1][1]] + 1
      OBVIOUS
    <3>3. 0 + 1 = 1
      OBVIOUS
    <3> QED BY <3>1, <3>2, <3>3, Zenon DEF Continues
  <2>5. Continues(t, Len(t), top)
    <3>1. ASSUME NEW i \in 1 .. Len(t) PROVE Height[t[i][1]] > Height[top] + 1
      BY <1>2, <2>2, <2>3
    <3> QED BY <2>3, <3>1 DEF Continues
  <2> QED BY <2>4, <2>5, Zenon
<1> QED BY <1>5, <1>6, <1>7, Zenon DEF t

\* Its request is no longer in the channel.
LEMMA BlocksOfTail ==
    ASSUME NEW chan \in Seq(Block \X BOOLEAN), chan # <<>>
    PROVE  /\ BlocksOf(chan) \in Seq(Block) /\ BlocksOf(chan) # <<>>
           /\ Head(BlocksOf(chan)) = chan[1][1] /\ Head(chan)[1] = chan[1][1]
           /\ chan[1][1] \in Range(BlocksOf(chan))
           /\ BlocksOf(Tail(chan)) = Tail(BlocksOf(chan))
           /\ Range(BlocksOf(Tail(chan))) \subseteq Range(BlocksOf(chan))
<1> DEFINE s == BlocksOf(chan)
<1>1. /\ s \in Seq(Block) /\ Len(s) = Len(chan) /\ Len(chan) \in Nat \ {0}
      /\ \A i \in 1 .. Len(chan) : s[i] = chan[i][1]
  BY BlocksOfChannel
<1>2. /\ Tail(chan) \in Seq(Block \X BOOLEAN) /\ Len(Tail(chan)) = Len(chan) - 1
      /\ \A i \in 1 .. Len(chan) - 1 : Tail(chan)[i] = chan[i + 1]
  OBVIOUS
<1>3. /\ BlocksOf(Tail(chan)) \in Seq(Block) /\ Len(BlocksOf(Tail(chan))) = Len(chan) - 1
      /\ \A i \in 1 .. Len(chan) - 1 : BlocksOf(Tail(chan))[i] = Tail(chan)[i][1]
  <2>1. /\ BlocksOf(Tail(chan)) \in Seq(Block) /\ Len(BlocksOf(Tail(chan))) = Len(Tail(chan))
        /\ \A i \in 1 .. Len(Tail(chan)) : BlocksOf(Tail(chan))[i] = Tail(chan)[i][1]
    BY <1>2, BlocksOfChannel, Zenon
  <2> QED BY <1>2, <2>1, Zenon
<1> HIDE DEF s
<1>4. s # <<>> /\ Head(s) = chan[1][1] /\ Head(chan)[1] = chan[1][1] /\ DOMAIN s = 1 .. Len(chan)
      /\ Tail(s) \in Seq(Block) /\ Len(Tail(s)) = Len(chan) - 1
      /\ \A i \in 1 .. Len(chan) - 1 : Tail(s)[i] = s[i + 1]
  BY <1>1
<1>5. \A i \in 1 .. Len(chan) - 1 : BlocksOf(Tail(chan))[i] = Tail(s)[i] /\ i + 1 \in DOMAIN s
  BY <1>1, <1>2, <1>3, <1>4
<1>6. BlocksOf(Tail(chan)) = Tail(s)
  BY <1>1, <1>3, <1>4, <1>5
<1>7. chan[1][1] \in Range(s)
  BY <1>1, <1>4 DEF Range
<1>8. Range(Tail(s)) \subseteq Range(s)
  BY <1>1, <1>4, <1>5 DEF Range
<1>9. Range(BlocksOf(Tail(chan))) \subseteq Range(s)
  BY <1>6, <1>8, Zenon
<1> QED BY <1>1, <1>4, <1>6, <1>7, <1>9, Zenon DEF s

\* A checkpoint verified block is written, or refused.
LEMMA WriteFinalizedKeeps ==
    ASSUME IInv, WriteFinalized
    PROVE  IInv'
<1>0. /\ UNCHANGED <<pc, work, blocks, by_parent, by_height, f_queue, f_open, last_sent, sent,
                     curr_buf, bufs, utxo, n_chan, writer, chains, errors, asked, dropped>>
      /\ writer = "checkpoint" /\ f_chan # <<>> /\ ~dropped
      /\ answered' = Answer({Head(f_chan)[1]}) /\ f_chan' = Tail(f_chan)
  BY Zenon DEF WriteFinalized, serviceVars, queueVars, finalizedVars, sentVars
<1>1. TypeOK
  BY Zenon DEF IInv
<1>2. f_chan \in Seq(Block \X BOOLEAN) /\ tip \in Block /\ resets \in Seq(Block)
  BY <1>1, Zenon DEF TypeOK
<1>3. PICK b : b = f_chan[1][1] /\ b \in Block /\ Head(f_chan)[1] = b /\ Head(BlocksOf(f_chan)) = b
                /\ b \in Range(BlocksOf(f_chan))
  <2>1. f_chan[1][1] \in Block
    BY <1>0, <1>2, BlocksOfChannel
  <2> QED BY <1>0, <1>2, <2>1, BlocksOfTail, Zenon
<1>4. \/ /\ Height[b] = Height[tip] + 1 /\ tip' = b /\ db' = db \cup {b} /\ resets' = resets
      \/ /\ Height[b] = Height[tip] + 1 /\ tip' = tip /\ db' = db /\ resets' = Append(resets, tip)
      \/ /\ Height[b] # Height[tip] + 1 /\ tip' = tip /\ db' = db /\ resets' = resets
  BY <1>3, Zenon DEF WriteFinalized
<1>5. PICK k \in 0 .. Len(f_chan) :
        /\ Continues(f_chan, k, tip) /\ Leads(f_chan, k, tip, last_sent, resets)
        /\ ~f_open => k = Len(f_chan)
  BY <1>0, Zenon DEF IInv, ChannelInv
<1>6. /\ Height[b] = Height[tip] + 1 <=> k = 0
      /\ k # 0 => k - 1 \in 0 .. Len(f_chan') /\ Continues(f_chan', k - 1, tip)
      /\ k = 0 => Continues(f_chan', 0, b) /\ Continues(f_chan', Len(f_chan'), tip)
  <2>1. /\ Height[f_chan[1][1]] = Height[tip] + 1 <=> k = 0
        /\ k # 0 => k - 1 \in 0 .. Len(Tail(f_chan)) /\ Continues(Tail(f_chan), k - 1, tip)
        /\ k = 0 => /\ Continues(Tail(f_chan), 0, f_chan[1][1])
                    /\ Continues(Tail(f_chan), Len(Tail(f_chan)), tip)
    BY <1>0, <1>2, <1>5, ChannelTail, Zenon
  <2> QED BY <1>0, <1>3, <2>1, Zenon
<1>7. Len(f_chan) \in Nat \ {0} /\ Len(f_chan') = Len(f_chan) - 1 /\ f_chan' \in Seq(Block \X BOOLEAN)
  BY <1>0, <1>2
<1>8. tip' # tip => f_open /\ tip' = b /\ k = 0 /\ resets' = resets /\ db' = db \cup {b}
  BY <1>4, <1>5, <1>6, <1>7, Zenon
<1>9. tip' = tip => db' \subseteq db \cup {b} /\ (db' # db => f_open)
  BY <1>4, <1>5, <1>6, <1>7, Zenon
<1>10. Range(BlocksOf(f_chan')) \subseteq Range(BlocksOf(f_chan))
       /\ BlocksOf(f_chan') = Tail(BlocksOf(f_chan)) /\ BlocksOf(f_chan) \in Seq(Block)
       /\ BlocksOf(f_chan) # <<>>
  BY <1>0, <1>2, BlocksOfTail, Zenon
<1>11. /\ answered' \in [Block -> Nat]
       /\ \A x \in Block : answered'[x] = answered[x] + IF x = b THEN 1 ELSE 0
  <2>1. /\ answered' \in [Block -> Nat]
        /\ \A x \in Block : answered'[x] = answered[x] + IF x \in {b} THEN 1 ELSE 0
    BY <1>0, <1>1, <1>3, AnswerCounts, Zenon
  <2> QED BY <2>1, Zenon
<1>12. TypeOK'
  <2>1. tip' \in Block /\ resets' \in Seq(Block)
    <3>1. Append(resets, tip) \in Seq(Block)
      BY <1>2
    <3> QED BY <1>2, <1>3, <1>4, <3>1, Zenon
  <2>2. db' \subseteq Block
    BY <1>1, <1>3, <1>4 DEF TypeOK
  <2> QED BY <1>0, <1>1, <1>7, <1>11, <2>1, <2>2, Zenon DEF TypeOK
<1>13. QueueInv' /\ ServiceInv'
  BY <1>0, Zenon DEF IInv, QueueInv, ServiceInv
<1>14. f_open => n_chan = <<>> /\ Range(n_chan) = {}
  BY DEF IInv, PhaseInv, Range
<1>15. PhaseInv'
  <2>1. tip' \in Checkpoints \cup {Genesis} /\ chains' = {}
    BY <1>0, <1>3, <1>4, Zenon DEF IInv, PhaseInv
  <2>2. ~f_open => tip' = tip
    BY <1>8, Zenon
  <2> QED BY <1>0, <1>10, <2>1, <2>2, Zenon DEF IInv, PhaseInv
<1>16. ChannelInv'
  <2>1. CASE k # 0
    <3>1. tip' = tip /\ resets' = resets
      BY <1>4, <1>6, <2>1, Zenon
    <3>2. Leads(f_chan', k - 1, tip, last_sent, resets) /\ (~f_open => k - 1 = Len(f_chan'))
      <4>1. Len(f_chan') - (k - 1) = Len(f_chan) - k /\ (k = Len(f_chan) => k - 1 = Len(f_chan'))
        BY <1>5, <1>7
      <4> QED BY <1>5, <4>1, Zenon DEF Leads
    <3> QED BY <1>0, <1>6, <2>1, <3>1, <3>2, Zenon DEF ChannelInv
  <2>2. CASE k = 0
    <3>1. f_open /\ resets = <<>> /\ Height[last_sent] = Height[tip] + Len(f_chan)
      BY <1>5, <1>7, <2>2 DEF Leads
    <3>2. 0 \in 0 .. Len(f_chan') /\ Len(f_chan') \in 0 .. Len(f_chan')
      BY <1>7
    <3>3. CASE tip' = b /\ resets' = resets
      <4>1. Height[last_sent] = Height[b] + (Len(f_chan') - 0)
        <5>1. Height[tip] \in Nat /\ Height[b] = Height[tip] + 1
          BY <1>2, <1>6, <2>2, HeightsAreNatural, Zenon
        <5> QED BY <1>7, <3>1, <5>1
      <4>2. Leads(f_chan', 0, b, last_sent, resets')
        BY <3>1, <3>3, <4>1, Zenon DEF Leads
      <4> QED BY <1>0, <1>6, <2>2, <3>1, <3>2, <3>3, <4>2, Zenon DEF ChannelInv
    <3>4. CASE tip' = tip /\ resets' = Append(resets, tip)
      <4>1. resets' = <<tip>>
        BY <3>1, <3>4
      <4>2. Leads(f_chan', Len(f_chan'), tip, last_sent, resets')
        BY <4>1, Zenon DEF Leads
      <4> QED BY <1>0, <1>6, <2>2, <3>1, <3>2, <3>4, <4>2, Zenon DEF ChannelInv
    <3> QED BY <1>4, <1>6, <2>2, <3>3, <3>4, Zenon
  <2> QED BY <2>1, <2>2, Zenon
<1>17. SentInv'
  <2>1. ~f_open => tip' = tip
    BY <1>8, Zenon
  <2>2. \A x \in Range(n_chan) : Settled(x) /\ tip' = tip
    BY <1>14, <2>1, Zenon DEF IInv, SentInv
  <2> QED BY <1>0, <1>10, <2>2, Zenon DEF IInv, SentInv, Settled
<1>18. ClosedInv' /\ ReadyInv'
  BY <1>0, <1>8, Zenon DEF IInv, ClosedInv, Out, Clear, Settled, ReadyInv
<1>19. OrderInv'
  BY <1>0, Zenon DEF IInv, OrderInv
<1>20. UtxoInv'
  <2>1. ASSUME NEW x \in Awaited, utxo[x] = "waiting", x \in db' PROVE Exempt(x) \/ x \in db
    <3>1. CASE x # b
      BY <1>4, <2>1, <3>1
    <3>2. CASE x = b /\ db' = db
      BY <2>1, <3>2, Zenon
    <3>3. CASE x = b /\ db' # db
      <4>1. f_open
        BY <1>8, <1>9, <3>3, Zenon
      <4>2. Height[b] >= full_verifier_utxo_lookahead => b \in sent
        BY <1>3, <4>1, Zenon DEF IInv, SentInv
      <4>3. b \in Checkpoints
        BY <1>3, Zenon DEF IInv, PhaseInv
      <4>4. Height[b] \in Nat /\ full_verifier_utxo_lookahead \in Nat
        BY <1>3, QueueAssumption, Zenon
      <4>5. b \in sent => Exempt(b)
        BY <2>1, <3>3, Zenon DEF IInv, UtxoInv
      <4> QED BY <3>3, <4>2, <4>3, <4>4, <4>5 DEF Exempt
    <3> QED BY <3>1, <3>2, <3>3, Zenon
  <2> QED BY <1>0, <2>1, Zenon DEF IInv, UtxoInv, Exempt
<1>21. RequestsAreAccounted'
  <2>1. ASSUME NEW x \in Block PROVE asked'[x] - answered'[x] = Owed(x)'
    <3>1. asked[x] - answered[x] = Owed(x)
      BY OwedIsCounted, Zenon DEF IInv
    <3>2. InChannel(x, BlocksOf(f_chan)) = InChannel(x, BlocksOf(f_chan')) + IF x = b THEN 1 ELSE 0
      BY <1>3, <1>10, InTail, Zenon
    <3>3. InChannel(x, BlocksOf(f_chan')) \in Nat
      BY <1>7, BlocksOfChannel, PlacesAreFinite, Zenon
    <3>4. asked[x] \in Nat /\ answered[x] \in Nat /\ InChannel(x, n_chan) \in Nat
      BY <1>1, Counts, Zenon
    <3>5. asked'[x] = asked[x] /\ answered'[x] = answered[x] + IF x = b THEN 1 ELSE 0
      BY <1>0, <1>11, Zenon
    <3>6. Owed(x)' = (IF x \in blocks THEN 1 ELSE 0) + (IF x \in DOMAIN f_queue THEN 1 ELSE 0)
                     + InChannel(x, n_chan) + InChannel(x, BlocksOf(f_chan'))
      BY <1>0, Zenon DEF Owed
    <3>7. Owed(x) = Owed(x)' + IF x = b THEN 1 ELSE 0
      BY <3>2, <3>3, <3>4, <3>6 DEF Owed
    <3>8. Owed(x)' \in Nat
      BY <3>3, <3>4, <3>6
    <3> HIDE DEF Owed
    <3> QED BY <3>1, <3>4, <3>5, <3>7, <3>8
  <2> QED BY <2>1, OwedIsCounted, Zenon
<1> QED BY <1>12, <1>13, <1>15, <1>16, <1>17, <1>18, <1>19, <1>20, <1>21, Zenon DEF IInv

\* The head of the other channel.
LEMMA SequenceTail ==
    ASSUME NEW s \in Seq(Block), s # <<>>
    PROVE  /\ Head(s) \in Range(s) /\ Range(Tail(s)) \subseteq Range(s) /\ Tail(s) \in Seq(Block)
           /\ DOMAIN Tail(s) = 1 .. Len(s) - 1 /\ DOMAIN s = 1 .. Len(s) /\ Len(s) \in Nat
           /\ \A i \in 1 .. Len(s) - 1 : Tail(s)[i] = s[i + 1]
           /\ Range(s) \subseteq Block
<1>1. /\ Head(s) = s[1] /\ Tail(s) \in Seq(Block) /\ DOMAIN Tail(s) = 1 .. Len(s) - 1
      /\ DOMAIN s = 1 .. Len(s) /\ Len(s) \in Nat \ {0}
      /\ \A i \in 1 .. Len(s) - 1 : Tail(s)[i] = s[i + 1]
      /\ \A i \in 1 .. Len(s) : s[i] \in Block
  OBVIOUS
<1> QED BY <1>1 DEF Range

\* A semantically verified block is committed or rejected.
LEMMA WriteBlockKeeps ==
    ASSUME IInv, WriteBlock
    PROVE  IInv'
<1>0. /\ UNCHANGED <<pc, work, blocks, by_parent, by_height, f_queue, f_open, last_sent, sent,
                     curr_buf, bufs, utxo, f_chan, resets, writer, tip, db, asked, dropped>>
      /\ writer = "blocks" /\ n_chan # <<>>
      /\ answered' = Answer({Head(n_chan)}) /\ n_chan' = Tail(n_chan)
  BY Zenon DEF WriteBlock, serviceVars, queueVars, finalizedVars, sentVars
<1>1. TypeOK
  BY Zenon DEF IInv
<1>2. n_chan \in Seq(Block) /\ tip \in Block /\ chains \subseteq Block /\ errors \subseteq Block
  BY <1>1, Zenon DEF TypeOK
<1>3. /\ n_chan' \in Seq(Block) /\ DOMAIN n_chan' = 1 .. Len(n_chan) - 1
      /\ DOMAIN n_chan = 1 .. Len(n_chan) /\ Len(n_chan) \in Nat
      /\ \A i \in 1 .. Len(n_chan) - 1 : n_chan'[i] = n_chan[i + 1]
      /\ Range(n_chan') \subseteq Range(n_chan) /\ Head(n_chan) \in Range(n_chan)
      /\ Range(n_chan) \subseteq Block
  BY <1>0, <1>2, SequenceTail, Zenon
<1>4. PICK b \in Block : b = Head(n_chan) /\ b \in Range(n_chan) /\ b \in FullyVerified
  BY <1>3, Zenon DEF IInv, PhaseInv
<1>5. \/ chains' = chains \cup {b} /\ errors' = errors /\ Parent[b] \in chains \cup {tip}
      \/ chains' = chains /\ errors' = errors \cup {b}
  BY <1>4, Zenon DEF WriteBlock
<1>6. b \in chains' /\ b \notin chains => Height[b] > Height[tip]
  <2> SUFFICES ASSUME Parent[b] \in chains \cup {tip} PROVE Height[b] > Height[tip]
    BY <1>5, Zenon
  <2>1. Parent[b] \in Block /\ Height[b] = Height[Parent[b]] + 1
    BY <1>4, AncestorsOfChild, Zenon
  <2>2. Height[Parent[b]] \in Nat /\ Height[tip] \in Nat
    BY <1>2, <2>1, HeightsAreNatural, Zenon
  <2>3. Height[Parent[b]] >= Height[tip]
    BY <2>2 DEF IInv, PhaseInv
  <2> QED BY <2>1, <2>2, <2>3
<1>7. /\ answered' \in [Block -> Nat]
      /\ \A x \in Block : answered'[x] = answered[x] + IF x = b THEN 1 ELSE 0
  <2>1. /\ answered' \in [Block -> Nat]
        /\ \A x \in Block : answered'[x] = answered[x] + IF x \in {b} THEN 1 ELSE 0
    BY <1>0, <1>1, <1>4, AnswerCounts, Zenon
  <2> QED BY <2>1, Zenon
<1>8. TypeOK'
  <2>1. chains' \subseteq Block /\ errors' \subseteq Block
    BY <1>2, <1>5, Zenon
  <2> QED BY <1>0, <1>1, <1>3, <1>7, <2>1, Zenon DEF TypeOK
<1>9. QueueInv' /\ ServiceInv'
  BY <1>0, Zenon DEF IInv, QueueInv, ServiceInv
<1>10. PhaseInv'
  <2>1. \A x \in chains' : Height[x] > Height[tip]
    BY <1>5, <1>6 DEF IInv, PhaseInv
  <2> QED BY <1>0, <1>3, <2>1, Zenon DEF IInv, PhaseInv
<1>11. ChannelInv'
  BY <1>0, Zenon DEF ChannelInv
<1>12. SentInv'
  BY <1>0, <1>3, Zenon DEF IInv, SentInv, Settled
<1>13. ClosedInv'
  <2>1. Out' \subseteq Out
    BY <1>0, <1>3, <1>4, <1>5, Zenon DEF Out
  <2> QED BY <1>0, <2>1, Zenon DEF IInv, ClosedInv, Clear, Settled
<1>14. OrderInv'
  <2> SUFFICES ASSUME NEW i \in DOMAIN n_chan', NEW j \in DOMAIN n_chan',
                      n_chan'[j] \in Ancestors[n_chan'[i]]
               PROVE  j < i
    BY Zenon DEF OrderInv
  <2>1. /\ i + 1 \in DOMAIN n_chan /\ j + 1 \in DOMAIN n_chan /\ i \in Nat /\ j \in Nat
        /\ n_chan'[i] = n_chan[i + 1] /\ n_chan'[j] = n_chan[j + 1]
    BY <1>3
  <2>2. j + 1 < i + 1
    BY <2>1, Zenon DEF IInv, OrderInv
  <2> QED BY <2>1, <2>2
<1>15. ReadyInv'
  BY <1>0, Zenon DEF IInv, ReadyInv
<1>16. UtxoInv'
  <2>1. ASSUME NEW x \in Awaited, utxo[x] = "waiting", x \in chains' PROVE Exempt(x) \/ x \in chains
    <3>1. CASE x # b
      BY <1>5, <2>1, <3>1, Zenon
    <3>2. CASE x = b
      <4> SUFFICES ASSUME b \notin chains PROVE Exempt(b)
        BY <3>2, Zenon
      <4>1. ~(Height[b] <= Height[tip])
        <5>1. Height[b] \in Nat /\ Height[tip] \in Nat /\ Height[b] > Height[tip]
          BY <1>2, <1>4, <1>6, <2>1, <3>2, HeightsAreNatural, Zenon
        <5> QED BY <5>1
      <4>2. b \in sent
        BY <1>4, <4>1, Zenon DEF IInv, SentInv, Settled
      <4> QED BY <2>1, <3>2, <4>2, Zenon DEF IInv, UtxoInv
    <3> QED BY <3>1, <3>2, Zenon
  <2> QED BY <1>0, <2>1, Zenon DEF IInv, UtxoInv, Exempt
<1>17. RequestsAreAccounted'
  <2>1. ASSUME NEW x \in Block PROVE asked'[x] - answered'[x] = Owed(x)'
    <3>1. asked[x] - answered[x] = Owed(x)
      BY OwedIsCounted, Zenon DEF IInv
    <3>2. InChannel(x, n_chan) = InChannel(x, n_chan') + IF x = b THEN 1 ELSE 0
      BY <1>0, <1>2, <1>4, InTail, Zenon
    <3>3. InChannel(x, n_chan') \in Nat
      BY <1>3, PlacesAreFinite, Zenon
    <3>4. asked[x] \in Nat /\ answered[x] \in Nat /\ InChannel(x, BlocksOf(f_chan)) \in Nat
      BY <1>1, Counts, Zenon
    <3>5. asked'[x] = asked[x] /\ answered'[x] = answered[x] + IF x = b THEN 1 ELSE 0
      BY <1>0, <1>7, Zenon
    <3>6. Owed(x)' = (IF x \in blocks THEN 1 ELSE 0) + (IF x \in DOMAIN f_queue THEN 1 ELSE 0)
                     + InChannel(x, n_chan') + InChannel(x, BlocksOf(f_chan))
      BY <1>0, Zenon DEF Owed
    <3>7. Owed(x) = Owed(x)' + IF x = b THEN 1 ELSE 0
      BY <3>2, <3>3, <3>4, <3>6 DEF Owed
    <3>8. Owed(x)' \in Nat
      BY <3>3, <3>4, <3>6
    <3> HIDE DEF Owed
    <3> QED BY <3>1, <3>4, <3>5, <3>7, <3>8
  <2> QED BY <2>1, OwedIsCounted, Zenon
<1> QED BY <1>8, <1>9, <1>10, <1>11, <1>12, <1>13, <1>14, <1>15, <1>16, <1>17, Zenon DEF IInv

\* A block is finalized.
LEMMA FinalizeKeeps ==
    ASSUME IInv, NEW c \in Block, Finalize(c)
    PROVE  IInv'
<1>0. /\ UNCHANGED <<pc, work, blocks, by_parent, by_height, f_queue, f_open, last_sent, sent,
                     curr_buf, bufs, utxo, f_chan, n_chan, resets, writer, errors, asked,
                     answered, dropped>>
      /\ writer = "blocks" /\ c \in chains /\ Parent[c] = tip
      /\ tip' = c /\ db' = db \cup {c} /\ chains' = {x \in chains : c \in Ancestors[x]}
  BY Zenon DEF Finalize, serviceVars, queueVars, finalizedVars, sentVars
<1>1. TypeOK
  BY Zenon DEF IInv
<1>2. tip \in Block /\ chains \subseteq Block /\ db \subseteq Block /\ blocks \subseteq Block
  BY <1>1, Zenon DEF TypeOK
<1>3. Height[c] \in Nat /\ Height[tip] \in Nat /\ Height[tip] < Height[c]
  BY <1>0, <1>2, HeightsAreNatural, Zenon DEF IInv, PhaseInv
<1>4. ASSUME NEW x \in Block, Height[x] <= Height[tip] PROVE Height[x] <= Height[c]
  <2>1. Height[x] \in Nat
    BY HeightsAreNatural, Zenon
  <2> QED BY <1>3, <1>4, <2>1
<1>5. TypeOK'
  <2>1. db' \subseteq Block /\ chains' \subseteq Block /\ tip' \in Block
    BY <1>0, <1>2, Zenon
  <2> QED BY <1>0, <1>1, <2>1, Zenon DEF TypeOK
<1>6. QueueInv' /\ ServiceInv'
  BY <1>0, Zenon DEF IInv, QueueInv, ServiceInv
<1>7. PhaseInv'
  <2>1. \A x \in chains' : Height[x] > Height[c]
    BY <1>0, <1>2, <1>3, AncestorsAreLower, HeightsAreNatural, Zenon
  <2>2. Checkpoints \subseteq Block
    BY QueueAssumption, Zenon
  <2> QED BY <1>0, <1>4, <2>1, <2>2, Zenon DEF IInv, PhaseInv
<1>8. ChannelInv'
  BY <1>0, Zenon DEF ChannelInv
<1>9. \A x \in Block : Settled(x) => Settled(x)'
  BY <1>0, <1>4, Zenon DEF Settled
<1>10. SentInv'
  <2>1. \A x \in Range(n_chan) : Settled(x)'
    <3>1. Range(n_chan) \subseteq Block
      BY Zenon DEF IInv, PhaseInv, FullyVerified
    <3> QED BY <1>9, <3>1, Zenon DEF IInv, SentInv
  <2> QED BY <1>0, <2>1, Zenon DEF IInv, SentInv
<1>11. Out' \subseteq Out /\ Out \subseteq Block
  <2>1. Out' \subseteq Out
    BY <1>0, Zenon DEF Out
  <2>2. Range(n_chan) \subseteq Block /\ Range(work) \subseteq Block /\ sent \subseteq Block
    <3>1. work \in Seq(Block) /\ sent \subseteq Block
      BY <1>1, Zenon DEF TypeOK
    <3> QED BY <3>1 DEF IInv, PhaseInv, FullyVerified, Range
  <2> QED BY <1>2, <2>1, <2>2, Zenon DEF Out
<1>12. ClosedInv'
  <2> SUFFICES ASSUME ~f_open, ~dropped, NEW p \in Out
               PROVE  Clear(p)' /\ \A a \in Ancestors[p] : Clear(a)'
    BY <1>0, <1>11, Zenon DEF ClosedInv
  <2>1. Clear(p) /\ \A a \in Ancestors[p] : Clear(a)
    BY Zenon DEF IInv, ClosedInv
  <2>2. \A a \in Ancestors[p] : a \in Block
    BY <1>11, AncestorsAreLower, Zenon
  <2> QED BY <1>0, <1>9, <1>11, <2>1, <2>2, Zenon DEF Clear
<1>13. OrderInv'
  BY <1>0, Zenon DEF IInv, OrderInv
<1>14. ReadyInv'
  <2> SUFFICES ASSUME ~f_open, ~dropped, NEW b \in blocks, Parent[b] \in sent \cup {c}
               PROVE  Height[b] <= Height[c] \/ Parent[b] \in Range(work) \/ pc = b
    BY <1>0, Zenon DEF ReadyInv
  <2>1. c \in sent
    <3>1. c \in Out
      BY <1>0, Zenon DEF Out
    <3>2. Settled(c)
      BY <3>1, Zenon DEF IInv, ClosedInv, Clear
    <3> QED BY <1>3, <3>2 DEF Settled
  <2>2. Height[b] <= Height[tip] \/ Parent[b] \in Range(work) \/ pc = b
    BY <2>1, Zenon DEF IInv, ReadyInv
  <2> QED BY <1>2, <1>4, <2>2, Zenon
<1>15. UtxoInv'
  BY <1>0, Zenon DEF IInv, UtxoInv, Exempt
<1>16. RequestsAreAccounted'
  BY <1>0, Zenon DEF IInv, RequestsAreAccounted
<1> QED BY <1>5, <1>6, <1>7, <1>8, <1>10, <1>12, <1>13, <1>14, <1>15, <1>16, Zenon DEF IInv

-----------------------------------------------------------------------------
\* What is finalized is pruned.
LEMMA PruneByHeightKeeps ==
    ASSUME IInv, PruneByHeight
    PROVE  IInv'
<1> DEFINE expiredSet == UNION {by_height[h] : h \in {x \in Heights : x <= Height[tip]}}
<1>0. /\ UNCHANGED <<work, f_queue, f_open, last_sent, curr_buf, utxo, f_chan, n_chan, resets,
                     writer, tip, db, chains, errors, asked, dropped>>
      /\ pc = "prune" /\ pc' = "idle"
  BY Zenon DEF PruneByHeight, finalizedVars, writerVars
<1>1. PICK expired :
        /\ expired = expiredSet /\ blocks' = blocks \ expired
        /\ by_parent' = [p \in Block |-> by_parent[p] \ expired]
        /\ by_height' = [h \in Heights |-> IF h <= Height[tip] THEN {} ELSE by_height[h]]
        /\ answered' = Answer(expired)
  BY Zenon DEF PruneByHeight
<1>2. bufs' = Retain(Height[tip]) /\ sent' = sent \cap UNION {Range(buf) : buf \in bufs'}
  BY Zenon DEF PruneByHeight
<1>3. TypeOK
  BY Zenon DEF IInv
<1>4. /\ tip \in Block /\ Height[tip] \in Nat /\ bufs \subseteq Seq(Block) \ {<<>>} /\ blocks \subseteq Block
      /\ by_parent \in [Block -> SUBSET Block] /\ by_height \in [Heights -> SUBSET Block]
      /\ sent \subseteq Block
  BY <1>3, HeightsAreNatural, Zenon DEF TypeOK
<1>5. /\ curr_buf = <<>> /\ Range(curr_buf) = {} /\ work = <<>> /\ Range(work) = {} /\ ~f_open
      /\ ~dropped /\ pc \notin Block /\ pc' \notin Block
  BY <1>0, QueueAssumption DEF IInv, ServiceInv, Range
<1>6. expired \subseteq blocks /\ \A x \in expired : Height[x] <= Height[tip]
  <2>1. ASSUME NEW x \in expired PROVE x \in blocks /\ Height[x] <= Height[tip]
    <3>1. PICK h \in Heights : h <= Height[tip] /\ x \in by_height[h]
      BY <1>1, Zenon
    <3>2. x \in blocks /\ Height[x] = h
      BY <3>1, Zenon DEF IInv, QueueInv
    <3> QED BY <3>1, <3>2, Zenon
  <2> QED BY <2>1, Zenon
<1>7. /\ answered' \in [Block -> Nat]
      /\ \A x \in Block : answered'[x] = answered[x] + IF x \in expired THEN 1 ELSE 0
  BY <1>1, <1>3, AnswerCounts, Zenon
<1>8. \A buf \in bufs : /\ PruneBatch(buf, Height[tip]) \in Seq(Block)
                        /\ \A x \in Range(buf) : Height[x] > Height[tip] =>
                                x \in Range(PruneBatch(buf, Height[tip]))
  BY <1>4, PruneKeepsHigh, Zenon
<1>9. bufs' \subseteq Seq(Block) \ {<<>>}
  BY <1>2, <1>8, Zenon DEF Retain
<1>10. TypeOK'
  <2>1. /\ blocks' \subseteq Block /\ sent' \subseteq Block
        /\ by_parent' \in [Block -> SUBSET Block] /\ by_height' \in [Heights -> SUBSET Block]
    BY <1>1, <1>2, <1>4, Zenon
  <2> QED BY <1>0, <1>3, <1>7, <1>9, <2>1, Zenon DEF TypeOK
<1>11. QueueInv'
  <2>1. IsFiniteSet(blocks') /\ blocks' \subseteq FullyVerified
    <3>1. IsFiniteSet(blocks) /\ blocks \subseteq FullyVerified
      BY Zenon DEF IInv, QueueInv
    <3> QED BY <1>1, <3>1, FS_Subset, Zenon
  <2>2. ASSUME NEW p \in Block PROVE by_parent'[p] = {x \in blocks' : Parent[x] = p}
    <3>1. by_parent[p] = {x \in blocks : Parent[x] = p}
      BY Zenon DEF IInv, QueueInv
    <3>2. by_parent'[p] = by_parent[p] \ expired
      BY <1>1, Zenon
    <3> QED BY <1>1, <3>1, <3>2, Zenon
  <2>3. ASSUME NEW h \in Heights PROVE by_height'[h] \subseteq {x \in blocks' : Height[x] = h}
    <3>1. by_height[h] \subseteq {x \in blocks : Height[x] = h}
      BY Zenon DEF IInv, QueueInv
    <3>2. by_height'[h] = IF h <= Height[tip] THEN {} ELSE by_height[h]
      BY <1>1, Zenon
    <3> QED BY <1>1, <1>6, <3>1, <3>2, Zenon
  <2> QED BY <1>0, <2>1, <2>2, <2>3, Zenon DEF IInv, QueueInv
<1>12. ServiceInv'
  BY <1>0, <1>5, Zenon DEF ServiceInv
<1>13. PhaseInv' /\ ChannelInv' /\ OrderInv'
  BY <1>0, Zenon DEF IInv, PhaseInv, ChannelInv, OrderInv
<1>14. \A x \in Block : Settled(x) => Settled(x)'
  <2> SUFFICES ASSUME NEW x \in Block, x \in sent, ~(Height[x] <= Height[tip]) PROVE x \in sent'
    BY <1>0, Zenon DEF Settled
  <2>1. Height[x] > Height[tip]
    BY <1>4, HeightsAreNatural
  <2>2. PICK buf \in bufs : x \in Range(buf)
    BY <1>5, Zenon DEF IInv, SentInv
  <2>3. x \in Range(PruneBatch(buf, Height[tip]))
    BY <1>8, <2>1, <2>2, Zenon
  <2>4. PruneBatch(buf, Height[tip]) # <<>>
    BY <2>3 DEF Range
  <2>5. PruneBatch(buf, Height[tip]) \in bufs'
    BY <1>2, <2>4, Zenon DEF Retain
  <2> QED BY <1>2, <2>3, <2>5, Zenon
<1>15. SentInv'
  <2>1. \A x \in Range(n_chan) : Settled(x)'
    <3>1. Range(n_chan) \subseteq Block
      BY Zenon DEF IInv, PhaseInv, FullyVerified
    <3> QED BY <1>14, <3>1, Zenon DEF IInv, SentInv
  <2>2. sent' \subseteq Range(curr_buf') \cup UNION {Range(buf) : buf \in bufs'}
    BY <1>2, Zenon
  <2> QED BY <1>0, <1>5, <2>1, <2>2, Zenon DEF SentInv
<1>16. ClosedInv'
  <2>1. Out' \subseteq Out /\ Out \subseteq Block
    <3>1. Range(n_chan) \subseteq Block /\ chains \subseteq Block
      BY <1>3, Zenon DEF IInv, PhaseInv, FullyVerified, TypeOK
    <3> QED BY <1>0, <1>2, <1>4, <1>5, <3>1, Zenon DEF Out
  <2> SUFFICES ASSUME NEW p \in Out
               PROVE  Clear(p)' /\ \A a \in Ancestors[p] : Clear(a)'
    BY <2>1, Zenon DEF ClosedInv
  <2>2. Clear(p) /\ \A a \in Ancestors[p] : Clear(a)
    BY <1>5, Zenon DEF IInv, ClosedInv
  <2>3. p \in Block /\ \A a \in Ancestors[p] : a \in Block
    BY <2>1, AncestorsAreLower, Zenon
  <2> QED BY <1>1, <1>14, <2>2, <2>3, Zenon DEF Clear
<1>17. ReadyInv'
  BY <1>0, <1>1, <1>2, <1>4, <1>5, Zenon DEF IInv, ReadyInv
<1>18. UtxoInv'
  BY <1>0, <1>1, <1>2, Zenon DEF IInv, UtxoInv, Exempt
<1>19. RequestsAreAccounted'
  <2>1. ASSUME NEW x \in Block PROVE asked'[x] - answered'[x] = Owed(x)'
    <3>1. asked[x] - answered[x] = Owed(x)
      BY OwedIsCounted, Zenon DEF IInv
    <3>2. /\ asked[x] \in Nat /\ answered[x] \in Nat /\ InChannel(x, BlocksOf(f_chan)) \in Nat
          /\ InChannel(x, n_chan) \in Nat
      BY <1>3, Counts, Zenon
    <3>3. asked'[x] = asked[x] /\ answered'[x] = answered[x] + IF x \in expired THEN 1 ELSE 0
      BY <1>0, <1>7, Zenon
    <3>4. Owed(x)' = (IF x \in blocks' THEN 1 ELSE 0) + (IF x \in DOMAIN f_queue THEN 1 ELSE 0)
                     + InChannel(x, n_chan) + InChannel(x, BlocksOf(f_chan))
      BY <1>0, Zenon DEF Owed
    <3>5. x \in blocks' <=> x \in blocks /\ x \notin expired
      BY <1>1, Zenon
    <3>6. Owed(x) = Owed(x)' + IF x \in expired THEN 1 ELSE 0
      BY <1>6, <3>2, <3>4, <3>5 DEF Owed
    <3>7. Owed(x)' \in Nat
      BY <3>2, <3>4
    <3> HIDE DEF Owed
    <3> QED BY <3>1, <3>2, <3>3, <3>6, <3>7
  <2> QED BY <2>1, OwedIsCounted, Zenon
<1> QED BY <1>10, <1>11, <1>12, <1>13, <1>15, <1>16, <1>17, <1>18, <1>19, Zenon DEF IInv

\* The hand over to full verification.
LEMMA HandOverKeeps ==
    ASSUME IInv, HandOver
    PROVE  IInv'
<1>0. /\ UNCHANGED <<blocks, by_parent, by_height, last_sent, utxo, f_chan, n_chan, resets,
                     writer, tip, db, chains, errors, asked, dropped>>
      /\ pc \in Block /\ f_open /\ by_parent[last_sent] # {} /\ tip = last_sent
      /\ f_open' = FALSE /\ sent' = {} /\ curr_buf' = <<>> /\ bufs' = {}
      /\ answered' = Answer(DOMAIN f_queue) /\ f_queue' = <<>>
      /\ work' = <<last_sent>> /\ pc' = "handover"
  BY Zenon DEF HandOver, CheckpointsAreDone, queueVars, writerVars
<1>1. TypeOK
  BY Zenon DEF IInv
<1>2. tip \in Block /\ last_sent \in Block /\ Height[tip] \in Nat
  BY <1>1, HeightsAreNatural, Zenon DEF TypeOK
<1>3. DOMAIN f_queue' = {} /\ f_queue' \in [DOMAIN f_queue' -> BOOLEAN]
  BY <1>0
<1>4. /\ answered' \in [Block -> Nat]
      /\ \A b \in Block : answered'[b] = answered[b] + IF b \in DOMAIN f_queue THEN 1 ELSE 0
  BY <1>0, <1>1, AnswerCounts, Zenon
<1>5. /\ writer = "checkpoint" /\ n_chan = <<>> /\ Range(n_chan) = {} /\ chains = {} /\ ~dropped
      /\ tip \in Checkpoints \cup {Genesis} /\ blocks \subseteq FullyVerified
  BY <1>0 DEF IInv, PhaseInv, ServiceInv, Range, QueueInv
<1>6. Range(work') = {tip} /\ Range(curr_buf') = {} /\ work' \in Seq(Block)
  BY <1>0, <1>2 DEF Range
<1>7. TypeOK'
  <2>1. curr_buf' \in Seq(Block) /\ bufs' \subseteq Seq(Block) \ {<<>>} /\ sent' \subseteq Block
    BY <1>0
  <2> QED BY <1>0, <1>1, <1>3, <1>4, <1>6, <2>1, Zenon DEF TypeOK
<1>8. QueueInv'
  BY <1>0, <1>3, FS_EmptySet, Zenon DEF IInv, QueueInv
<1>9. ServiceInv'
  BY <1>0, <1>5, QueueAssumption, Zenon DEF ServiceInv
<1>10. PhaseInv'
  <2>1. PICK b : b \in blocks /\ Parent[b] = tip
    BY <1>0, <1>2 DEF IInv, QueueInv
  <2>2. b \in FullyVerified /\ Height[b] = Height[tip] + 1
    BY <1>5, <2>1, AncestorsOfChild, Zenon
  <2>3. ASSUME NEW c \in Checkpoints PROVE Height[c] <= Height[tip]
    <3>1. Height[c] < Height[b]
      BY <2>2, RouterAssumption, Zenon DEF FullyVerified
    <3>2. Height[c] \in Nat
      BY QueueAssumption, Zenon
    <3> QED BY <1>2, <2>2, <3>1, <3>2
  <2> QED BY <1>0, <2>3, Zenon DEF IInv, PhaseInv
<1>11. ChannelInv'
  <2>1. PICK k \in 0 .. Len(f_chan) :
          Continues(f_chan, k, tip) /\ Leads(f_chan, k, tip, last_sent, resets)
    BY <1>5, Zenon DEF IInv, ChannelInv
  <2>2. k = Len(f_chan)
    <3>1. Len(f_chan) \in Nat
      BY <1>1, BlocksOfChannel, Zenon DEF TypeOK
    <3> QED BY <1>0, <1>2, <2>1, <3>1 DEF Leads
  <2> QED BY <1>0, <2>1, <2>2, Zenon DEF ChannelInv
<1>12. SentInv'
  BY <1>0, <1>5, Zenon DEF SentInv
<1>13. ClosedInv'
  <2> SUFFICES ASSUME NEW p \in Out' PROVE Clear(p)' /\ \A a \in Ancestors[p] : Clear(a)'
    BY Zenon DEF ClosedInv
  <2>1. p = tip
    BY <1>0, <1>5, <1>6, Zenon DEF Out
  <2>2. Clear(p)'
    BY <1>0, <1>2, <1>5, <2>1 DEF Clear, Settled, FullyVerified
  <2>3. ASSUME NEW a \in Ancestors[p] PROVE Clear(a)'
    <3>1. a \in Checkpoints \cup {Genesis} /\ a \in Block /\ Height[a] < Height[tip]
      BY <1>2, <1>5, <2>1, CheckpointAncestors, AncestorsAreLower, Zenon
    <3>2. Height[a] <= Height[tip]
      BY <1>2, <3>1, HeightsAreNatural
    <3> QED BY <1>0, <1>5, <3>1, <3>2, Zenon DEF Clear, Settled, FullyVerified
  <2> QED BY <2>2, <2>3, Zenon
<1>14. OrderInv'
  BY <1>0, Zenon DEF IInv, OrderInv
<1>15. ReadyInv'
  BY <1>0, <1>6, Zenon DEF ReadyInv
<1>16. UtxoInv'
  BY <1>0, Zenon DEF IInv, UtxoInv
<1>17. RequestsAreAccounted'
  <2>1. ASSUME NEW x \in Block PROVE asked'[x] - answered'[x] = Owed(x)'
    <3>1. asked[x] - answered[x] = Owed(x)
      BY OwedIsCounted, Zenon DEF IInv
    <3>2. /\ asked[x] \in Nat /\ answered[x] \in Nat /\ InChannel(x, BlocksOf(f_chan)) \in Nat
          /\ InChannel(x, n_chan) \in Nat
      BY <1>1, Counts, Zenon
    <3>3. asked'[x] = asked[x] /\ answered'[x] = answered[x] + IF x \in DOMAIN f_queue THEN 1 ELSE 0
      BY <1>0, <1>4, Zenon
    <3>4. Owed(x)' = (IF x \in blocks THEN 1 ELSE 0) + 0
                     + InChannel(x, n_chan) + InChannel(x, BlocksOf(f_chan))
      BY <1>0, <1>3, Zenon DEF Owed
    <3>5. Owed(x) = Owed(x)' + IF x \in DOMAIN f_queue THEN 1 ELSE 0
      BY <3>2, <3>4 DEF Owed
    <3>6. Owed(x)' \in Nat
      BY <3>2, <3>4
    <3> HIDE DEF Owed
    <3> QED BY <3>1, <3>2, <3>3, <3>5, <3>6
  <2> QED BY <2>1, OwedIsCounted, Zenon
<1> QED BY <1>7, <1>8, <1>9, <1>10, <1>11, <1>12, <1>13, <1>14, <1>15, <1>16, <1>17, Zenon DEF IInv

-----------------------------------------------------------------------------
(* Sending what is ready.                                                   *)

\* The elements of two joined sequences.
LEMMA RangeOfConcat ==
    ASSUME NEW S, NEW s \in Seq(S), NEW t \in Seq(S)
    PROVE  Range(s \o t) = Range(s) \cup Range(t)
<1>1. /\ Len(s) \in Nat /\ Len(t) \in Nat /\ DOMAIN s = 1 .. Len(s) /\ DOMAIN t = 1 .. Len(t)
      /\ DOMAIN (s \o t) = 1 .. Len(s) + Len(t)
      /\ \A i \in 1 .. Len(s) : (s \o t)[i] = s[i]
      /\ \A i \in 1 .. Len(t) : (s \o t)[i + Len(s)] = t[i]
  OBVIOUS
<1>2. ASSUME NEW i \in DOMAIN (s \o t) PROVE (s \o t)[i] \in Range(s) \cup Range(t)
  <2>1. CASE i <= Len(s)
    BY <1>1, <2>1 DEF Range
  <2>2. CASE i > Len(s)
    <3>1. i - Len(s) \in 1 .. Len(t) /\ i = (i - Len(s)) + Len(s)
      BY <1>1, <2>2
    <3>2. (s \o t)[i] = t[i - Len(s)]
      BY <1>1, <3>1, Zenon
    <3> QED BY <1>1, <3>1, <3>2, Zenon DEF Range
  <2> QED BY <1>1, <2>1, <2>2
<1>3. ASSUME NEW i \in DOMAIN s PROVE s[i] \in Range(s \o t)
  <2>1. i \in DOMAIN (s \o t) /\ (s \o t)[i] = s[i]
    BY <1>1
  <2> QED BY <2>1, Zenon DEF Range
<1>4. ASSUME NEW i \in DOMAIN t PROVE t[i] \in Range(s \o t)
  <2>1. i + Len(s) \in DOMAIN (s \o t) /\ (s \o t)[i + Len(s)] = t[i]
    BY <1>1
  <2> QED BY <2>1, Zenon DEF Range
<1> QED BY <1>2, <1>3, <1>4, Zenon DEF Range

\* The last element of the work list, and the others.
LEMMA LastAndFront ==
    ASSUME NEW s \in Seq(Block), s # <<>>
    PROVE  /\ Front(s) \in Seq(Block) /\ Last(s) \in Block
           /\ Range(s) = Range(Front(s)) \cup {Last(s)}
<1>1. Len(s) \in Nat \ {0} /\ DOMAIN s = 1 .. Len(s) /\ \A i \in 1 .. Len(s) : s[i] \in Block
  OBVIOUS
<1>2. /\ Front(s) \in Seq(Block) /\ DOMAIN Front(s) = 1 .. Len(s) - 1
      /\ \A i \in 1 .. Len(s) - 1 : Front(s)[i] = s[i]
  BY <1>1 DEF Front
<1>3. Last(s) = s[Len(s)]
  BY Zenon DEF Last
<1>4. PICK n \in Nat \ {0} : n = Len(s)
  BY <1>1, Zenon
<1>5. n \in 1 .. n /\ 1 .. n = (1 .. n - 1) \cup {n}
  OBVIOUS
<1>6. ASSUME NEW i \in 1 .. n PROVE s[i] \in Range(Front(s)) \cup {Last(s)}
  <2>1. CASE i = n
    BY <1>3, <1>4, <2>1, Zenon
  <2>2. CASE i \in 1 .. n - 1
    BY <1>2, <1>4, <2>2, Zenon DEF Range
  <2> QED BY <1>5, <2>1, <2>2, Zenon
<1>7. ASSUME NEW i \in 1 .. n - 1 PROVE Front(s)[i] \in Range(s)
  BY <1>1, <1>2, <1>4, <1>5, Zenon DEF Range
<1>8. Last(s) \in Range(s) /\ Last(s) \in Block
  BY <1>1, <1>3, <1>4, <1>5, Zenon DEF Range
<1>9. Range(s) \subseteq Range(Front(s)) \cup {Last(s)}
  BY <1>1, <1>4, <1>6, Zenon DEF Range
<1>10. Range(Front(s)) \subseteq Range(s)
  BY <1>2, <1>4, <1>7, Zenon DEF Range
<1> QED BY <1>2, <1>8, <1>9, <1>10, Zenon

\* The children of a block that was sent are sent in its order.
LEMMA SendReadyKeeps ==
    ASSUME IInv, SendReadyNonFinalizedQueued
    PROVE  IInv'
<1>0. /\ UNCHANGED <<pc, f_queue, f_open, last_sent, bufs, utxo, f_chan, resets, writer, tip, db,
                     chains, errors, asked, answered, dropped>>
      /\ pc \in {"send", "handover"} /\ work # <<>>
  BY Zenon DEF SendReadyNonFinalizedQueued, finalizedVars, writerVars
<1>1. TypeOK
  BY Zenon DEF IInv
<1>2. /\ work \in Seq(Block) /\ n_chan \in Seq(Block) /\ curr_buf \in Seq(Block)
      /\ blocks \subseteq Block /\ sent \subseteq Block /\ chains \subseteq Block /\ tip \in Block
      /\ by_parent \in [Block -> SUBSET Block] /\ by_height \in [Heights -> SUBSET Block]
  BY <1>1, Zenon DEF TypeOK
<1>3. PICK p \in Block : p = Last(work) /\ Range(work) = Range(Front(work)) \cup {p}
                         /\ Front(work) \in Seq(Block)
  BY <1>0, <1>2, LastAndFront, Zenon
<1>4. PICK C : /\ C = by_parent[p] /\ C = {x \in blocks : Parent[x] = p}
  BY Zenon DEF IInv, QueueInv
<1>5. /\ blocks' = blocks \ C /\ by_parent' = [by_parent EXCEPT ![p] = {}]
      /\ by_height' = [h \in Heights |-> IF h \in {Height[c] : c \in C} THEN {} ELSE by_height[h]]
  BY <1>3, <1>4, Zenon DEF SendReadyNonFinalizedQueued, DequeueChildren
<1>6. PICK s \in Orders(C) :
        /\ sent' = sent \cup Range(s) /\ curr_buf' = curr_buf \o s
        /\ n_chan' = n_chan \o s /\ work' = Front(work) \o s
  BY <1>3, <1>4, Zenon DEF SendReadyNonFinalizedQueued
<1>7. C \subseteq blocks /\ C \subseteq FullyVerified /\ C \subseteq Block /\ IsFiniteSet(C)
  <2>1. C \subseteq blocks
    BY <1>4, Zenon
  <2>2. IsFiniteSet(blocks) /\ blocks \subseteq FullyVerified
    BY Zenon DEF IInv, QueueInv
  <2> QED BY <1>2, <2>1, <2>2, FS_Subset, Zenon
<1>8. s \in Seq(C) /\ Range(s) = C /\ \A i, j \in DOMAIN s : s[i] = s[j] => i = j
  BY <1>6, <1>7, EnumerationOf, Zenon
<1>9. s \in Seq(Block) /\ DOMAIN s = 1 .. Len(s) /\ Len(s) \in Nat /\ \A i \in 1 .. Len(s) : s[i] \in C
  BY <1>7, <1>8
<1>10. ~f_open /\ ~dropped /\ pc \notin Block
  BY <1>0, QueueAssumption, Zenon DEF IInv, ServiceInv
<1>11. /\ Range(n_chan') = Range(n_chan) \cup C /\ n_chan' \in Seq(Block)
       /\ Range(curr_buf') = Range(curr_buf) \cup C /\ curr_buf' \in Seq(Block)
       /\ Range(work') = Range(Front(work)) \cup C /\ work' \in Seq(Block)
  BY <1>2, <1>3, <1>6, <1>8, <1>9, RangeOfConcat
<1>12. TypeOK'
  <2>1. /\ blocks' \subseteq Block /\ sent' \subseteq Block
        /\ by_parent' \in [Block -> SUBSET Block] /\ by_height' \in [Heights -> SUBSET Block]
    BY <1>2, <1>5, <1>6, <1>7, <1>8, Zenon
  <2> QED BY <1>0, <1>1, <1>11, <2>1, Zenon DEF TypeOK
<1>13. QueueInv'
  <2>1. IsFiniteSet(blocks') /\ blocks' \subseteq FullyVerified
    <3>1. IsFiniteSet(blocks) /\ blocks \subseteq FullyVerified
      BY Zenon DEF IInv, QueueInv
    <3> QED BY <1>5, <3>1, FS_Subset, Zenon
  <2>2. ASSUME NEW q \in Block PROVE by_parent'[q] = {x \in blocks' : Parent[x] = q}
    <3>1. by_parent[q] = {x \in blocks : Parent[x] = q}
      BY Zenon DEF IInv, QueueInv
    <3>2. by_parent'[q] = IF q = p THEN {} ELSE by_parent[q]
      BY <1>2, <1>5, Zenon
    <3> QED BY <1>4, <1>5, <3>1, <3>2
  <2>3. ASSUME NEW h \in Heights PROVE by_height'[h] \subseteq {x \in blocks' : Height[x] = h}
    <3>1. by_height[h] \subseteq {x \in blocks : Height[x] = h}
      BY Zenon DEF IInv, QueueInv
    <3>2. by_height'[h] = IF h \in {Height[c] : c \in C} THEN {} ELSE by_height[h]
      BY <1>5, Zenon
    <3> QED BY <1>5, <3>1, <3>2, Zenon
  <2> QED BY <1>0, <2>1, <2>2, <2>3, Zenon DEF IInv, QueueInv
<1>14. ServiceInv'
  BY <1>0, <1>10, Zenon DEF ServiceInv
<1>15. PhaseInv'
  BY <1>0, <1>7, <1>10, <1>11, Zenon DEF IInv, PhaseInv
<1>16. ChannelInv'
  BY <1>0, Zenon DEF IInv, ChannelInv
<1>17. sent' = sent \cup C
  BY <1>6, <1>8, Zenon
<1>18. SentInv'
  <2>1. \A x \in Range(n_chan') : Settled(x)'
    BY <1>0, <1>11, <1>17, Zenon DEF IInv, SentInv, Settled
  <2>2. sent' \subseteq Range(curr_buf') \cup UNION {Range(buf) : buf \in bufs'}
    BY <1>0, <1>11, <1>17, Zenon DEF IInv, SentInv
  <2> QED BY <1>0, <1>10, <2>1, <2>2, Zenon DEF SentInv
<1>19. ClosedInv'
  <2>1. Out' \subseteq Out \cup C /\ p \in Out
    BY <1>0, <1>3, <1>11, <1>17, Zenon DEF Out
  <2>2. \A x : Clear(x) => Clear(x)'
    BY <1>0, <1>5, <1>17, Zenon DEF Clear, Settled
  <2>3. \A q \in Out : Clear(q) /\ \A a \in Ancestors[q] : Clear(a)
    BY <1>10, Zenon DEF IInv, ClosedInv
  <2>4. ASSUME NEW q \in C PROVE Clear(q)' /\ \A a \in Ancestors[q] : Clear(a)'
    <3>1. Ancestors[q] = {p} \cup Ancestors[p]
      BY <1>4, <1>7, AncestorsOfChild, Zenon
    <3>2. Clear(q)'
      BY <1>5, <1>17, Zenon DEF Clear, Settled
    <3> QED BY <2>1, <2>2, <2>3, <3>1, <3>2, Zenon
  <2> QED BY <2>1, <2>2, <2>3, <2>4, Zenon DEF ClosedInv
<1>20. OrderInv'
  <2> SUFFICES ASSUME NEW i \in DOMAIN n_chan', NEW j \in DOMAIN n_chan',
                      n_chan'[j] \in Ancestors[n_chan'[i]]
               PROVE  j < i
    BY Zenon DEF OrderInv
  <2>1. /\ Len(n_chan) \in Nat /\ DOMAIN n_chan = 1 .. Len(n_chan)
        /\ DOMAIN n_chan' = 1 .. Len(n_chan) + Len(s)
        /\ \A n \in 1 .. Len(n_chan) : n_chan'[n] = n_chan[n]
        /\ \A n \in 1 .. Len(n_chan) + Len(s) : n > Len(n_chan) => n_chan'[n] \in C
    <3>1. /\ Len(n_chan) \in Nat /\ DOMAIN n_chan = 1 .. Len(n_chan)
          /\ DOMAIN n_chan' = 1 .. Len(n_chan) + Len(s)
          /\ \A n \in 1 .. Len(n_chan) : n_chan'[n] = n_chan[n]
          /\ \A n \in 1 .. Len(n_chan) + Len(s) : n > Len(n_chan) => n_chan'[n] = s[n - Len(n_chan)]
      BY <1>2, <1>6, <1>9
    <3>2. \A n \in 1 .. Len(n_chan) + Len(s) : n > Len(n_chan) => n - Len(n_chan) \in 1 .. Len(s)
      BY <1>9, <3>1
    <3> QED BY <1>9, <3>1, <3>2, Zenon
  <2>2. CASE i <= Len(n_chan) /\ j <= Len(n_chan)
    BY <2>1, <2>2 DEF IInv, OrderInv
  <2>3. CASE i <= Len(n_chan) /\ j > Len(n_chan)
    <3>1. n_chan'[i] \in Range(n_chan) /\ n_chan'[j] \in C
      BY <2>1, <2>3 DEF Range
    <3>2. n_chan'[j] \notin blocks
      BY <1>10, <3>1, Zenon DEF IInv, ClosedInv, Out, Clear
    <3> QED BY <1>7, <3>1, <3>2, Zenon
  <2>4. CASE i > Len(n_chan) /\ j <= Len(n_chan)
    BY <2>1, <2>4
  <2>5. CASE i > Len(n_chan) /\ j > Len(n_chan)
    <3>1. PICK x \in C, y \in C : x = n_chan'[i] /\ y = n_chan'[j]
      BY <2>1, <2>5, Zenon
    <3>2. Height[x] = Height[p] + 1 /\ Height[y] = Height[p] + 1 /\ Height[p] \in Nat
      BY <1>4, <1>7, AncestorsOfChild, HeightsAreNatural, Zenon
    <3>3. Height[y] < Height[x]
      BY <1>7, <3>1, AncestorsAreLower, Zenon
    <3> QED BY <3>2, <3>3
  <2> QED BY <2>1, <2>2, <2>3, <2>4, <2>5
<1>21. ReadyInv'
  <2> SUFFICES ASSUME NEW b \in blocks, b \notin C, Parent[b] \in sent \cup C \cup {tip}
               PROVE  Height[b] <= Height[tip] \/ Parent[b] \in Range(Front(work)) \cup C
    BY <1>0, <1>5, <1>11, <1>17, Zenon DEF ReadyInv
  <2>1. Parent[b] # p
    BY <1>4, Zenon
  <2>2. CASE Parent[b] \in sent \cup {tip}
    <3>1. Height[b] <= Height[tip] \/ Parent[b] \in Range(work)
      BY <1>2, <1>10, <2>2, Zenon DEF IInv, ReadyInv
    <3> QED BY <1>3, <2>1, <3>1, Zenon
  <2> QED BY <2>2, Zenon
<1>22. UtxoInv'
  <2>1. blocks' \cup sent' \subseteq blocks \cup sent
    BY <1>5, <1>7, <1>17, Zenon
  <2> QED BY <1>0, <2>1, Zenon DEF IInv, UtxoInv, Exempt
<1>23. RequestsAreAccounted'
  <2>1. ASSUME NEW x \in Block PROVE asked'[x] - answered'[x] = Owed(x)'
    <3>1. asked[x] - answered[x] = Owed(x)
      BY OwedIsCounted, Zenon DEF IInv
    <3>2. /\ InChannel(x, BlocksOf(f_chan)) \in Nat /\ InChannel(x, n_chan) \in Nat
      BY <1>1, Counts, Zenon
    <3>3. InChannel(x, n_chan') = InChannel(x, n_chan) + IF x \in C THEN 1 ELSE 0
      <4>1. InChannel(x, s) = IF x \in C THEN 1 ELSE 0
        BY <1>8, InEnumeration, Zenon
      <4>2. InChannel(x, n_chan') = InChannel(x, n_chan) + InChannel(x, s)
        BY <1>2, <1>6, <1>9, InConcat, Zenon
      <4> QED BY <4>1, <4>2, Zenon
    <3>4. Owed(x)' = (IF x \in blocks' THEN 1 ELSE 0) + (IF x \in DOMAIN f_queue THEN 1 ELSE 0)
                     + InChannel(x, n_chan') + InChannel(x, BlocksOf(f_chan))
      BY <1>0, Zenon DEF Owed
    <3>5. x \in blocks' <=> x \in blocks /\ x \notin C
      BY <1>5, Zenon
    <3>6. Owed(x) = Owed(x)'
      BY <1>7, <3>2, <3>3, <3>4, <3>5 DEF Owed
    <3> QED BY <1>0, <3>1, <3>6, Zenon
  <2> QED BY <2>1, OwedIsCounted, Zenon
<1> QED BY <1>12, <1>13, <1>14, <1>15, <1>16, <1>18, <1>19, <1>20, <1>21, <1>22, <1>23, Zenon
           DEF IInv

-----------------------------------------------------------------------------
(* Requests arrive.                                                         *)

\* Who waits for the outputs of the block is answered.
LEMMA ArrivalAnswers ==
    ASSUME TypeOK, NEW b \in Block, Arrives(b)
    PROVE  /\ pc = "idle" /\ ~dropped
           /\ asked' \in [Block -> Nat]
           /\ \A x \in Block : asked'[x] = asked[x] + IF x = b THEN 1 ELSE 0
           /\ utxo' \in [Awaited -> {"none", "reading", "waiting", "answered"}]
           /\ \A w \in Awaited : \/ utxo'[w] = utxo[w] /\ (w = b => utxo'[w] \notin {"reading", "waiting"})
                                 \/ utxo'[w] = "answered"
<1>1. /\ asked \in [Block -> Nat] /\ utxo \in [Awaited -> {"none", "reading", "waiting", "answered"}]
      /\ asked' = [asked EXCEPT ![b] = @ + 1]
      /\ utxo' = [w \in Awaited |-> IF w = b /\ utxo[w] \in {"reading", "waiting"}
                                    THEN "answered" ELSE utxo[w]]
  BY Zenon DEF TypeOK, Arrives
<1>2. asked' \in [Block -> Nat] /\ \A x \in Block : asked'[x] = asked[x] + IF x = b THEN 1 ELSE 0
  BY <1>1
<1>3. \A w \in Awaited : utxo'[w] = IF w = b /\ utxo[w] \in {"reading", "waiting"}
                                    THEN "answered" ELSE utxo[w]
  BY <1>1, Zenon
<1>4. utxo' \in [Awaited -> {"none", "reading", "waiting", "answered"}]
  BY <1>1, Zenon
<1> QED BY <1>2, <1>3, <1>4, Zenon DEF Arrives

\* A block to be verified in full is refused, replaces an older request, or is
\* queued.
LEMMA QueueNonFinalizedKeeps ==
    ASSUME IInv, NEW b \in Block, QueueAndCommitToNonFinalizedState(b)
    PROVE  IInv'
<1>0. /\ UNCHANGED <<work, f_queue, f_open, last_sent, sent, curr_buf, bufs, f_chan, n_chan, resets,
                     writer, tip, db, chains, errors, dropped>>
      /\ b \in FullyVerified /\ Arrives(b)
  BY Zenon DEF QueueAndCommitToNonFinalizedState, finalizedVars, writerVars, sentVars, FullyVerified
<1>1. TypeOK
  BY Zenon DEF IInv
<1>2. /\ pc = "idle" /\ ~dropped
      /\ asked' \in [Block -> Nat]
      /\ \A x \in Block : asked'[x] = asked[x] + IF x = b THEN 1 ELSE 0
      /\ utxo' \in [Awaited -> {"none", "reading", "waiting", "answered"}]
      /\ \A w \in Awaited : \/ utxo'[w] = utxo[w] /\ (w = b => utxo'[w] \notin {"reading", "waiting"})
                            \/ utxo'[w] = "answered"
  BY <1>0, <1>1, ArrivalAnswers, Zenon
<1>3. pc \notin Block /\ work = <<>> /\ b \notin {"idle", "handover", "send", "prune"}
  BY <1>2, QueueAssumption, Zenon DEF IInv, ServiceInv
<1>4. /\ blocks \subseteq Block /\ Parent[b] \in Block /\ Height[b] \in Heights
      /\ by_parent \in [Block -> SUBSET Block] /\ by_height \in [Heights -> SUBSET Block]
  BY <1>1, HeightsAreNatural, Zenon DEF TypeOK
<1>5. \/ /\ UNCHANGED <<pc, blocks, by_parent, by_height>>
         /\ answered' = Answer({b})
      \/ /\ ~Settled(b) /\ pc' = b /\ b \in blocks
         /\ UNCHANGED <<blocks, by_parent, by_height>> /\ answered' = Answer({b} \cap blocks)
      \/ /\ ~Settled(b) /\ pc' = b /\ b \notin blocks /\ Queue(b) /\ answered' = Answer({b} \cap blocks)
  BY Zenon DEF QueueAndCommitToNonFinalizedState, Settled, queueVars
<1>6. PICK bs : /\ answered' = Answer(bs)
                /\ \/ bs = {b} /\ blocks' = blocks
                   \/ bs = {} /\ b \notin blocks /\ blocks' = blocks \cup {b}
  <2>1. b \in blocks => {b} \cap blocks = {b}
    BY Zenon
  <2>2. b \notin blocks => {b} \cap blocks = {}
    BY Zenon
  <2> QED BY <1>5, <2>1, <2>2, Zenon DEF Queue
<1>7. /\ answered' \in [Block -> Nat]
      /\ \A x \in Block : answered'[x] = answered[x] + IF x \in bs THEN 1 ELSE 0
  BY <1>1, <1>6, AnswerCounts, Zenon
<1>8. blocks' \in {blocks, blocks \cup {b}}
  BY <1>5, Zenon DEF Queue
<1>9. pc' # pc => pc' = b /\ ~Settled(b)
  BY <1>5, Zenon
<1>10. blocks' # blocks => ~Settled(b) /\ pc' = b
  BY <1>5, Zenon
<1>11. /\ by_parent' \in [Block -> SUBSET Block] /\ by_height' \in [Heights -> SUBSET Block]
       /\ \A q \in Block : by_parent'[q] = {x \in blocks' : Parent[x] = q}
       /\ \A h \in Heights : by_height'[h] \subseteq {x \in blocks' : Height[x] = h}
  <2>1. CASE UNCHANGED <<blocks, by_parent, by_height>>
    BY <1>4, <2>1, Zenon DEF IInv, QueueInv
  <2>2. CASE Queue(b)
    <3>1. /\ blocks' = blocks \cup {b}
          /\ by_parent' = [by_parent EXCEPT ![Parent[b]] = by_parent[Parent[b]] \cup {b}]
          /\ by_height' = [by_height EXCEPT ![Height[b]] = by_height[Height[b]] \cup {b}]
      BY <2>2, Zenon DEF Queue
    <3>2. /\ by_parent' \in [Block -> SUBSET Block] /\ by_height' \in [Heights -> SUBSET Block]
          /\ \A q \in Block : by_parent'[q] = IF q = Parent[b] THEN by_parent[q] \cup {b} ELSE by_parent[q]
          /\ \A h \in Heights : by_height'[h] = IF h = Height[b] THEN by_height[h] \cup {b} ELSE by_height[h]
      BY <1>4, <3>1, Zenon
    <3>3. ASSUME NEW q \in Block PROVE by_parent'[q] = {x \in blocks' : Parent[x] = q}
      <4>1. by_parent[q] = {x \in blocks : Parent[x] = q}
        BY Zenon DEF IInv, QueueInv
      <4> QED BY <3>1, <3>2, <4>1, Zenon
    <3>4. ASSUME NEW h \in Heights PROVE by_height'[h] \subseteq {x \in blocks' : Height[x] = h}
      <4>1. by_height[h] \subseteq {x \in blocks : Height[x] = h}
        BY Zenon DEF IInv, QueueInv
      <4> QED BY <3>1, <3>2, <4>1
    <3> QED BY <3>2, <3>3, <3>4, Zenon
  <2> QED BY <1>5, <2>1, <2>2, Zenon
<1>12. TypeOK'
  <2>1. blocks' \subseteq Block /\ pc' \in {"idle", "handover", "send", "prune"} \cup Block
    BY <1>2, <1>4, <1>8, <1>9, Zenon
  <2> QED BY <1>0, <1>1, <1>2, <1>7, <1>11, <2>1, Zenon DEF TypeOK
<1>13. QueueInv'
  <2>1. IsFiniteSet(blocks) /\ blocks \subseteq FullyVerified /\ IsFiniteSet(DOMAIN f_queue)
    BY Zenon DEF IInv, QueueInv
  <2>2. IsFiniteSet(blocks \cup {b})
    BY <2>1, FS_AddElement, Zenon
  <2>3. IsFiniteSet(blocks') /\ blocks' \subseteq FullyVerified
    BY <1>0, <1>8, <2>1, <2>2, Zenon
  <2> QED BY <1>0, <1>11, <2>1, <2>3, Zenon DEF QueueInv
<1>14. ServiceInv'
  BY <1>0, <1>2, <1>3, <1>9, Zenon DEF ServiceInv
<1>15. PhaseInv' /\ ChannelInv' /\ OrderInv'
  BY <1>0, Zenon DEF IInv, PhaseInv, ChannelInv, OrderInv
<1>16. SentInv'
  BY <1>0, Zenon DEF IInv, SentInv, Settled
<1>17. ClosedInv'
  <2>1. \A x : Clear(x) => Clear(x)'
    BY <1>0, <1>8, <1>10 DEF Clear, Settled
  <2> QED BY <1>0, <2>1, Zenon DEF IInv, ClosedInv, Out
<1>18. ReadyInv'
  <2> SUFFICES ASSUME ~f_open, NEW x \in blocks', Parent[x] \in sent \cup {tip}
               PROVE  Height[x] <= Height[tip] \/ Parent[x] \in Range(work) \/ pc' = x
    BY <1>0, Zenon DEF ReadyInv
  <2>1. CASE x \in blocks
    BY <1>2, <1>3, <1>4, <2>1, Zenon DEF IInv, ReadyInv
  <2>2. CASE x \notin blocks
    BY <1>8, <1>10, <2>2, Zenon
  <2> QED BY <2>1, <2>2, Zenon
<1>19. UtxoInv'
  <2> SUFFICES ASSUME NEW w \in Awaited
               PROVE  /\ utxo'[w] \in {"reading", "waiting"} => Exempt(w) \/ w \notin blocks' \cup sent
                      /\ utxo'[w] = "waiting" => Exempt(w) \/ w \notin chains \cup db
    BY <1>0, Zenon DEF UtxoInv, Exempt
  <2>1. /\ utxo[w] \in {"reading", "waiting"} => Exempt(w) \/ w \notin blocks \cup sent
        /\ utxo[w] = "waiting" => Exempt(w) \/ w \notin chains \cup db
    BY Zenon DEF IInv, UtxoInv
  <2> QED BY <1>2, <1>8, <2>1, Zenon
<1>20. RequestsAreAccounted'
  <2>1. ASSUME NEW x \in Block PROVE asked'[x] - answered'[x] = Owed(x)'
    <3>1. asked[x] - answered[x] = Owed(x)
      BY OwedIsCounted, Zenon DEF IInv
    <3>2. /\ asked[x] \in Nat /\ answered[x] \in Nat /\ InChannel(x, BlocksOf(f_chan)) \in Nat
          /\ InChannel(x, n_chan) \in Nat
      BY <1>1, Counts, Zenon
    <3>3. /\ asked'[x] = asked[x] + IF x = b THEN 1 ELSE 0
          /\ answered'[x] = answered[x] + IF x \in bs THEN 1 ELSE 0
      BY <1>2, <1>7, Zenon
    <3>4. Owed(x)' = (IF x \in blocks' THEN 1 ELSE 0) + (IF x \in DOMAIN f_queue THEN 1 ELSE 0)
                     + InChannel(x, n_chan) + InChannel(x, BlocksOf(f_chan))
      BY <1>0, Zenon DEF Owed
    <3>5. Owed(x) \in Nat
      BY <3>2 DEF Owed
    <3>6. CASE bs = {b} /\ blocks' = blocks
      <4>1. Owed(x)' = Owed(x)
        BY <3>4, <3>6, Zenon DEF Owed
      <4> HIDE DEF Owed
      <4> QED BY <3>1, <3>2, <3>3, <3>6, <4>1
    <3>7. CASE bs = {} /\ b \notin blocks /\ blocks' = blocks \cup {b}
      <4>1. Owed(x)' = Owed(x) + IF x = b THEN 1 ELSE 0
        BY <3>2, <3>4, <3>7 DEF Owed
      <4> HIDE DEF Owed
      <4> QED BY <3>1, <3>2, <3>3, <3>5, <3>7, <4>1
    <3> QED BY <1>6, <3>6, <3>7, Zenon
  <2> QED BY <2>1, OwedIsCounted, Zenon
<1> QED BY <1>12, <1>13, <1>14, <1>15, <1>16, <1>17, <1>18, <1>19, <1>20 DEF IInv

\* The places in a sequence.
LEMMA LengthOf ==
    ASSUME NEW S, NEW s \in Seq(S)
    PROVE  Len(s) \in Nat /\ DOMAIN s = 1 .. Len(s)
OBVIOUS

\* Sequences with the same elements are equal.
LEMMA EqualSequences ==
    ASSUME NEW S, NEW s \in Seq(S), NEW t \in Seq(S),
           Len(s) = Len(t), \A i \in 1 .. Len(s) : s[i] = t[i]
    PROVE  s = t
<1>1. s = [i \in 1 .. Len(s) |-> s[i]] /\ t = [i \in 1 .. Len(t) |-> t[i]]
  OBVIOUS
<1> QED BY <1>1, Zenon

\* Where the elements of two joined sequences are.
LEMMA ConcatElements ==
    ASSUME NEW S, NEW s \in Seq(S), NEW t \in Seq(S)
    PROVE  /\ s \o t \in Seq(S) /\ Len(s) \in Nat /\ Len(t) \in Nat
           /\ Len(s \o t) = Len(s) + Len(t)
           /\ \A i \in 1 .. Len(s) : (s \o t)[i] = s[i]
           /\ \A i \in 1 .. Len(t) : (s \o t)[i + Len(s)] = t[i]
OBVIOUS

\* A channel after a run of blocks was sent.
Extended(chan, run, q) == chan \o [i \in DOMAIN run |-> <<run[i], q[run[i]]>>]

\* The channel holds the blocks it held and then those of the run.
LEMMA ExtendedBlocks ==
    ASSUME NEW chan \in Seq(Block \X BOOLEAN), NEW run \in Seq(Block), NEW q,
           \A i \in DOMAIN run : q[run[i]] \in BOOLEAN
    PROVE  /\ Extended(chan, run, q) \in Seq(Block \X BOOLEAN)
           /\ BlocksOf(Extended(chan, run, q)) = BlocksOf(chan) \o run
           /\ Len(Extended(chan, run, q)) = Len(chan) + Len(run)
<1> DEFINE pairs == [i \in DOMAIN run |-> <<run[i], q[run[i]]>>]
           new == Extended(chan, run, q)
<1>1. Len(run) \in Nat /\ DOMAIN run = 1 .. Len(run) /\ \A i \in 1 .. Len(run) : run[i] \in Block
  OBVIOUS
<1>2. pairs \in Seq(Block \X BOOLEAN) /\ Len(pairs) = Len(run)
  <2>1. pairs \in [1 .. Len(run) -> Block \X BOOLEAN]
    BY <1>1, Zenon
  <2>2. pairs \in Seq(Block \X BOOLEAN)
    BY <1>1, <2>1
  <2>3. DOMAIN pairs = 1 .. Len(run)
    BY <1>1, Zenon
  <2> HIDE DEF pairs
  <2>4. Len(pairs) = Len(run)
    BY <1>1, <2>2, <2>3
  <2> QED BY <2>2, <2>4, Zenon
<1>3. \A i \in 1 .. Len(run) : pairs[i] = <<run[i], q[run[i]]>> /\ pairs[i][1] = run[i]
  BY <1>1, Zenon
<1> HIDE DEF pairs
<1>4. new = chan \o pairs
  BY Zenon DEF Extended, pairs
<1>5. /\ new \in Seq(Block \X BOOLEAN) /\ Len(new) = Len(chan) + Len(run) /\ Len(chan) \in Nat
      /\ \A i \in 1 .. Len(chan) : new[i] = chan[i]
      /\ \A i \in 1 .. Len(run) : new[i + Len(chan)] = pairs[i]
  <2>1. /\ chan \o pairs \in Seq(Block \X BOOLEAN) /\ Len(chan \o pairs) = Len(chan) + Len(pairs)
        /\ Len(chan) \in Nat /\ \A i \in 1 .. Len(chan) : (chan \o pairs)[i] = chan[i]
        /\ \A i \in 1 .. Len(pairs) : (chan \o pairs)[i + Len(chan)] = pairs[i]
    <3>1. PICK T : T = Block \X BOOLEAN
      BY Zenon
    <3>2. chan \in Seq(T) /\ pairs \in Seq(T)
      BY <1>2, <3>1, Zenon
    <3>3. /\ chan \o pairs \in Seq(T) /\ Len(chan \o pairs) = Len(chan) + Len(pairs)
          /\ Len(chan) \in Nat /\ \A i \in 1 .. Len(chan) : (chan \o pairs)[i] = chan[i]
          /\ \A i \in 1 .. Len(pairs) : (chan \o pairs)[i + Len(chan)] = pairs[i]
      <4>1. chan \o pairs \in Seq(T) /\ Len(chan \o pairs) = Len(chan) + Len(pairs)
        BY <3>2, ConcatElements, Zenon
      <4>2. Len(chan) \in Nat /\ \A i \in 1 .. Len(chan) : (chan \o pairs)[i] = chan[i]
        BY <3>2, ConcatElements, Zenon
      <4>3. \A i \in 1 .. Len(pairs) : (chan \o pairs)[i + Len(chan)] = pairs[i]
        BY <3>2, ConcatElements
      <4> QED BY <4>1, <4>2, <4>3, Zenon
    <3> QED BY <3>1, <3>3, Zenon
  <2> QED BY <1>2, <1>4, <2>1, Zenon
<1> HIDE DEF new
<1>6. /\ BlocksOf(new) \in Seq(Block) /\ Len(BlocksOf(new)) = Len(new)
      /\ \A i \in 1 .. Len(new) : BlocksOf(new)[i] = new[i][1]
  BY <1>5, BlocksOfChannel, Zenon
<1>7. /\ BlocksOf(chan) \in Seq(Block) /\ Len(BlocksOf(chan)) = Len(chan)
      /\ \A i \in 1 .. Len(chan) : BlocksOf(chan)[i] = chan[i][1]
  BY BlocksOfChannel, Zenon
<1>8. PICK s \in Seq(Block) : s = BlocksOf(chan)
  BY <1>7, Zenon
<1>9. /\ s \o run \in Seq(Block) /\ Len(s \o run) = Len(s) + Len(run)
      /\ \A i \in 1 .. Len(s) : (s \o run)[i] = s[i]
      /\ \A i \in 1 .. Len(run) : (s \o run)[i + Len(s)] = run[i]
  OBVIOUS
<1>10. ASSUME NEW i \in 1 .. Len(chan) + Len(run) PROVE BlocksOf(new)[i] = (s \o run)[i]
  <2>1. BlocksOf(new)[i] = new[i][1]
    BY <1>5, <1>6, Zenon
  <2>2. CASE i \in 1 .. Len(chan)
    BY <1>5, <1>7, <1>8, <1>9, <2>1, <2>2, Zenon
  <2>3. CASE i \notin 1 .. Len(chan)
    <3>1. \A n, m \in Nat : \A x \in 1 .. n + m : x \notin 1 .. n => x - n \in 1 .. m /\ x = (x - n) + n
      OBVIOUS
    <3>2. PICK j \in 1 .. Len(run) : i = j + Len(chan)
      BY <1>1, <1>5, <2>3, <3>1, Zenon
    <3>3. new[i] = pairs[j] /\ pairs[j][1] = run[j]
      BY <1>3, <1>5, <3>2, Zenon
    <3>4. (s \o run)[i] = run[j]
      BY <1>7, <1>8, <1>9, <3>2, Zenon
    <3> QED BY <2>1, <3>3, <3>4, Zenon
  <2> QED BY <2>2, <2>3, Zenon
<1>11. BlocksOf(new) = s \o run
  <2>1. Len(BlocksOf(new)) = Len(chan) + Len(run) /\ Len(s \o run) = Len(chan) + Len(run)
    BY <1>5, <1>6, <1>7, <1>8, <1>9, Zenon
  <2>2. BlocksOf(new) \in Seq(Block) /\ s \o run \in Seq(Block)
    BY <1>6, <1>9, Zenon
  <2>3. \A i \in 1 .. Len(BlocksOf(new)) : BlocksOf(new)[i] = (s \o run)[i]
    BY <1>10, <2>1, Zenon
  <2> QED BY <2>1, <2>2, <2>3, EqualSequences, Zenon
<1> QED BY <1>5, <1>8, <1>11, Zenon DEF new

\* It still continues the tip.
LEMMA ExtendedContinues ==
    ASSUME NEW chan \in Seq(Block \X BOOLEAN), NEW k \in 0 .. Len(chan), NEW top \in Block,
           Continues(chan, k, top), NEW run \in Seq(Block), NEW q,
           \A i \in DOMAIN run : q[run[i]] \in BOOLEAN,
           NEW last \in Block, Height[last] = Height[top] + (Len(chan) - k),
           \A i \in DOMAIN run : Height[run[i]] = Height[last] + i
    PROVE  /\ k \in 0 .. Len(Extended(chan, run, q))
           /\ Continues(Extended(chan, run, q), k, top)
           /\ Leads(Extended(chan, run, q), k, top, IF run = <<>> THEN last ELSE Last(run), <<>>)
<1>1. PICK new \in Seq(Block \X BOOLEAN) :
        /\ new = Extended(chan, run, q) /\ BlocksOf(new) = BlocksOf(chan) \o run
        /\ Len(new) = Len(chan) + Len(run)
  BY ExtendedBlocks, Zenon
<1>2. PICK n \in Nat, m \in Nat : n = Len(chan) /\ m = Len(run) /\ Len(new) = n + m /\ k \in 0 .. n
  BY <1>1, LengthOf, Zenon
<1>3. PICK s \in Seq(Block) : s = BlocksOf(chan) /\ Len(s) = n /\ \A i \in 1 .. n : s[i] = chan[i][1]
  BY <1>2, BlocksOfChannel, Zenon
<1>4. /\ DOMAIN run = 1 .. m
      /\ \A i \in 1 .. n : (s \o run)[i] = s[i]
      /\ \A i \in 1 .. m : (s \o run)[i + n] = run[i]
  <2>1. DOMAIN run = 1 .. m
    BY <1>2, LengthOf, Zenon
  <2>2. /\ \A i \in 1 .. Len(s) : (s \o run)[i] = s[i]
        /\ \A i \in 1 .. Len(run) : (s \o run)[i + Len(s)] = run[i]
    BY ConcatElements
  <2> QED BY <1>2, <1>3, <2>1, <2>2, Zenon
<1>5. \A i \in 1 .. n + m : new[i][1] = (s \o run)[i]
  <2>1. \A i \in 1 .. Len(new) : BlocksOf(new)[i] = new[i][1]
    BY <1>1, BlocksOfChannel, Zenon
  <2> QED BY <1>1, <1>2, <1>3, <2>1, Zenon
<1>6. PICK h \in Nat : h = Height[top] /\ Height[last] = h + (n - k)
  BY <1>2, HeightsAreNatural, Zenon
<1>7. /\ \A i \in 1 .. k : Height[chan[i][1]] > h + 1
      /\ \A i \in k + 1 .. n : Height[chan[i][1]] = h + (i - k)
  BY <1>2, <1>6, Zenon DEF Continues
<1>8. ASSUME NEW i \in 1 .. k PROVE Height[new[i][1]] > h + 1
  <2>1. i \in 1 .. n /\ i \in 1 .. n + m
    BY <1>2
  <2>2. new[i][1] = (s \o run)[i] /\ (s \o run)[i] = s[i] /\ s[i] = chan[i][1]
    BY <1>3, <1>4, <1>5, <2>1, Zenon
  <2> QED BY <1>7, <2>2, Zenon
<1>9. ASSUME NEW i \in k + 1 .. n + m PROVE Height[new[i][1]] = h + (i - k)
  <2>1. i \in 1 .. n + m /\ (i <= n => i \in 1 .. n /\ i \in k + 1 .. n)
        /\ (i > n => i - n \in 1 .. m /\ (i - n) + n = i)
    BY <1>2
  <2>2. CASE i <= n
    <3>1. new[i][1] = (s \o run)[i] /\ (s \o run)[i] = s[i] /\ s[i] = chan[i][1]
      BY <1>3, <1>4, <1>5, <2>1, <2>2, Zenon
    <3> QED BY <1>7, <2>1, <2>2, <3>1, Zenon
  <2>3. CASE i > n
    <3>1. PICK j \in 1 .. m : i = j + n /\ j \in Nat
      <4>1. i - n \in Nat
        BY <2>1, <2>3
      <4> QED BY <2>1, <2>3, <4>1, Zenon
    <3>2. new[i][1] = run[j]
      BY <1>4, <1>5, <2>1, <3>1, Zenon
    <3>3. Height[run[j]] = (h + (n - k)) + j
      BY <1>4, <1>6, <3>1, Zenon
    <3>4. \A a, b, c, d \in Nat : (a + (b - c)) + d = a + ((d + b) - c)
      OBVIOUS
    <3>5. (h + (n - k)) + j = h + ((j + n) - k)
      BY <1>2, <1>6, <3>1, <3>4
    <3> QED BY <3>1, <3>2, <3>3, <3>5, Zenon
  <2>4. i <= n \/ i > n
    BY <1>2, <2>1
  <2> QED BY <2>2, <2>3, <2>4, Zenon
<1>10. k \in 0 .. n + m
  BY <1>2
<1>11. Continues(new, k, top)
  BY <1>2, <1>6, <1>8, <1>9, Zenon DEF Continues
<1>12. Height[IF run = <<>> THEN last ELSE Last(run)] = h + ((n + m) - k)
  <2>1. CASE run = <<>>
    <3>1. m = 0
      BY <1>2, <2>1, Zenon
    <3>2. h + (n - k) = h + ((n + m) - k)
      BY <1>2, <3>1
    <3> QED BY <1>6, <2>1, <3>2, Zenon
  <2>2. CASE run # <<>>
    <3>1. m \in 1 .. m
      BY <1>2, <2>2
    <3>2. Height[run[m]] = (h + (n - k)) + m
      BY <1>4, <1>6, <3>1, Zenon
    <3>3. \A a, b, c, d \in Nat : (a + (b - c)) + d = a + ((b + d) - c)
      OBVIOUS
    <3>4. (h + (n - k)) + m = h + ((n + m) - k)
      BY <1>2, <1>6, <3>3
    <3> QED BY <1>2, <2>2, <3>2, <3>4, Zenon DEF Last
  <2> QED BY <2>1, <2>2, Zenon
<1>13. Leads(new, k, top, IF run = <<>> THEN last ELSE Last(run), <<>>)
  BY <1>2, <1>6, <1>12, Zenon DEF Leads
<1> QED BY <1>1, <1>2, <1>10, <1>11, <1>13, Zenon

\* A checkpoint verified block arrives: it is remembered, and the blocks that are
\* ready are sent.
LEMMA QueueFinalizedKeeps ==
    ASSUME IInv, NEW b \in Block, NEW authentic \in BOOLEAN,
           QueueAndCommitToFinalizedState(b, authentic)
    PROVE  IInv'
<1>0. /\ UNCHANGED <<pc, work, blocks, by_parent, by_height, f_open, bufs, n_chan, writer, tip, db,
                     chains, errors, dropped>>
      /\ b \in Checkpoints /\ Arrives(b) /\ AddFinalized(b)
  BY Zenon DEF QueueAndCommitToFinalizedState, queueVars, writerVars
<1>1. TypeOK
  BY Zenon DEF IInv
<1>2. /\ pc = "idle" /\ ~dropped
      /\ asked' \in [Block -> Nat]
      /\ \A x \in Block : asked'[x] = asked[x] + IF x = b THEN 1 ELSE 0
      /\ utxo' \in [Awaited -> {"none", "reading", "waiting", "answered"}]
      /\ \A w \in Awaited : \/ utxo'[w] = utxo[w] /\ (w = b => utxo'[w] \notin {"reading", "waiting"})
                            \/ utxo'[w] = "answered"
  BY <1>0, <1>1, ArrivalAnswers, Zenon
<1>3. /\ curr_buf \in Seq(Block) /\ sent \subseteq Block /\ tip \in Block /\ blocks \subseteq Block
      /\ Height[b] \in Nat /\ Height[tip] \in Nat /\ full_verifier_utxo_lookahead \in Nat
      /\ chains \subseteq Block /\ n_chan \in Seq(Block) /\ work \in Seq(Block)
  BY <1>1, QueueAssumption, HeightsAreNatural, Zenon DEF TypeOK
<1>4. work = <<>> /\ Range(work) = {} /\ pc \notin Block
  BY <1>2, QueueAssumption DEF IInv, ServiceInv, Range
<1>5. /\ sent \subseteq sent' /\ sent' \subseteq sent \cup {b} /\ curr_buf' \in Seq(Block)
      /\ Height[b] >= full_verifier_utxo_lookahead => b \in sent'
      /\ sent' \subseteq Range(curr_buf') \cup UNION {Range(buf) : buf \in bufs}
  <2>1. sent \subseteq Range(curr_buf) \cup UNION {Range(buf) : buf \in bufs}
    BY Zenon DEF IInv, SentInv
  <2>2. Range(Append(curr_buf, b)) = Range(curr_buf) \cup {b} /\ Append(curr_buf, b) \in Seq(Block)
    <3>1. Append(curr_buf, b) = curr_buf \o <<b>> /\ <<b>> \in Seq(Block) /\ Range(<<b>>) = {b}
      BY <1>3 DEF Range
    <3>2. Append(curr_buf, b) \in Seq(Block)
      BY <1>3
    <3>3. PICK one \in Seq(Block) : one = <<b>>
      BY <3>1, Zenon
    <3>4. Range(curr_buf \o one) = Range(curr_buf) \cup Range(one)
      BY <1>3, RangeOfConcat, Zenon
    <3> QED BY <3>1, <3>2, <3>3, <3>4, Zenon
  <2> QED BY <1>0, <1>3, <2>1, <2>2, Zenon DEF AddFinalized
<1>6. UtxoInv'
  <2> SUFFICES ASSUME NEW w \in Awaited
               PROVE  /\ utxo'[w] \in {"reading", "waiting"} => Exempt(w) \/ w \notin blocks \cup sent'
                      /\ utxo'[w] = "waiting" => Exempt(w) \/ w \notin chains \cup db
    BY <1>0, Zenon DEF UtxoInv, Exempt
  <2>1. /\ utxo[w] \in {"reading", "waiting"} => Exempt(w) \/ w \notin blocks \cup sent
        /\ utxo[w] = "waiting" => Exempt(w) \/ w \notin chains \cup db
    BY Zenon DEF IInv, UtxoInv
  <2> QED BY <1>2, <1>5, <2>1, Zenon
<1>7. ServiceInv' /\ OrderInv'
  BY <1>0, <1>2, <1>4, Zenon DEF IInv, ServiceInv, OrderInv
<1>8. \A x : Settled(x) => Settled(x)'
  BY <1>0, <1>5, Zenon DEF Settled
<1>9. CASE ~f_open
  <2>1. answered' = Answer({b}) /\ UNCHANGED <<f_queue, f_chan, last_sent, resets>>
    BY <1>9, Zenon DEF QueueAndCommitToFinalizedState
  <2>2. /\ answered' \in [Block -> Nat]
        /\ \A x \in Block : answered'[x] = answered[x] + IF x = b THEN 1 ELSE 0
    <3>1. /\ answered' \in [Block -> Nat]
          /\ \A x \in Block : answered'[x] = answered[x] + IF x \in {b} THEN 1 ELSE 0
      BY <1>1, <2>1, AnswerCounts, Zenon
    <3> QED BY <3>1, Zenon
  <2>3. TypeOK'
    <3>1. sent' \subseteq Block
      BY <1>3, <1>5, Zenon
    <3> QED BY <1>0, <1>1, <1>2, <1>5, <2>1, <2>2, <3>1, Zenon DEF TypeOK
  <2>4. QueueInv' /\ PhaseInv' /\ ChannelInv'
    BY <1>0, <2>1, Zenon DEF IInv, QueueInv, PhaseInv, ChannelInv
  <2>5. SentInv'
    BY <1>0, <1>5, <1>8, <1>9, Zenon DEF IInv, SentInv
  <2>6. ASSUME NEW c \in Checkpoints \cup {Genesis} PROVE c \notin blocks /\ Height[c] <= Height[tip]
    <3>1. c \notin blocks
      BY Zenon DEF IInv, QueueInv, FullyVerified
    <3>2. Height[c] <= Height[tip]
      <4>1. CASE c \in Checkpoints
        BY <1>2, <1>9, <4>1, Zenon DEF IInv, PhaseInv
      <4>2. CASE c = Genesis
        BY <1>3, <4>2, QueueAssumption
      <4> QED BY <4>1, <4>2, Zenon
    <3> QED BY <3>1, <3>2, Zenon
  <2>7. ClosedInv'
    <3> SUFFICES ASSUME NEW p \in Out' PROVE Clear(p)' /\ \A a \in Ancestors[p] : Clear(a)'
      BY Zenon DEF ClosedInv
    <3>1. \A x : Clear(x) => Clear(x)'
      BY <1>0, <1>8, Zenon DEF Clear
    <3>2. \A c \in Checkpoints \cup {Genesis} : Clear(c)'
      BY <1>0, <2>6, Zenon DEF Clear, Settled
    <3>3. CASE p \in Out
      BY <1>2, <1>9, <3>1, <3>3, Zenon DEF IInv, ClosedInv
    <3>4. CASE p = b
      BY <1>0, <3>2, <3>4, CheckpointAncestors, Zenon
    <3>5. p \in Out \/ p = b
      BY <1>0, <1>5, Zenon DEF Out
    <3> QED BY <3>3, <3>4, <3>5, Zenon
  <2>8. ReadyInv'
    <3> SUFFICES ASSUME NEW x \in blocks, Parent[x] \in sent \cup {b, tip}
                 PROVE  Height[x] <= Height[tip]
      BY <1>0, <1>5, Zenon DEF ReadyInv
    <3>1. CASE Parent[x] \in sent \cup {tip}
      BY <1>2, <1>3, <1>4, <1>9, <3>1, Zenon DEF IInv, ReadyInv
    <3>2. CASE Parent[x] = b /\ b # tip
      <4>1. x \in FullyVerified /\ Height[x] = Height[b] + 1
        BY <3>2, AncestorsOfChild, Zenon DEF IInv, QueueInv
      <4>2. Height[b] <= Height[tip]
        BY <1>0, <2>6, Zenon
      <4>3. Height[b] # Height[tip]
        <5>1. CASE tip \in Checkpoints
          BY <1>0, <3>2, <5>1, QueueAssumption, Zenon
        <5>2. CASE tip = Genesis
          <6>1. b \in Block \ {Genesis} /\ Height[b] = Height[Parent[b]] + 1 /\ Height[Parent[b]] \in Nat
            BY <1>0, QueueAssumption, Zenon
          <6> QED BY <5>2, <6>1, QueueAssumption
        <5>3. CASE tip \in FullyVerified
          <6>1. Height[b] < Height[tip]
            BY <1>0, <5>3, RouterAssumption, Zenon DEF FullyVerified
          <6> QED BY <1>3, <6>1
        <5> QED BY <1>3, <5>1, <5>2, <5>3, Zenon DEF FullyVerified
      <4> QED BY <1>3, <4>1, <4>2, <4>3
    <3> QED BY <3>1, <3>2, Zenon
  <2>9. RequestsAreAccounted'
    <3>1. ASSUME NEW x \in Block PROVE asked'[x] - answered'[x] = Owed(x)'
      <4>1. asked[x] - answered[x] = Owed(x)
        BY OwedIsCounted, Zenon DEF IInv
      <4>2. Owed(x)' = Owed(x)
        BY <1>0, <2>1, Zenon DEF Owed
      <4>3. asked[x] \in Nat /\ answered[x] \in Nat
        BY <1>1, Counts, Zenon
      <4>4. /\ asked'[x] = asked[x] + IF x = b THEN 1 ELSE 0
            /\ answered'[x] = answered[x] + IF x = b THEN 1 ELSE 0
        BY <1>2, <2>2, Zenon
      <4> QED BY <4>1, <4>2, <4>3, <4>4
    <3> QED BY <3>1, OwedIsCounted, Zenon
  <2> QED BY <1>6, <1>7, <2>3, <2>4, <2>5, <2>7, <2>8, <2>9, Zenon DEF IInv
<1>10. CASE f_open
  <2>1. PICK q : /\ q = [x \in DOMAIN f_queue \cup {b} |-> IF x = b THEN authentic ELSE f_queue[x]]
                 /\ DrainFinalizedQueueAndCommit(q) /\ answered' = Answer({b} \cap DOMAIN f_queue)
    BY <1>10, Zenon DEF QueueAndCommitToFinalizedState
  <2>2. /\ DOMAIN q = DOMAIN f_queue \cup {b} /\ DOMAIN q \subseteq Checkpoints
        /\ \A x \in DOMAIN q : q[x] \in BOOLEAN
    BY <1>0, <1>1, <2>1, Zenon DEF TypeOK
  <2>3. IsFiniteSet(DOMAIN q)
    BY <2>2, FS_AddElement DEF IInv, QueueInv
  <2>4. writer = "checkpoint" /\ n_chan = <<>> /\ Range(n_chan) = {}
    BY <1>10 DEF IInv, PhaseInv, Range
  <2>5. PICK k \in 0 .. Len(f_chan) :
          Continues(f_chan, k, tip) /\ Leads(f_chan, k, tip, last_sent, resets)
    BY <1>2, <2>4, Zenon DEF IInv, ChannelInv
  <2>6. f_chan \in Seq(Block \X BOOLEAN) /\ last_sent \in Block /\ Len(f_chan) \in Nat
    BY <1>1, BlocksOfChannel, Zenon DEF TypeOK
  <2>7. PICK last \in Block : /\ last = (IF resets = <<>> THEN last_sent ELSE Head(resets))
                              /\ Height[last] = Height[tip] + (Len(f_chan) - k)
                              /\ (IF resets = <<>> THEN <<>> ELSE Tail(resets)) = <<>>
    <3>1. CASE resets = <<>> /\ Height[last_sent] = Height[tip] + (Len(f_chan) - k)
      BY <2>6, <3>1, Zenon
    <3>2. CASE resets = <<tip>> /\ k = Len(f_chan)
      BY <1>3, <2>6, <3>2
    <3> QED BY <2>5, <3>1, <3>2, Zenon DEF Leads
  <2>8. PICK run : /\ run = ReadyRun(q, last) /\ run \in Seq(DOMAIN q)
                   /\ \A i \in DOMAIN run : Height[run[i]] = Height[last] + i
                   /\ \A i, j \in DOMAIN run : run[i] = run[j] => i = j
    BY <2>2, <2>3, RunFollows
  <2>9. /\ run \in Seq(Block) /\ Range(run) \subseteq DOMAIN q /\ \A i \in DOMAIN run : run[i] \in DOMAIN q
        /\ \A i \in DOMAIN run : q[run[i]] \in BOOLEAN
    <3>1. \A i \in DOMAIN run : run[i] \in DOMAIN q
      BY <2>8
    <3>2. DOMAIN q \subseteq Block
      BY <2>2, QueueAssumption, Zenon
    <3> QED BY <2>2, <2>8, <3>1, <3>2 DEF Range
  <2>10. /\ f_queue' = [x \in DOMAIN q \ Range(run) |-> q[x]] /\ f_chan' = Extended(f_chan, run, q)
         /\ last_sent' = (IF run = <<>> THEN last ELSE Last(run)) /\ resets' = <<>>
    <3>1. /\ f_queue' = [x \in DOMAIN q \ Range(ReadyRun(q, last)) |-> q[x]]
          /\ f_chan' = Extended(f_chan, ReadyRun(q, last), q)
          /\ last_sent' = (IF ReadyRun(q, last) = <<>> THEN last ELSE Last(ReadyRun(q, last)))
          /\ resets' = (IF resets = <<>> THEN <<>> ELSE Tail(resets))
      <4> DEFINE from == IF resets = <<>> THEN last_sent ELSE Head(resets)
      <4>1. last = from
        BY <2>7, Zenon
      <4>2. /\ f_queue' = [x \in DOMAIN q \ Range(ReadyRun(q, from)) |-> q[x]]
            /\ f_chan' = f_chan \o [i \in DOMAIN ReadyRun(q, from) |->
                                        <<ReadyRun(q, from)[i], q[ReadyRun(q, from)[i]]>>]
            /\ last_sent' = (IF ReadyRun(q, from) = <<>> THEN from ELSE Last(ReadyRun(q, from)))
            /\ resets' = (IF resets = <<>> THEN <<>> ELSE Tail(resets))
        BY <2>1, Zenon DEF DrainFinalizedQueueAndCommit
      <4>3. f_chan' = Extended(f_chan, ReadyRun(q, from), q)
        BY <4>2, Zenon DEF Extended
      <4> HIDE DEF from
      <4> QED BY <4>1, <4>2, <4>3, Zenon
    <3>2. run = ReadyRun(q, last) /\ resets' = <<>>
      BY <2>7, <2>8, <3>1, Zenon
    <3> QED BY <3>1, <3>2, Zenon
  <2>11. /\ f_chan' \in Seq(Block \X BOOLEAN) /\ BlocksOf(f_chan') = BlocksOf(f_chan) \o run
    BY <2>6, <2>9, <2>10, ExtendedBlocks, Zenon
  <2>12. BlocksOf(f_chan) \in Seq(Block)
    BY <2>6, BlocksOfChannel, Zenon
  <2>13. Range(BlocksOf(f_chan')) = Range(BlocksOf(f_chan)) \cup Range(run)
    BY <2>9, <2>11, <2>12, RangeOfConcat
  <2>14. /\ answered' \in [Block -> Nat]
         /\ \A x \in Block : answered'[x] = answered[x] + IF x \in {b} \cap DOMAIN f_queue THEN 1 ELSE 0
    BY <1>1, <2>1, AnswerCounts, Zenon
  <2>15. DOMAIN f_queue' = DOMAIN q \ Range(run) /\ f_queue' \in [DOMAIN f_queue' -> BOOLEAN]
    BY <2>2, <2>10, Zenon
  <2>16. TypeOK'
    <3>1. sent' \subseteq Block /\ DOMAIN f_queue' \subseteq Checkpoints
      BY <1>3, <1>5, <2>2, <2>15, Zenon
    <3>2. last_sent' \in Block /\ resets' \in Seq(Block)
      <4>1. run # <<>> => Last(run) \in Block
        BY <2>9, LastAndFront, Zenon
      <4> QED BY <2>10, <4>1
    <3> QED BY <1>0, <1>1, <1>2, <1>5, <2>11, <2>14, <2>15, <3>1, <3>2, Zenon DEF TypeOK
  <2>17. QueueInv'
    <3>1. IsFiniteSet(DOMAIN f_queue')
      BY <2>3, <2>15, FS_Subset, Zenon
    <3> QED BY <1>0, <3>1, Zenon DEF IInv, QueueInv
  <2>18. PhaseInv'
    <3>1. Range(BlocksOf(f_chan')) \subseteq Checkpoints
      BY <2>2, <2>9, <2>13, Zenon DEF IInv, PhaseInv
    <3> QED BY <1>0, <3>1, Zenon DEF IInv, PhaseInv
  <2>19. ChannelInv'
    <3>1. /\ k \in 0 .. Len(Extended(f_chan, run, q)) /\ Continues(Extended(f_chan, run, q), k, tip)
          /\ Leads(Extended(f_chan, run, q), k, tip, IF run = <<>> THEN last ELSE Last(run), <<>>)
      <4>1. /\ f_chan \in Seq(Block \X BOOLEAN) /\ k \in 0 .. Len(f_chan) /\ tip \in Block
            /\ Continues(f_chan, k, tip) /\ run \in Seq(Block)
        BY <1>3, <2>5, <2>6, <2>9, Zenon
      <4>2. Height[last] = Height[tip] + (Len(f_chan) - k)
        BY <2>7, Zenon
      <4>3. \A i \in DOMAIN run : Height[run[i]] = Height[last] + i
        BY <2>8, Zenon
      <4>4. \A i \in DOMAIN run : q[run[i]] \in BOOLEAN
        BY <2>9, Zenon
      <4> QED BY <4>1, <4>2, <4>3, <4>4, ExtendedContinues, Zenon
    <3> QED BY <1>0, <1>10, <2>10, <3>1, Zenon DEF ChannelInv
  <2>20. SentInv'
    <3>1. DOMAIN f_queue' \cup Range(BlocksOf(f_chan'))
              \subseteq DOMAIN f_queue \cup Range(BlocksOf(f_chan)) \cup {b}
      BY <2>2, <2>9, <2>13, <2>15, Zenon
    <3>2. \A x \in DOMAIN f_queue \cup Range(BlocksOf(f_chan)) :
            Height[x] >= full_verifier_utxo_lookahead => x \in sent
      BY <1>10, Zenon DEF IInv, SentInv
    <3> QED BY <1>0, <1>5, <2>4, <3>1, <3>2 DEF SentInv
  <2>21. ClosedInv' /\ ReadyInv'
    BY <1>0, <1>10, Zenon DEF ClosedInv, ReadyInv
  <2>22. RequestsAreAccounted'
    <3>1. ASSUME NEW x \in Block PROVE asked'[x] - answered'[x] = Owed(x)'
      <4>1. asked[x] - answered[x] = Owed(x)
        BY OwedIsCounted, Zenon DEF IInv
      <4>2. /\ asked[x] \in Nat /\ answered[x] \in Nat /\ InChannel(x, BlocksOf(f_chan)) \in Nat
            /\ InChannel(x, n_chan) \in Nat
        BY <1>1, Counts, Zenon
      <4>3. /\ asked'[x] = asked[x] + IF x = b THEN 1 ELSE 0
            /\ answered'[x] = answered[x] + IF x = b /\ x \in DOMAIN f_queue THEN 1 ELSE 0
        BY <1>2, <2>14, Zenon
      <4>4. InChannel(x, BlocksOf(f_chan')) = InChannel(x, BlocksOf(f_chan))
                                              + IF x \in Range(run) THEN 1 ELSE 0
        <5>1. InChannel(x, run) = IF x \in Range(run) THEN 1 ELSE 0
          BY <2>8, <2>9, InEnumeration
        <5>2. InChannel(x, BlocksOf(f_chan')) = InChannel(x, BlocksOf(f_chan)) + InChannel(x, run)
          BY <2>9, <2>11, <2>12, InConcat, Zenon
        <5> QED BY <5>1, <5>2, Zenon
      <4>5. Owed(x)' = (IF x \in blocks THEN 1 ELSE 0)
                       + (IF x \in DOMAIN f_queue' THEN 1 ELSE 0)
                       + InChannel(x, n_chan) + InChannel(x, BlocksOf(f_chan'))
        BY <1>0, Zenon DEF Owed
      <4>6. /\ x \in DOMAIN f_queue' <=> (x = b \/ x \in DOMAIN f_queue) /\ x \notin Range(run)
            /\ x \in Range(run) => x = b \/ x \in DOMAIN f_queue
        BY <2>2, <2>9, <2>15, Zenon
      <4>7. Owed(x)' = Owed(x) + IF x = b /\ x \notin DOMAIN f_queue THEN 1 ELSE 0
        <5>1. PICK u \in Nat, v \in Nat : u = InChannel(x, BlocksOf(f_chan)) /\ v = InChannel(x, n_chan)
          BY <4>2, Zenon
        <5>2. Owed(x) = (IF x \in blocks THEN 1 ELSE 0) + (IF x \in DOMAIN f_queue THEN 1 ELSE 0) + v + u
          BY <5>1, Zenon DEF Owed
        <5>3. Owed(x)' = (IF x \in blocks THEN 1 ELSE 0) + (IF x \in DOMAIN f_queue' THEN 1 ELSE 0)
                         + v + (u + IF x \in Range(run) THEN 1 ELSE 0)
          BY <4>4, <4>5, <5>1, Zenon
        <5> QED BY <4>6, <5>2, <5>3
      <4>8. Owed(x) \in Nat
        BY <4>2 DEF Owed
      <4> QED BY <4>1, <4>2, <4>3, <4>7, <4>8
    <3> QED BY <3>1, OwedIsCounted, Zenon
  <2> QED BY <1>6, <1>7, <2>16, <2>17, <2>18, <2>19, <2>20, <2>21, <2>22, Zenon DEF IInv
<1> QED BY <1>9, <1>10, Zenon

-----------------------------------------------------------------------------
(* The theorems.                                                            *)

\* Every step of the service, of the write task, of the finalized state and of a call
\* that waits for an output keeps the invariant.
LEMMA NextIInv ==
    ASSUME IInv, [Next]_vars
    PROVE  IInv'
<1>1. ASSUME NEW b \in Block, NEW authentic \in BOOLEAN, QueueAndCommitToFinalizedState(b, authentic)
      PROVE  IInv'
  BY <1>1, QueueFinalizedKeeps, Zenon
<1>2. ASSUME NEW b \in Block, QueueAndCommitToNonFinalizedState(b) PROVE IInv'
  BY <1>2, QueueNonFinalizedKeeps, Zenon
<1>3. CASE HandOver
  BY <1>3, HandOverKeeps, Zenon
<1>4. CASE SendIfReady
  BY <1>4, SendIfReadyKeeps
<1>5. CASE SendReadyNonFinalizedQueued
  BY <1>5, SendReadyKeeps, Zenon
<1>6. CASE FinishBatch
  BY <1>6, FinishBatchKeeps, Zenon
<1>7. CASE PruneByHeight
  BY <1>7, PruneByHeightKeeps, Zenon
<1>8. CASE DropState
  BY <1>8, DropStateKeeps, Zenon
<1>9. CASE WriteFinalized
  BY <1>9, WriteFinalizedKeeps, Zenon
<1>10. CASE StartBlocks
  BY <1>10, StartBlocksKeeps, Zenon
<1>11. CASE WriterExits
  BY <1>11, WriterExitsKeeps, Zenon
<1>12. CASE WriteBlock
  BY <1>12, WriteBlockKeeps, Zenon
<1>13. ASSUME NEW c \in Block, Finalize(c) PROVE IInv'
  BY <1>13, FinalizeKeeps, Zenon
<1>14. ASSUME NEW w \in Awaited, AwaitUtxo(w) \/ ReadUtxo(w) \/ AwaitTimesOut(w) PROVE IInv'
  BY <1>14, UtxoStepKeeps, Zenon
<1>15. CASE UNCHANGED vars
  <2>1. UNCHANGED <<pc, work, blocks, by_parent, by_height, f_queue, f_open, last_sent, sent,
                    curr_buf, bufs, utxo, f_chan, n_chan, resets, writer, tip, db, chains,
                    errors, asked, answered, dropped>>
    BY <1>15, Zenon DEF vars, queueVars, finalizedVars, sentVars, writerVars
  <2>2. TypeOK' /\ QueueInv' /\ ServiceInv' /\ PhaseInv' /\ ChannelInv' /\ OrderInv'
    BY <2>1, Zenon DEF IInv, TypeOK, QueueInv, ServiceInv, PhaseInv, ChannelInv, OrderInv
  <2>3. SentInv' /\ ClosedInv' /\ ReadyInv'
    BY <2>1, Zenon DEF IInv, SentInv, ClosedInv, ReadyInv, Settled, Clear, Out
  <2>4. UtxoInv' /\ RequestsAreAccounted'
    BY <2>1, Zenon DEF IInv, UtxoInv, RequestsAreAccounted
  <2> QED BY <2>2, <2>3, <2>4, Zenon DEF IInv
<1>16. CASE Service
  BY <1>1, <1>2, <1>3, <1>4, <1>5, <1>6, <1>7, <1>8, <1>16, Zenon DEF Service
<1>17. CASE Writer
  BY <1>9, <1>10, <1>11, <1>12, <1>17, Zenon DEF Writer
<1> QED BY <1>13, <1>14, <1>15, <1>16, <1>17, Zenon DEF Next

\* The invariant holds in every state of the service and the write task.
THEOREM Invariance == Spec => []IInv
<1>1. Init => IInv
  BY InitIInv, Zenon
<1>2. IInv /\ [Next]_vars => IInv'
  BY NextIInv, Zenon
<1> QED BY <1>1, <1>2, PTL DEF Spec

\* The queue by hash and its two indexes agree, so the expects and the assertions of
\* dequeue_children and prune_by_height hold whatever is queued, sent and pruned.
THEOREM IndexesAgree == Spec => []QueueIndexesAgree
<1>1. IInv => QueueIndexesAgree
  BY Zenon DEF IInv, QueueInv, QueueIndexesAgree
<1> QED BY <1>1, Invariance, PTL

\* A request to commit a block is answered once, or its sender waits in exactly one
\* queue or channel, over replacements, resets, pruning, the hand over and the drop
\* of the state.
THEOREM RequestsAreAnsweredOnce == Spec => []RequestsAreAccounted
<1>1. IInv => RequestsAreAccounted
  BY Zenon DEF IInv
<1> QED BY <1>1, Invariance, PTL

\* No block is sent to the write task while an ancestor of it is queued, or before
\* an ancestor, and none that could be sent stays in the queue when
\* queue_and_commit_to_non_finalized_state has returned.
THEOREM BlocksAreSentWhenReady == Spec => []SentWhenReady
<1>1. ASSUME IInv PROVE SentWhenReady
  <2>1. TypeOK /\ ServiceInv /\ PhaseInv /\ ClosedInv /\ OrderInv /\ ReadyInv
    BY <1>1, Zenon DEF IInv
  <2>2. n_chan \in Seq(Block) /\ blocks \subseteq Block
    BY <2>1, Zenon DEF TypeOK
  <2>3. ASSUME NEW i \in DOMAIN n_chan PROVE Ancestors[n_chan[i]] \cap blocks = {}
    <3>1. ~f_open
      BY <2>1, <2>3 DEF PhaseInv
    <3>2. CASE dropped
      BY <2>1, <3>2, Zenon DEF ServiceInv
    <3>3. CASE ~dropped
      <4>1. n_chan[i] \in Out
        BY <2>3, Zenon DEF Out, Range
      <4>2. \A a \in Ancestors[n_chan[i]] : Clear(a)
        BY <2>1, <3>1, <3>3, <4>1, Zenon DEF ClosedInv
      <4> QED BY <4>2, Zenon DEF Clear
    <3> QED BY <3>2, <3>3, Zenon
  <2>4. ASSUME pc = "idle", ~f_open, ~dropped, NEW b \in blocks, CanForkChainAt(Parent[b])
        PROVE  Height[b] <= Height[tip]
    <3>1. work = <<>> /\ Range(work) = {}
      BY <2>1, <2>4 DEF ServiceInv, Range
    <3>2. pc # b
      BY <2>2, <2>4, QueueAssumption, Zenon
    <3>3. Parent[b] \in sent \cup {tip}
      BY <2>4, Zenon DEF CanForkChainAt
    <3> QED BY <2>1, <2>4, <3>1, <3>2, <3>3, Zenon DEF ReadyInv
  <2> QED BY <2>1, <2>3, <2>4, Zenon DEF SentWhenReady, OrderInv
<1> QED BY <1>1, Invariance, PTL

\* After a checkpoint block that fails, the write task either resets the service, or
\* still has all the blocks up to the last one that was sent: the checkpoint sync
\* always goes on.  After the hand over the channel holds nothing that would still
\* be written.
THEOREM CheckpointSyncGoesOn == Spec => []CheckpointsDoNotStall
<1>1. ASSUME IInv, writer = "checkpoint", ~dropped
      PROVE  /\ ~f_open => \A i \in DOMAIN f_chan : Height[f_chan[i][1]] # Height[tip] + 1
             /\ Len(resets) <= 1
             /\ resets = <<>> =>
                  /\ Height[tip] <= Height[last_sent]
                  /\ \A h \in Height[tip] + 1 .. Height[last_sent] :
                        \E i \in DOMAIN f_chan : Height[f_chan[i][1]] = h
  <2>1. /\ f_chan \in Seq(Block \X BOOLEAN) /\ tip \in Block /\ last_sent \in Block
    BY <1>1, Zenon DEF IInv, TypeOK
  <2>2. Len(f_chan) \in Nat /\ DOMAIN f_chan = 1 .. Len(f_chan)
    BY <2>1, BlocksOfChannel, Zenon
  <2>3. PICK n \in Nat : n = Len(f_chan)
    BY <2>2, Zenon
  <2>4. PICK t \in Nat, l \in Nat : t = Height[tip] /\ l = Height[last_sent]
    BY <2>1, HeightsAreNatural, Zenon
  <2>5. PICK k \in 0 .. n : /\ Continues(f_chan, k, tip) /\ Leads(f_chan, k, tip, last_sent, resets)
                            /\ ~f_open => k = n
    BY <1>1, <2>3, Zenon DEF IInv, ChannelInv
  <2>6. ASSUME ~f_open, NEW i \in DOMAIN f_chan PROVE Height[f_chan[i][1]] # Height[tip] + 1
    <3>1. i \in 1 .. k
      BY <2>2, <2>3, <2>5, <2>6, Zenon
    <3>2. Height[f_chan[i][1]] > Height[tip] + 1
      BY <2>5, <3>1, Zenon DEF Continues
    <3>3. Height[f_chan[i][1]] > t + 1
      BY <2>4, <3>2, Zenon
    <3>4. Height[f_chan[i][1]] \in Nat
      <4>1. i \in 1 .. Len(f_chan)
        BY <2>2, <2>6, Zenon
      <4>2. f_chan[i][1] \in Block
        BY <2>1, <4>1, BlocksOfChannel, Zenon
      <4> QED BY <4>2, HeightsAreNatural, Zenon
    <3>5. \A x \in Nat : x > t + 1 => x # t + 1
      OBVIOUS
    <3> QED BY <2>4, <3>3, <3>4, <3>5, Zenon
  <2>7. Len(resets) <= 1
    <3>1. resets = <<>> \/ resets = <<tip>>
      BY <2>5, Zenon DEF Leads
    <3>2. Len(<<>>) <= 1 /\ Len(<<tip>>) <= 1
      OBVIOUS
    <3> QED BY <3>1, <3>2, Zenon
  <2>8. ASSUME resets = <<>>
        PROVE  /\ Height[tip] <= Height[last_sent]
               /\ \A h \in Height[tip] + 1 .. Height[last_sent] :
                     \E i \in DOMAIN f_chan : Height[f_chan[i][1]] = h
    <3>1. <<>> # <<tip>>
      BY Zenon
    <3>2. l = t + (n - k)
      BY <2>3, <2>4, <2>5, <2>8, <3>1, Zenon DEF Leads
    <3>3. /\ t <= l
          /\ \A h \in t + 1 .. l : k + (h - t) \in k + 1 .. n /\ k + (h - t) \in 1 .. n
                                   /\ t + ((k + (h - t)) - k) = h
      BY <3>2
    <3>4. \A i \in k + 1 .. n : Height[f_chan[i][1]] = t + (i - k)
      BY <2>3, <2>4, <2>5, Zenon DEF Continues
    <3>5. ASSUME NEW h \in t + 1 .. l PROVE \E i \in DOMAIN f_chan : Height[f_chan[i][1]] = h
      <4>1. Height[f_chan[k + (h - t)][1]] = h
        BY <3>3, <3>4, Zenon
      <4>2. k + (h - t) \in DOMAIN f_chan
        BY <2>2, <2>3, <3>3, Zenon
      <4> QED BY <4>1, <4>2, Zenon
    <3> QED BY <2>4, <3>3, <3>5, Zenon
  <2> QED BY <2>6, <2>7, <2>8, Zenon
<1>2. IInv => CheckpointsDoNotStall
  BY <1>1, Zenon DEF CheckpointsDoNotStall
<1> QED BY <1>2, Invariance, PTL

\* A call of AwaitUtxo that is left waiting waits for a block that has not arrived,
\* whatever arrives between its look at the queues and its look at the state.
THEOREM NoWaiterIsMissed == Spec => []UtxoWaitersAreNotMissed
<1>1. IInv => UtxoWaitersAreNotMissed
  BY Zenon DEF IInv, UtxoInv, Exempt, UtxoWaitersAreNotMissed
<1> QED BY <1>1, Invariance, PTL
=============================================================================
