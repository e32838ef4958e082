---------------------------- MODULE SyncerProofs ----------------------------
(***************************************************************************)
(* The tasks and the cancel handles of the chain syncer agree, and the     *)
(* syncer never waits for the result of a task when there is none.         *)
(***************************************************************************)
EXTENDS Syncer, FiniteSetTheorems, TLAPS

-----------------------------------------------------------------------------
(* Naturals and finite sets.                                                *)

\* A nonempty set of naturals has a least element.
LEMMA LeastNatural ==
    ASSUME NEW T \in SUBSET Nat, T # {}
    PROVE  \E x \in T : \A y \in T : x <= y
<1>1. PICK x \in T : \A y \in T : ~(<<y, x>> \in OpToRel(<, Nat))
  BY NatLessThanWellFounded, WFMin, Zenon
<1>2. ASSUME NEW y \in T PROVE x <= y
  <2>1. x \in Nat /\ y \in Nat
    BY Zenon
  <2>2. ~(y < x)
    BY <1>1, <2>1, Zenon DEF OpToRel
  <2> QED BY <2>1, <2>2
<1> QED BY <1>2, Zenon

\* A finite nonempty set has a highest element.
LEMMA HighestOfFinite ==
    ASSUME NEW S, IsFiniteSet(S), S # {}, NEW h, \A x \in S : h[x] \in Nat
    PROVE  \E x \in S : \A y \in S : h[y] <= h[x]
<1> DEFINE Bad == {t \in SUBSET S : t # {} /\ ~ \E x \in t : \A y \in t : h[y] <= h[x]}
           Sizes == {Cardinality(t) : t \in Bad}
<1>1. SUFFICES ASSUME Bad # {} PROVE FALSE
  BY Zenon
<1>2. \A t \in SUBSET S : IsFiniteSet(t) /\ Cardinality(t) \in Nat
  BY FS_Subset, FS_CardinalityType, Zenon
<1>3. Sizes \in SUBSET Nat /\ Sizes # {}
  BY <1>1, <1>2, Zenon
<1>4. PICK n \in Sizes : \A m \in Sizes : n <= m
  <2> HIDE DEF Sizes
  <2> QED BY <1>3, LeastNatural, Zenon
<1>5. PICK t \in Bad : n = Cardinality(t)
  BY <1>4, Zenon
<1>6. PICK x \in t : TRUE
  BY <1>5, Zenon
<1> DEFINE u == t \ {x}
<1>7. u \notin Bad
  <2>1. SUFFICES ASSUME u \in Bad PROVE FALSE
    BY Zenon
  <2>2. Cardinality(u) \in Sizes
    BY <2>1, Zenon
  <2>3. n <= Cardinality(u)
    BY <1>4, <2>2, Zenon
  <2>4. Cardinality(u) = Cardinality(t) - 1
    BY <1>2, <1>5, <1>6, FS_RemoveElement, Zenon
  <2>5. Cardinality(t) \in Nat
    BY <1>2, <1>5, Zenon
  <2> HIDE DEF u
  <2> QED BY <1>5, <2>3, <2>4, <2>5
<1>8. CASE u = {}
  <2>1. \A y \in t : y = x
    BY <1>8, Zenon
  <2>2. h[x] <= h[x]
    <3>1. h[x] \in Nat
      BY <1>5, <1>6, Zenon
    <3> QED BY <3>1
  <2> QED BY <1>5, <1>6, <2>1, <2>2, Zenon
<1>9. CASE u # {}
  <2>1. PICK z \in u : \A y \in u : h[y] <= h[z]
    BY <1>5, <1>7, <1>9, Zenon
  <2>2. h[x] \in Nat /\ h[z] \in Nat /\ \A y \in u : h[y] \in Nat
    BY <1>5, <1>6, <2>1, Zenon
  <2>3. \A y \in t : y = x \/ y \in u
    BY Zenon
  <2>4. CASE h[x] <= h[z]
    <3>1. \A y \in t : h[y] <= h[z]
      BY <2>1, <2>3, <2>4, Zenon
    <3> QED BY <1>5, <2>1, <3>1, Zenon
  <2>5. CASE ~(h[x] <= h[z])
    <3>1. \A y \in u : h[y] <= h[x]
      <4> HIDE DEF u
      <4> QED BY <2>1, <2>2, <2>5
    <3>2. h[x] <= h[x]
      BY <2>2
    <3>3. \A y \in t : h[y] <= h[x]
      BY <2>3, <3>1, <3>2, Zenon
    <3> QED BY <1>5, <1>6, <3>3, Zenon
  <2> QED BY <2>4, <2>5, Zenon
<1> QED BY <1>8, <1>9, Zenon

-----------------------------------------------------------------------------
(* Recursions over 0 .. n.                                                  *)

\* The values of a recursion: the first one is base, and g gives the next one.
Recursion(S, n, base, g, f) ==
    /\ f \in [0 .. n -> S] /\ f[0] = base
    /\ \A i \in 1 .. n : f[i] = g[i][f[i - 1]]

\* A recursion whose steps stay in a set defines a function.
LEMMA RecursionExists ==
    ASSUME NEW S, NEW n \in Nat, NEW base \in S, NEW g \in [1 .. n -> [S -> S]]
    PROVE  \E f : Recursion(S, n, base, g, f)
<1> DEFINE Ok(m) == \E f : Recursion(S, m, base, g, f)
           Bad == {m \in 0 .. n : ~Ok(m)}
<1>1. SUFFICES ASSUME Bad # {} PROVE FALSE
  <2>1. n \in 0 .. n
    OBVIOUS
  <2> QED BY <2>1, Zenon
<1>2. PICK m \in Bad : \A k \in Bad : m <= k
  <2>1. Bad \in SUBSET Nat
    OBVIOUS
  <2> HIDE DEF Bad
  <2> QED BY <1>1, <2>1, LeastNatural, Zenon
<1>3. m # 0
  <2>1. SUFFICES Ok(0)
    BY <1>2, Zenon
  <2> DEFINE f == [i \in 0 .. 0 |-> base]
  <2>2. Recursion(S, 0, base, g, f)
    BY DEF Recursion
  <2> QED BY <2>2, Zenon
<1>4. Ok(m - 1)
  <2>1. m - 1 \in 0 .. n /\ ~(m <= m - 1)
    BY <1>3
  <2> QED BY <1>2, <2>1, Zenon
<1>5. PICK f : Recursion(S, m - 1, base, g, f)
  BY <1>4, Zenon
<1> DEFINE e == [i \in 0 .. m |-> IF i = m THEN g[m][f[m - 1]] ELSE f[i]]
<1>6. m \in 1 .. n
  BY <1>3
<1>7. f[m - 1] \in S
  BY <1>5, <1>6 DEF Recursion
<1>8. e \in [0 .. m -> S]
  <2>1. g[m][f[m - 1]] \in S
    BY <1>6, <1>7
  <2>2. ASSUME NEW i \in 0 .. m, i # m PROVE f[i] \in S
    BY <1>5, <1>6, <2>2 DEF Recursion
  <2> QED BY <2>1, <2>2, Zenon
<1>9. e[0] = base
  BY <1>5, <1>6 DEF Recursion
<1>10. ASSUME NEW i \in 1 .. m PROVE e[i] = g[i][e[i - 1]]
  <2>1. i - 1 \in 0 .. m /\ i - 1 # m /\ i \in 0 .. m
    BY <1>6
  <2>2. e[i - 1] = f[i - 1]
    BY <2>1, Zenon
  <2>3. CASE i = m
    BY <2>1, <2>2, <2>3, Zenon
  <2>4. CASE i # m
    <3>1. i \in 1 .. (m - 1)
      BY <1>6, <2>4
    <3> QED BY <1>5, <2>1, <2>2, <2>4, <3>1, Zenon DEF Recursion
  <2> QED BY <2>3, <2>4, Zenon
<1>11. Ok(m)
  <2> HIDE DEF e
  <2>1. Recursion(S, m, base, g, e)
    BY <1>8, <1>9, <1>10, Zenon DEF Recursion
  <2> QED BY <2>1, Zenon
<1> QED BY <1>2, <1>11, Zenon

\* What holds at 0 and is kept by every step holds everywhere.
LEMMA RecursionStays ==
    ASSUME NEW S, NEW n \in Nat, NEW f, f[0] \in S,
           \A i \in 1 .. n : f[i - 1] \in S => f[i] \in S
    PROVE  \A i \in 0 .. n : f[i] \in S
<1> DEFINE Bad == {i \in 0 .. n : f[i] \notin S}
<1>1. SUFFICES ASSUME Bad # {} PROVE FALSE
  BY Zenon
<1>2. PICK m \in Bad : \A k \in Bad : m <= k
  <2>1. Bad \in SUBSET Nat
    OBVIOUS
  <2> HIDE DEF Bad
  <2> QED BY <1>1, <2>1, LeastNatural, Zenon
<1>3. m # 0
  BY <1>2, Zenon
<1>4. m \in 1 .. n /\ m - 1 \in 0 .. n /\ ~(m <= m - 1)
  BY <1>3
<1>5. f[m - 1] \in S
  BY <1>2, <1>4, Zenon
<1> QED BY <1>2, <1>4, <1>5, Zenon

-----------------------------------------------------------------------------
(* The types of what the syncer computes.                                   *)

\* A subsequence of a list of hashes is a list of hashes.
LEMMA SubSeqType ==
    ASSUME NEW S, NEW s \in Seq(S), NEW m \in Nat \ {0}, NEW n \in Int, n <= Len(s)
    PROVE  SubSeq(s, m, n) \in Seq(S)
<1>1. m \in Int /\ \A i \in m .. n : s[i] \in S
  OBVIOUS
<1> QED BY <1>1

\* The hashes of a list are blocks.
LEMMA RangeType ==
    ASSUME NEW S, NEW s \in Seq(S)
    PROVE  Range(s) \subseteq S
BY DEF Range

\* The first of some blocks in a list has a place in it.
LEMMA FirstInType ==
    ASSUME NEW S, NEW s \in Seq(S), NEW T
    PROVE  FirstIn(s, T) \in 0 .. Len(s)
<1> DEFINE I == {i \in 1 .. Len(s) : s[i] \in T}
<1>1. FirstIn(s, T) = IF I = {} THEN 0 ELSE Min(I)
  BY Zenon DEF FirstIn
<1>2. \A i \in 1 .. Len(s) : i \in 0 .. Len(s)
  OBVIOUS
<1>3. CASE I = {}
  <2>1. 0 \in 0 .. Len(s)
    OBVIOUS
  <2> QED BY <1>1, <1>3, <2>1, Zenon
<1>4. CASE I # {}
  <2>1. I \in SUBSET Nat
    OBVIOUS
  <2>2. \E x \in I : \A y \in I : x <= y
    <3> HIDE DEF I
    <3> QED BY <1>4, <2>1, LeastNatural, Zenon
  <2>3. Min(I) \in I
    BY <2>2, Zenon DEF Min
  <2> QED BY <1>1, <1>2, <1>4, <2>3, Zenon
<1> QED BY <1>3, <1>4, Zenon

\* The last checkpoint has a height.
LEMMA MaxCheckpointType == max_checkpoint_height \in Nat
<1> DEFINE h == [i \in Nat |-> i]
<1>1. Checkpoint \subseteq Nat /\ IsFiniteSet(Checkpoint) /\ Checkpoint # {}
  BY SyncerAssumption, Zenon
<1>2. \A x \in Checkpoint : h[x] \in Nat /\ h[x] = x
  BY <1>1
<1>3. \E x \in Checkpoint : \A y \in Checkpoint : h[y] <= h[x]
  <2> HIDE DEF h
  <2> QED BY <1>1, <1>2, HighestOfFinite, Zenon
<1>4. \E x \in Checkpoint : \A y \in Checkpoint : y <= x
  <2> HIDE DEF h
  <2> QED BY <1>2, <1>3, Zenon
<1>5. max_checkpoint_height \in Checkpoint
  BY <1>4, Zenon DEF max_checkpoint_height
<1> QED BY <1>1, <1>5, Zenon

\* The best tip is a block.
LEMMA TipType ==
    ASSUME state \subseteq Block
    PROVE  Tip \in Block /\ Height[Tip] \in Nat
<1>1. IsFiniteSet(state) /\ \A x \in Block : Height[x] \in Nat
  BY SyncerAssumption, FS_Subset
<1>2. Tip \in Block
  <2>1. CASE state = {}
    BY <2>1, SyncerAssumption, Zenon DEF Tip
  <2>2. CASE state # {}
    <3>1. \E x \in state : \A y \in state : Height[y] <= Height[x]
      BY <1>1, <2>2, HighestOfFinite, Zenon
    <3>2. Tip \in state
      BY <2>2, <3>1, Zenon DEF Tip
    <3> QED BY <3>2, Zenon
  <2> QED BY <2>1, <2>2, Zenon
<1> QED BY <1>1, <1>2, Zenon

\* The limit is at least one of the two limits that the syncer is made with.
LEMMA LimitType ==
    ASSUME state \subseteq Block, NEW n \in Nat
    PROVE  /\ lookahead_limit(n) \in Nat
           /\ \/ lookahead_limit(n) >= full_verify_concurrency_limit
              \/ lookahead_limit(n) >= checkpoint_verify_concurrency_limit
<1> DEFINE v == Height[Tip]
           full == full_verify_concurrency_limit
           check == checkpoint_verify_concurrency_limit
<1>1. v \in Nat /\ max_checkpoint_height \in Nat
  BY TipType, MaxCheckpointType, Zenon
<1>2. full \in Nat /\ check \in Nat
  BY SyncerAssumption
<1>3. lookahead_limit(n) = IF v >= max_checkpoint_height THEN full
                           ELSE IF v + n >= max_checkpoint_height
                                THEN full + (v + n - max_checkpoint_height) ELSE check
  BY DEF lookahead_limit
<1> HIDE DEF v, full, check
<1>4. /\ lookahead_limit(n) \in Nat
      /\ lookahead_limit(n) >= full \/ lookahead_limit(n) >= check
  BY <1>1, <1>2, <1>3
<1> QED BY <1>4, Zenon DEF full, check

-----------------------------------------------------------------------------
(* The hashes that obtain_tips and extend_tips collect.                     *)

\* A set of hashes, in the order of insertion, that is extended by another.
LEMMA InsertAllType ==
    ASSUME NEW hashes \in Seq(Block), NEW more \in Seq(Block)
    PROVE  InsertAll(hashes, more) \in Seq(Block)
<1> DEFINE n == Len(more)
           g == [i \in 1 .. n |-> [s \in Seq(Block) |-> Insert(s, more[i])]]
           IsInserted(f) == f = [i \in 0 .. n |-> IF i = 0 THEN hashes
                                                  ELSE Insert(f[i - 1], more[i])]
<1>1. n \in Nat /\ \A i \in 1 .. n : more[i] \in Block
  OBVIOUS
<1>2. ASSUME NEW s \in Seq(Block), NEW b \in Block PROVE Insert(s, b) \in Seq(Block)
  BY DEF Insert
<1>3. g \in [1 .. n -> [Seq(Block) -> Seq(Block)]]
  <2> HIDE DEF n
  <2> QED BY <1>1, <1>2
<1>4. PICK e : Recursion(Seq(Block), n, hashes, g, e)
  <2> HIDE DEF n, g, IsInserted
  <2> QED BY <1>1, <1>3, RecursionExists, Zenon
<1>5. ASSUME NEW i \in 1 .. n PROVE e[i] = Insert(e[i - 1], more[i])
  <2> HIDE DEF n
  <2>1. e[i - 1] \in Seq(Block)
    BY <1>1, <1>4 DEF Recursion
  <2>2. e[i] = g[i][e[i - 1]]
    BY <1>4, Zenon DEF Recursion
  <2> QED BY <2>1, <2>2, Zenon
<1>6. IsInserted(e)
  <2> HIDE DEF n, g
  <2>1. ASSUME NEW i \in 0 .. n
        PROVE  e[i] = IF i = 0 THEN hashes ELSE Insert(e[i - 1], more[i])
    <3>1. i = 0 \/ i \in 1 .. n
      BY <1>1
    <3>2. i = 0 => e[i] = hashes
      BY <1>4, Zenon DEF Recursion
    <3>3. i \in 1 .. n => i # 0
      BY <1>1
    <3> QED BY <1>5, <3>1, <3>2, <3>3, Zenon
  <2>2. e = [i \in 0 .. n |-> e[i]]
    BY <1>4 DEF Recursion
  <2> QED BY <2>1, <2>2, Zenon
<1> DEFINE f == CHOOSE f : IsInserted(f)
<1>7. IsInserted(f)
  <2> HIDE DEF IsInserted
  <2> QED BY <1>6, Zenon
<1>8. InsertAll(hashes, more) = f[n]
  BY DEF InsertAll
<1>9. f[0] \in Seq(Block) /\ \A i \in 1 .. n : f[i - 1] \in Seq(Block) => f[i] \in Seq(Block)
  <2> HIDE DEF f, n
  <2>1. f[0] = hashes /\ \A i \in 1 .. n : f[i] = Insert(f[i - 1], more[i])
    BY <1>1, <1>7
  <2> QED BY <1>1, <1>2, <2>1, Zenon
<1>10. \A i \in 0 .. n : f[i] \in Seq(Block)
  <2> HIDE DEF f, n
  <2> QED BY <1>1, <1>9, RecursionStays, Zenon
<1>11. n \in 0 .. n
  <2> HIDE DEF n
  <2> QED BY <1>1
<1> QED BY <1>8, <1>10, <1>11, Zenon

\* What the responses of a fanout have given.
Found == [hashes : Seq(Block), tips : SUBSET CheckedTip]

\* A response adds hashes and tips of blocks.
LEMMA AddHashesType ==
    ASSUME NEW found \in Found, NEW unknown \in Seq(Block)
    PROVE  AddHashes(found, unknown) \in Found
<1> DEFINE n == Len(unknown)
           hs == InsertAll(found.hashes, unknown)
           kept == {t \in found.tips : t.expected_next \notin Range(unknown)}
           new == [tip |-> unknown[n - 1], expected_next |-> unknown[n]]
           ts == IF unknown[n] \in Range(found.hashes) THEN found.tips ELSE kept \cup {new}
<1>1. found.hashes \in Seq(Block) /\ found.tips \in SUBSET CheckedTip
  BY DEF Found
<1>2. CASE n < 2
  BY <1>2, Zenon DEF AddHashes
<1>3. CASE ~(n < 2)
  <2>1. hs \in Seq(Block)
    BY <1>1, InsertAllType, Zenon
  <2>2. unknown[n - 1] \in Block /\ unknown[n] \in Block
    BY <1>3
  <2>3. new \in CheckedTip
    BY <2>2 DEF CheckedTip
  <2>4. ts \in SUBSET CheckedTip
    <3> HIDE DEF new
    <3> QED BY <1>1, <2>3, Zenon
  <2>5. AddHashes(found, unknown) = [hashes |-> hs, tips |-> ts]
    BY <1>3, Zenon DEF AddHashes
  <2> HIDE DEF hs, ts
  <2> QED BY <2>1, <2>4, <2>5 DEF Found
<1> QED BY <1>2, <1>3, Zenon

\* So do the responses of a fanout.
LEMMA AddResponsesType ==
    ASSUME NEW found \in Found, NEW unknown \in [1 .. FANOUT -> Seq(Block)]
    PROVE  AddResponses(found, unknown) \in Found
<1> DEFINE g == [i \in 1 .. FANOUT |-> [x \in Found |-> AddHashes(x, unknown[i])]]
           IsAdded(f) == f = [i \in 0 .. FANOUT |-> IF i = 0 THEN found
                                                    ELSE AddHashes(f[i - 1], unknown[i])]
<1>1. FANOUT \in Nat /\ \A i \in 1 .. FANOUT : unknown[i] \in Seq(Block)
  BY SyncerAssumption, Zenon
<1>2. g \in [1 .. FANOUT -> [Found -> Found]]
  <2>1. ASSUME NEW i \in 1 .. FANOUT, NEW x \in Found PROVE AddHashes(x, unknown[i]) \in Found
    BY <1>1, AddHashesType, Zenon
  <2> QED BY <2>1, Zenon
<1>3. PICK e : Recursion(Found, FANOUT, found, g, e)
  <2> HIDE DEF g, IsAdded
  <2> QED BY <1>1, <1>2, RecursionExists, Zenon
<1>4. ASSUME NEW i \in 1 .. FANOUT PROVE e[i] = AddHashes(e[i - 1], unknown[i])
  <2>1. i - 1 \in 0 .. FANOUT
    BY <1>1
  <2>2. e[i - 1] \in Found
    <3> HIDE DEF g
    <3> QED BY <1>3, <2>1, Zenon DEF Recursion
  <2>3. e[i] = g[i][e[i - 1]]
    <3> HIDE DEF g
    <3> QED BY <1>3, Zenon DEF Recursion
  <2> QED BY <2>2, <2>3, Zenon
<1>5. IsAdded(e)
  <2> HIDE DEF g
  <2>1. ASSUME NEW i \in 0 .. FANOUT
        PROVE  e[i] = IF i = 0 THEN found ELSE AddHashes(e[i - 1], unknown[i])
    <3>1. i = 0 \/ i \in 1 .. FANOUT
      BY <1>1
    <3>2. i = 0 => e[i] = found
      BY <1>3, Zenon DEF Recursion
    <3>3. i \in 1 .. FANOUT => i # 0
      BY <1>1
    <3> QED BY <1>4, <3>1, <3>2, <3>3, Zenon
  <2>2. e = [i \in 0 .. FANOUT |-> e[i]]
    BY <1>3 DEF Recursion
  <2> QED BY <2>1, <2>2, Zenon
<1> DEFINE f == CHOOSE f : IsAdded(f)
<1>6. IsAdded(f)
  <2> HIDE DEF IsAdded
  <2> QED BY <1>5, Zenon
<1>7. AddResponses(found, unknown) = f[FANOUT]
  BY DEF AddResponses
<1>8. f[0] \in Found /\ \A i \in 1 .. FANOUT : f[i - 1] \in Found => f[i] \in Found
  <2> HIDE DEF f
  <2>1. f[0] = found /\ \A i \in 1 .. FANOUT : f[i] = AddHashes(f[i - 1], unknown[i])
    BY <1>1, <1>6
  <2> QED BY <1>1, <2>1, AddHashesType, Zenon
<1>9. \A i \in 0 .. FANOUT : f[i] \in Found
  <2> HIDE DEF f
  <2> QED BY <1>1, <1>8, RecursionStays, Zenon
<1>10. FANOUT \in 0 .. FANOUT
  BY <1>1
<1> QED BY <1>7, <1>9, <1>10, Zenon

\* A peer answers with hashes of blocks.
LEMMA AfterType ==
    ASSUME NEW chain \in Seq(Block), NEW known
    PROVE  After(chain, known) \in Seq(Block)
<1> DEFINE i == FirstIn(chain, {known})
           last == i + MAX_TIPS_RESPONSE_HASH_COUNT
           n == IF last < Len(chain) THEN last ELSE Len(chain)
<1>1. After(chain, known) = SubSeq(chain, i + 1, n)
  BY Zenon DEF After
<1>2. Len(chain) \in Nat /\ MAX_TIPS_RESPONSE_HASH_COUNT \in Nat
  BY SyncerAssumption
<1>3. i \in 0 .. Len(chain)
  BY FirstInType, Zenon
<1> HIDE DEF i
<1>4. i + 1 \in Nat \ {0} /\ n \in Int /\ n <= Len(chain)
  BY <1>2, <1>3
<1> HIDE DEF n
<1> QED BY <1>1, <1>4, SubSeqType, Zenon

\* So do the peers of a fanout.
LEMMA AnswersType ==
    ASSUME NEW known \in Block, NEW surprising, NEW rs \in Answers(known, surprising)
    PROVE  \A i \in 1 .. FANOUT : rs[i] \in Seq(Block)
<1> DEFINE best == After(BestPeer, known)
           tip == (<<Genesis>> \o BestPeer)[Len(BestPeer) + 1]
<1>1. BestPeer \in Seq(Block) /\ PeerChain \subseteq Seq(Block) /\ Genesis \in Block
  BY SyncerAssumption, Zenon
<1>2. best \in Seq(Block)
  BY <1>1, AfterType, Zenon
<1>3. tip \in Block
  <2> DEFINE s == <<Genesis>> \o BestPeer
  <2>1. s \in Seq(Block) /\ Len(s) = Len(BestPeer) + 1
    BY <1>1
  <2>2. s[Len(BestPeer) + 1] \in Block
    <3> HIDE DEF s
    <3> QED BY <1>1, <2>1
  <2> QED BY <2>2, Zenon
<1>4. SurprisingAnswers(known) \subseteq Seq(Block)
  <2>1. SurprisingAnswers(known) = {<<>>, <<tip>> \o best, Append(best, tip)}
                \cup {After(chain, known) : chain \in PeerChain \ {BestPeer}}
    BY Zenon DEF SurprisingAnswers
  <2>2. \A chain \in PeerChain : After(chain, known) \in Seq(Block)
    BY <1>1, AfterType, Zenon
  <2>3. <<>> \in Seq(Block) /\ <<tip>> \o best \in Seq(Block) /\ Append(best, tip) \in Seq(Block)
    <3> HIDE DEF best, tip
    <3> QED BY <1>2, <1>3
  <2> QED BY <2>1, <2>2, <2>3, Zenon
<1>5. \A i \in 1 .. FANOUT : rs[i] \in {best} \cup SurprisingAnswers(known)
  BY Zenon DEF Answers
<1> QED BY <1>2, <1>4, <1>5, Zenon

\* What is left of a list without its last hash, after the first unknown hash,
\* or after the expected one.
LEMMA UnknownHashesType ==
    ASSUME NEW hashes \in Seq(Block)
    PROVE  UnknownHashes(hashes) \in Seq(Block)
<1> DEFINE list == WithoutLast(hashes)
           first == FirstIn(list, Block \ state)
<1>1. list \in Seq(Block)
  <2>1. 1 \in Nat \ {0} /\ Len(hashes) - 1 \in Int /\ Len(hashes) - 1 <= Len(hashes)
    OBVIOUS
  <2> QED BY <2>1, SubSeqType, Zenon DEF WithoutLast
<1> HIDE DEF list
<1>2. Len(list) \in Nat
  BY <1>1
<1>3. first \in 0 .. Len(list)
  BY <1>1, FirstInType, Zenon
<1>4. UnknownHashes(hashes) = IF first = 0 THEN <<>> ELSE SubSeq(list, first, Len(list))
  BY Zenon DEF UnknownHashes, list
<1> HIDE DEF first
<1>5. CASE first = 0
  <2>1. <<>> \in Seq(Block)
    OBVIOUS
  <2> QED BY <1>4, <1>5, <2>1, Zenon
<1>6. CASE first # 0
  <2>1. first \in Nat \ {0} /\ Len(list) \in Int /\ Len(list) <= Len(list)
    BY <1>2, <1>3, <1>6
  <2> QED BY <1>1, <1>4, <1>6, <2>1, SubSeqType, Zenon
<1> QED BY <1>5, <1>6, Zenon

\* So for extend_tips.
LEMMA HashesAfterType ==
    ASSUME NEW hashes \in Seq(Block), NEW expected_next
    PROVE  HashesAfter(hashes, expected_next) \in Seq(Block)
<1>1. ASSUME NEW s \in Seq(Block) PROVE WithoutLast(s) \in Seq(Block)
  <2>1. 1 \in Nat \ {0} /\ Len(s) - 1 \in Int /\ Len(s) - 1 <= Len(s)
    OBVIOUS
  <2> QED BY <2>1, SubSeqType, Zenon DEF WithoutLast
<1>2. Len(hashes) >= 1 => Tail(hashes) \in Seq(Block)
  OBVIOUS
<1>3. SubSeq(hashes, 3, Len(hashes)) \in Seq(Block)
  <2>1. 3 \in Nat \ {0} /\ Len(hashes) \in Int /\ Len(hashes) <= Len(hashes)
    OBVIOUS
  <2> QED BY <2>1, SubSeqType, Zenon
<1>4. <<>> \in Seq(Block)
  OBVIOUS
<1> QED BY <1>1, <1>2, <1>3, <1>4, Zenon DEF HashesAfter

-----------------------------------------------------------------------------
(* The tasks and their handles.                                             *)

Statuses == {"none", "download", "verify"} \cup Results

\* The part of the invariant that is about Downloads.
DownloadsOK ==
    /\ pending \in [Block -> Statuses] /\ cancel_handles \subseteq Block
    /\ cancel_handles = Tasks

\* A task goes on, or ends, and stays in pending until its result is taken.
LEMMA TaskGoesOn ==
    ASSUME DownloadsOK, NEW b \in Block, pending[b] # "none",
           NEW r \in Statuses \ {"none"}, pending' = [pending EXCEPT ![b] = r],
           cancel_handles' = cancel_handles
    PROVE  DownloadsOK' /\ Tasks' = Tasks
<1>1. pending' \in [Block -> Statuses]
  BY DEF DownloadsOK
<1>2. \A x \in Block : pending'[x] # "none" <=> pending[x] # "none"
  <2>1. \A x \in Block : pending'[x] = IF x = b THEN r ELSE pending[x]
    BY DEF DownloadsOK
  <2>2. r # "none"
    BY Zenon
  <2> QED BY <2>1, <2>2, Zenon
<1>3. Tasks' = Tasks
  BY <1>2, Zenon DEF Tasks
<1> QED BY <1>1, <1>3, Zenon DEF DownloadsOK

\* poll_next takes the task and its handle together.
LEMMA PollNextKeeps ==
    ASSUME DownloadsOK, NEW b \in Block, PollNext(b)
    PROVE  DownloadsOK'
<1>1. pending' \in [Block -> Statuses]
  BY DEF DownloadsOK, PollNext, Statuses
<1>2. \A x \in Block : pending'[x] = IF x = b THEN "none" ELSE pending[x]
  BY DEF DownloadsOK, PollNext
<1>3. Tasks' = Tasks \ {b}
  BY <1>2, Zenon DEF Tasks
<1> QED BY <1>1, <1>3, Zenon DEF DownloadsOK, PollNext

\* Every hash that is queued gets a task and a handle.
LEMMA QueueDownloadsKeeps ==
    ASSUME DownloadsOK, NEW hashes \in Seq(Block), QueueDownloads(hashes)
    PROVE  DownloadsOK' /\ Tasks \subseteq Tasks' /\ Range(hashes) \subseteq Tasks'
<1>1. Range(hashes) \subseteq Block
  BY RangeType, Zenon
<1>2. pending' = [b \in Block |-> IF b \in Range(hashes) THEN "download" ELSE pending[b]]
  BY Zenon DEF QueueDownloads
<1>3. \A x \in Block : pending'[x] = IF x \in Range(hashes) THEN "download" ELSE pending[x]
  BY <1>2, Zenon
<1>4. pending' \in [Block -> Statuses]
  <2>1. \A x \in Block : pending[x] \in Statuses
    BY Zenon DEF DownloadsOK
  <2>2. "download" \in Statuses
    BY DEF Statuses
  <2> QED BY <1>2, <2>1, <2>2, Zenon
<1>5. Tasks' = Tasks \cup Range(hashes)
  <2>1. "download" # "none"
    OBVIOUS
  <2> QED BY <1>1, <1>3, <2>1, Zenon DEF Tasks
<1>6. cancel_handles' = cancel_handles \cup Range(hashes)
  BY Zenon DEF QueueDownloads
<1> QED BY <1>1, <1>4, <1>5, <1>6, Zenon DEF DownloadsOK

\* A request queues a part of the hashes and leaves a part of them.
LEMMA RequestBlocksKeeps ==
    ASSUME DownloadsOK, state \subseteq Block, NEW hashes \in Seq(Block), RequestBlocks(hashes)
    PROVE  DownloadsOK' /\ extra_hashes' \in Seq(Block)
<1> DEFINE limit == lookahead_limit(Len(hashes))
           n == IF Len(hashes) > limit THEN limit ELSE Len(hashes)
           now == SubSeq(hashes, 1, n)
           dup == FirstIn(now, cancel_handles)
<1>1. Len(hashes) \in Nat
  OBVIOUS
<1>2. limit \in Nat
  BY <1>1, LimitType, Zenon
<1>3. /\ QueueDownloads(IF dup = 0 THEN now ELSE SubSeq(now, 1, dup - 1))
      /\ extra_hashes' = IF dup = 0 THEN SubSeq(hashes, Len(now) + 1, Len(hashes)) ELSE <<>>
  <2> DEFINE cut(l) == SubSeq(hashes, 1, IF Len(hashes) > l THEN l ELSE Len(hashes))
             place(l) == FirstIn(cut(l), cancel_handles)
  <2>1. \E l \in {limit} :
          /\ QueueDownloads(IF place(l) = 0 THEN cut(l) ELSE SubSeq(cut(l), 1, place(l) - 1))
          /\ extra_hashes' = IF place(l) = 0 THEN SubSeq(hashes, Len(cut(l)) + 1, Len(hashes))
                             ELSE <<>>
    BY Zenon DEF RequestBlocks
  <2>2. place(limit) = dup /\ cut(limit) = now
    BY Zenon
  <2> HIDE DEF limit, dup, now, cut, place
  <2> QED BY <2>1, <2>2, Zenon
<1> HIDE DEF limit
<1>4. n \in Int /\ n <= Len(hashes) /\ 1 \in Nat \ {0}
  BY <1>1, <1>2
<1> HIDE DEF n
<1>5. now \in Seq(Block)
  BY <1>4, SubSeqType, Zenon
<1> HIDE DEF now
<1>6. Len(now) \in Nat
  BY <1>5
<1>7. dup \in 0 .. Len(now)
  BY <1>5, FirstInType, Zenon
<1> HIDE DEF dup
<1>8. SubSeq(now, 1, dup - 1) \in Seq(Block)
  <2>1. dup - 1 \in Int /\ dup - 1 <= Len(now)
    BY <1>6, <1>7
  <2> QED BY <1>4, <1>5, <2>1, SubSeqType, Zenon
<1>9. DownloadsOK'
  BY <1>3, <1>5, <1>8, QueueDownloadsKeeps, Zenon
<1>10. extra_hashes' \in Seq(Block)
  <2>1. Len(now) + 1 \in Nat \ {0} /\ Len(hashes) \in Int /\ Len(hashes) <= Len(hashes)
    BY <1>1, <1>6
  <2>2. SubSeq(hashes, Len(now) + 1, Len(hashes)) \in Seq(Block)
    BY <2>1, SubSeqType, Zenon
  <2>3. <<>> \in Seq(Block)
    OBVIOUS
  <2> QED BY <1>3, <2>2, <2>3, Zenon
<1> QED BY <1>9, <1>10, Zenon

\* cancel_all leaves no task and no handle.
LEMMA CancelAllKeeps ==
    ASSUME queued \subseteq Block, CancelAll
    PROVE  DownloadsOK' /\ past_lookahead_limit' \in BOOLEAN /\ queued' \subseteq Block
<1>1. pending' = [b \in Block |-> "none"] /\ cancel_handles' = {}
  BY Zenon DEF CancelAll
<1>2. pending' \in [Block -> Statuses] /\ \A x \in Block : pending'[x] = "none"
  BY <1>1 DEF Statuses
<1>3. Tasks' = {}
  BY <1>2, Zenon DEF Tasks
<1>4. past_lookahead_limit' \in BOOLEAN /\ queued' \subseteq Block
  BY Zenon DEF CancelAll
<1> QED BY <1>1, <1>2, <1>3, <1>4, Zenon DEF DownloadsOK

-----------------------------------------------------------------------------
(* The other variables.                                                     *)

\* The lengths of the last syncs.
LEMMA PushLengthType ==
    ASSUME recent_syncs \in Seq(Nat), NEW length \in Nat, PushLength(length)
    PROVE  recent_syncs' \in Seq(Nat)
<1> DEFINE s == <<length>> \o recent_syncs
           n == IF Len(recent_syncs) < MAX_RECENT_LENGTHS
                THEN Len(recent_syncs) + 1 ELSE MAX_RECENT_LENGTHS
<1>1. MAX_RECENT_LENGTHS \in Nat /\ Len(recent_syncs) \in Nat
  BY SyncerAssumption
<1>2. s \in Seq(Nat) /\ Len(s) = Len(recent_syncs) + 1
  OBVIOUS
<1>3. n \in Int /\ n <= Len(recent_syncs) + 1 /\ 1 \in Nat \ {0}
  BY <1>1
<1>4. recent_syncs' = SubSeq(s, 1, n)
  BY Zenon DEF PushLength
<1> HIDE DEF s, n
<1>5. SubSeq(s, 1, n) \in Seq(Nat)
  BY <1>2, <1>3, SubSeqType, Zenon
<1> QED BY <1>4, <1>5, Zenon

\* The number of surprises stays in its bound.
LEMMA SurpriseType ==
    ASSUME surprises \in 0 .. MaxSurprises, NEW n \in Nat, Surprise(n)
    PROVE  surprises' \in 0 .. MaxSurprises
<1>1. MaxSurprises \in Nat
  BY SyncerAssumption
<1> QED BY <1>1 DEF Surprise

\* A number of surprising answers.
LEMMA SurprisingType ==
    ASSUME NEW surprising \in SUBSET (1 .. FANOUT)
    PROVE  Cardinality(surprising) \in Nat
<1>1. FANOUT \in Nat
  BY SyncerAssumption
<1>2. IsFiniteSet(1 .. FANOUT)
  BY <1>1, FS_Interval
<1> QED BY <1>2, FS_Subset, FS_CardinalityType, Zenon

Stages ==
    {"genesis", "genesis_wait", "start", "obtain", "check", "poll", "pause", "await", "extend",
     "sleep"}

\* The part of the invariant that is not about Downloads.
SyncerOK ==
    /\ sync \in Stages /\ locator \in Block
    /\ prospective_tips \subseteq CheckedTip /\ old_tips \subseteq CheckedTip
    /\ download_set \in Seq(Block) /\ extra_hashes \in Seq(Block) /\ recent_syncs \in Seq(Nat)
    /\ past_lookahead_limit \in BOOLEAN /\ queued \subseteq Block /\ state \subseteq Block
    /\ surprises \in 0 .. MaxSurprises

\* The two parts are the invariant.
LEMMA InvariantParts ==
    /\ HandlesMatchTasks <=> SyncerOK /\ DownloadsOK
    /\ HandlesMatchTasks' <=> SyncerOK' /\ DownloadsOK'
<1>1. HandlesMatchTasks <=> SyncerOK /\ DownloadsOK
  BY Zenon DEF HandlesMatchTasks, TypeOK, SyncerOK, DownloadsOK, Stages, Statuses
<1>2. HandlesMatchTasks' <=> SyncerOK' /\ DownloadsOK'
  BY Zenon DEF HandlesMatchTasks, TypeOK, SyncerOK, DownloadsOK, Stages, Statuses
<1> QED BY <1>1, <1>2, Zenon

\* What leaves the downloads alone keeps the handles and the tasks.
LEMMA DownloadsUnchanged ==
    ASSUME DownloadsOK, UNCHANGED <<pending, cancel_handles>>
    PROVE  DownloadsOK' /\ Tasks' = Tasks
BY Zenon DEF DownloadsOK, Tasks

\* After an error the syncer starts again without tasks.
LEMMA RestartKeeps ==
    ASSUME SyncerOK, Restart, surprises' \in 0 .. MaxSurprises,
           UNCHANGED <<prospective_tips, recent_syncs, state>>
    PROVE  SyncerOK' /\ DownloadsOK'
<1>1. DownloadsOK' /\ past_lookahead_limit' \in BOOLEAN /\ queued' \subseteq Block
  BY CancelAllKeeps, Zenon DEF SyncerOK, Restart
<1>2. sync' \in Stages /\ locator' \in Block
  BY SyncerAssumption, Zenon DEF Restart, Stages
<1>3. old_tips' = {} /\ download_set' = <<>> /\ extra_hashes' = <<>>
  BY Zenon DEF Restart
<1>4. <<>> \in Seq(Block)
  OBVIOUS
<1> QED BY <1>1, <1>2, <1>3, <1>4, Zenon DEF SyncerOK

\* The loop of try_to_sync goes on or ends.
LEMMA ContinueType ==
    ASSUME Continue
    PROVE  sync' \in {"sleep", "poll"} /\ sync' \in Stages
BY Zenon DEF Continue, Stages

-----------------------------------------------------------------------------
(* Every step keeps the invariant.                                          *)

\* The steps of the tasks, of the verifiers and of the inbound service.
LEMMA TaskStepsKeep ==
    ASSUME SyncerOK, DownloadsOK, NEW b \in Block,
           \/ TaskSteps(b) \/ Gossip(b) \/ \E result \in Results : DownloadFails(b, result)
    PROVE  SyncerOK' /\ DownloadsOK' /\ Tasks' = Tasks /\ sync' = sync
<1>1. CASE BlockArrives(b)
  <2>1. pending[b] # "none" /\ {"restart", "ignored", "verify"} \subseteq Statuses \ {"none"}
    BY <1>1 DEF BlockArrives, Statuses, Results
  <2>2. /\ \E r \in {"restart", "ignored", "verify"} : TaskEnds(b, r)
        /\ cancel_handles' = cancel_handles
    BY <1>1, Zenon DEF BlockArrives
  <2>3. DownloadsOK' /\ Tasks' = Tasks
    BY <2>1, <2>2, TaskGoesOn, Zenon DEF TaskEnds
  <2>4. past_lookahead_limit' \in BOOLEAN
    <3>1. PastLookaheadLimit(b) \in BOOLEAN
      BY Zenon DEF PastLookaheadLimit, SyncerOK
    <3> QED BY <1>1, <3>1, Zenon DEF BlockArrives, SyncerOK
  <2>5. queued' \subseteq Block
    BY <1>1, Zenon DEF BlockArrives, SyncerOK
  <2>6. UNCHANGED <<sync, locator, prospective_tips, old_tips, download_set, extra_hashes,
                    recent_syncs, state, surprises>>
    BY <1>1, Zenon DEF BlockArrives, syncer
  <2> QED BY <2>3, <2>4, <2>5, <2>6, Zenon DEF SyncerOK
<1>2. CASE VerifierCommits(b)
  <2> DEFINE r == IF pending[b] = "verify" THEN "ok" ELSE pending[b]
  <2>1. pending' = [pending EXCEPT ![b] = r] /\ cancel_handles' = cancel_handles
    BY <1>2 DEF VerifierCommits
  <2>2. CASE pending[b] = "none"
    <3>1. pending' = pending
      BY <2>1, <2>2 DEF DownloadsOK
    <3>2. DownloadsOK' /\ Tasks' = Tasks
      BY <2>1, <3>1, DownloadsUnchanged, Zenon
    <3>3. UNCHANGED <<sync, locator, prospective_tips, old_tips, download_set, extra_hashes,
                      recent_syncs, past_lookahead_limit, surprises>>
          /\ queued' \subseteq Block /\ state' \subseteq Block
      BY <1>2, Zenon DEF VerifierCommits, syncer, SyncerOK
    <3> QED BY <3>2, <3>3, Zenon DEF SyncerOK
  <2>3. CASE pending[b] # "none"
    <3>1. r \in Statuses \ {"none"}
      BY <2>3 DEF DownloadsOK, Statuses, Results
    <3>2. DownloadsOK' /\ Tasks' = Tasks
      <4> HIDE DEF r
      <4> QED BY <2>1, <2>3, <3>1, TaskGoesOn, Zenon
    <3>3. UNCHANGED <<sync, locator, prospective_tips, old_tips, download_set, extra_hashes,
                      recent_syncs, past_lookahead_limit, surprises>>
          /\ queued' \subseteq Block /\ state' \subseteq Block
      BY <1>2, Zenon DEF VerifierCommits, syncer, SyncerOK
    <3> QED BY <3>2, <3>3, Zenon DEF SyncerOK
  <2> QED BY <2>2, <2>3, Zenon
<1>3. CASE VerifyTimesOut(b)
  <2>1. pending[b] # "none" /\ "restart" \in Statuses \ {"none"}
    BY <1>3 DEF VerifyTimesOut, Statuses, Results
  <2>2. TaskEnds(b, "restart") /\ cancel_handles' = cancel_handles
    BY <1>3, Zenon DEF VerifyTimesOut
  <2>3. DownloadsOK' /\ Tasks' = Tasks
    BY <2>1, <2>2, TaskGoesOn, Zenon DEF TaskEnds
  <2>4. surprises' \in 0 .. MaxSurprises
    <3>1. surprises' = surprises \/ Surprise(1)
      BY <1>3, Zenon DEF VerifyTimesOut
    <3>2. 1 \in Nat
      OBVIOUS
    <3> QED BY <3>1, <3>2, SurpriseType, Zenon DEF SyncerOK
  <2>5. UNCHANGED <<sync, locator, prospective_tips, old_tips, download_set, extra_hashes,
                    recent_syncs, past_lookahead_limit, state>> /\ queued' \subseteq Block
    BY <1>3, Zenon DEF VerifyTimesOut, syncer, SyncerOK
  <2> QED BY <2>3, <2>4, <2>5, Zenon DEF SyncerOK
<1>4. CASE Gossip(b)
  <2>1. 1 \in Nat
    OBVIOUS
  <2>2. surprises' \in 0 .. MaxSurprises
    BY <1>4, <2>1, SurpriseType, Zenon DEF Gossip, SyncerOK
  <2>3. UNCHANGED <<sync, locator, prospective_tips, old_tips, download_set, extra_hashes,
                    recent_syncs, pending, cancel_handles, past_lookahead_limit, state>>
        /\ queued' \subseteq Block
    BY <1>4, Zenon DEF Gossip, syncer, downloads, SyncerOK
  <2>4. DownloadsOK' /\ Tasks' = Tasks
    BY <2>3, DownloadsUnchanged, Zenon
  <2> QED BY <2>2, <2>3, <2>4, Zenon DEF SyncerOK
<1>5. ASSUME NEW result \in Results, DownloadFails(b, result)
      PROVE  SyncerOK' /\ DownloadsOK' /\ Tasks' = Tasks /\ sync' = sync
  <2>1. pending[b] # "none" /\ result \in Statuses \ {"none"}
    BY <1>5 DEF DownloadFails, Statuses, Results
  <2>2. TaskEnds(b, result) /\ cancel_handles' = cancel_handles
    BY <1>5, Zenon DEF DownloadFails
  <2>3. DownloadsOK' /\ Tasks' = Tasks
    BY <2>1, <2>2, TaskGoesOn, Zenon DEF TaskEnds
  <2>4. 1 \in Nat
    OBVIOUS
  <2>5. surprises' \in 0 .. MaxSurprises
    BY <1>5, <2>4, SurpriseType, Zenon DEF DownloadFails, SyncerOK
  <2>6. UNCHANGED <<sync, locator, prospective_tips, old_tips, download_set, extra_hashes,
                    recent_syncs, past_lookahead_limit, queued, state>>
    BY <1>5, Zenon DEF DownloadFails, syncer
  <2> QED BY <2>3, <2>5, <2>6, Zenon DEF SyncerOK
<1> QED BY <1>1, <1>2, <1>3, <1>4, <1>5, Zenon DEF TaskSteps

\* request_genesis.
LEMMA GenesisKeeps ==
    ASSUME SyncerOK, DownloadsOK, GenesisSteps \/ GenesisTimesOut
    PROVE  SyncerOK' /\ DownloadsOK'
<1>1. CASE RequestGenesis
  <2>1. DownloadsOK'
    <3>1. CASE Genesis \in cancel_handles
      BY <1>1, <3>1, DownloadsUnchanged, Zenon DEF RequestGenesis
    <3>2. CASE Genesis \notin cancel_handles
      <4>1. <<Genesis>> \in Seq(Block)
        BY SyncerAssumption
      <4> QED BY <1>1, <3>2, <4>1, QueueDownloadsKeeps, Zenon DEF RequestGenesis
    <3> QED BY <3>1, <3>2, Zenon
  <2> QED BY <1>1, <2>1, Zenon DEF RequestGenesis, SyncerOK, Stages
<1>2. CASE GenesisIsKnown
  <2>1. DownloadsOK'
    BY <1>2, DownloadsUnchanged, Zenon DEF GenesisIsKnown, downloads
  <2> QED BY <1>2, <2>1, Zenon DEF GenesisIsKnown, downloads, SyncerOK, Stages
<1>3. ASSUME NEW b \in Block, GenesisResponse(b) PROVE SyncerOK' /\ DownloadsOK'
  <2>1. DownloadsOK'
    BY <1>3, PollNextKeeps, Zenon DEF GenesisResponse
  <2> QED BY <1>3, <2>1, Zenon DEF GenesisResponse, SyncerOK, Stages
<1>4. CASE GenesisTimesOut
  <2>1. DownloadsOK'
    BY <1>4, DownloadsUnchanged, Zenon DEF GenesisTimesOut, downloads
  <2>2. 1 \in Nat
    OBVIOUS
  <2>3. surprises' \in 0 .. MaxSurprises
    BY <1>4, <2>2, SurpriseType, Zenon DEF GenesisTimesOut, SyncerOK
  <2> QED BY <1>4, <2>1, <2>3, Zenon DEF GenesisTimesOut, downloads, SyncerOK, Stages
<1> QED BY <1>1, <1>2, <1>3, <1>4, Zenon DEF GenesisSteps

\* The answers of a fanout, to obtain_tips and to extend_tips.
LEMMA ResponsesKeep ==
    ASSUME SyncerOK, DownloadsOK,
           ObtainTipsResponses \/ \E t \in old_tips : ExtendTipsResponses(t)
    PROVE  SyncerOK' /\ DownloadsOK'
<1>1. ASSUME NEW base \in Found, NEW unknown, NEW found \in {AddResponses(base, unknown)},
             unknown \in [1 .. FANOUT -> Seq(Block)],
             download_set' = found.hashes, prospective_tips' = found.tips
      PROVE  download_set' \in Seq(Block) /\ prospective_tips' \subseteq CheckedTip
  <2>1. found \in Found
    BY <1>1, AddResponsesType, Zenon
  <2>2. found.hashes \in Seq(Block) /\ found.tips \in SUBSET CheckedTip
    BY <2>1 DEF Found
  <2> QED BY <1>1, <2>2, Zenon
<1>2. CASE ObtainTipsResponses
  <2> DEFINE base == [hashes |-> <<>>, tips |-> {}]
             Unknown(rs) == [i \in 1 .. FANOUT |-> UnknownHashes(rs[i])]
  <2>1. base \in Found
    BY DEF Found
  <2>2. PICK surprising \in SUBSET (1 .. FANOUT) :
            /\ Surprise(Cardinality(surprising))
            /\ \E rs \in Answers(locator, surprising) :
               \E unknown \in {Unknown(rs)} :
               \E found \in {AddResponses(base, unknown)} :
                    download_set' = found.hashes /\ prospective_tips' = found.tips
    BY <1>2, Zenon DEF ObtainTipsResponses
  <2>3. surprises' \in 0 .. MaxSurprises
    BY <2>2, SurprisingType, SurpriseType, Zenon DEF SyncerOK
  <2>4. PICK rs \in Answers(locator, surprising) :
            \E unknown \in {Unknown(rs)} :
            \E found \in {AddResponses(base, unknown)} :
                download_set' = found.hashes /\ prospective_tips' = found.tips
    BY <2>2, Zenon
  <2>5. Unknown(rs) \in [1 .. FANOUT -> Seq(Block)]
    <3>1. \A i \in 1 .. FANOUT : rs[i] \in Seq(Block)
      BY <2>4, AnswersType, Zenon DEF SyncerOK
    <3>2. \A i \in 1 .. FANOUT : UnknownHashes(rs[i]) \in Seq(Block)
      BY <3>1, UnknownHashesType, Zenon
    <3> QED BY <3>2, Zenon
  <2>6. download_set' \in Seq(Block) /\ prospective_tips' \subseteq CheckedTip
    <3> HIDE DEF base, Unknown
    <3> QED BY <1>1, <2>1, <2>4, <2>5, Zenon
  <2>7. DownloadsOK'
    BY <1>2, DownloadsUnchanged, Zenon DEF ObtainTipsResponses, downloads
  <2>8. /\ UNCHANGED <<old_tips, extra_hashes, recent_syncs, past_lookahead_limit, queued, state>>
        /\ sync' \in Stages /\ locator' \in Block
    BY <1>2, SyncerAssumption, Zenon DEF ObtainTipsResponses, downloads, Stages
  <2> QED BY <2>3, <2>6, <2>7, <2>8, Zenon DEF SyncerOK
<1>3. ASSUME NEW t \in old_tips, ExtendTipsResponses(t) PROVE SyncerOK' /\ DownloadsOK'
  <2> DEFINE base == [hashes |-> download_set, tips |-> prospective_tips]
             Unknown(rs) == [i \in 1 .. FANOUT |-> HashesAfter(rs[i], t.expected_next)]
  <2>1. base \in Found
    BY DEF Found, SyncerOK
  <2>2. PICK surprising \in SUBSET (1 .. FANOUT) :
            /\ Surprise(Cardinality(surprising))
            /\ \E rs \in Answers(t.tip, surprising) :
               \E unknown \in {Unknown(rs)} :
               \E found \in {AddResponses(base, unknown)} :
                    download_set' = found.hashes /\ prospective_tips' = found.tips
    BY <1>3, Zenon DEF ExtendTipsResponses
  <2>3. surprises' \in 0 .. MaxSurprises
    BY <2>2, SurprisingType, SurpriseType, Zenon DEF SyncerOK
  <2>4. PICK rs \in Answers(t.tip, surprising) :
            \E unknown \in {Unknown(rs)} :
            \E found \in {AddResponses(base, unknown)} :
                download_set' = found.hashes /\ prospective_tips' = found.tips
    BY <2>2, Zenon
  <2>5. Unknown(rs) \in [1 .. FANOUT -> Seq(Block)]
    <3>1. t.tip \in Block
      BY DEF SyncerOK, CheckedTip
    <3>2. \A i \in 1 .. FANOUT : rs[i] \in Seq(Block)
      BY <2>4, <3>1, AnswersType, Zenon
    <3>3. \A i \in 1 .. FANOUT : HashesAfter(rs[i], t.expected_next) \in Seq(Block)
      BY <3>2, HashesAfterType, Zenon
    <3> QED BY <3>3, Zenon
  <2>6. download_set' \in Seq(Block) /\ prospective_tips' \subseteq CheckedTip
    <3> HIDE DEF base, Unknown
    <3> QED BY <1>1, <2>1, <2>4, <2>5, Zenon
  <2>7. DownloadsOK'
    BY <1>3, DownloadsUnchanged, Zenon DEF ExtendTipsResponses, downloads
  <2>8. /\ UNCHANGED <<sync, locator, extra_hashes, recent_syncs, past_lookahead_limit, queued,
                       state>>
        /\ old_tips' \subseteq old_tips
    BY <1>3, Zenon DEF ExtendTipsResponses, downloads
  <2> QED BY <2>3, <2>6, <2>7, <2>8, Zenon DEF SyncerOK
<1> QED BY <1>2, <1>3, Zenon

\* The requests for blocks.
LEMMA RequestsKeep ==
    ASSUME SyncerOK, DownloadsOK, ObtainTipsRequests \/ RequestExtra \/ ExtendTipsRequests
    PROVE  SyncerOK' /\ DownloadsOK'
<1>1. <<>> \in Seq(Block) /\ Len(download_set) \in Nat
  BY DEF SyncerOK
<1>2. ASSUME NEW hashes \in Seq(Block), RequestBlocks(hashes)
      PROVE  DownloadsOK' /\ extra_hashes' \in Seq(Block)
  BY <1>2, RequestBlocksKeeps, Zenon DEF SyncerOK
<1>3. PushLength(Len(download_set)) => recent_syncs' \in Seq(Nat)
  BY <1>1, PushLengthType, Zenon DEF SyncerOK
<1>4. Continue => sync' \in Stages
  BY ContinueType, Zenon
<1>5. CASE ObtainTipsRequests
  <2>1. CASE Range(download_set) \cap state # {}
    <3>1. Restart /\ UNCHANGED <<prospective_tips, recent_syncs, state, surprises>>
      BY <1>5, <2>1, Zenon DEF ObtainTipsRequests
    <3> QED BY <3>1, RestartKeeps, Zenon DEF SyncerOK
  <2>2. CASE Range(download_set) \cap state = {}
    <3>1. /\ PushLength(Len(download_set)) /\ RequestBlocks(download_set) /\ Continue
          /\ download_set' = <<>>
          /\ UNCHANGED <<prospective_tips, locator, old_tips, past_lookahead_limit, queued, state,
                         surprises>>
      BY <1>5, <2>2, Zenon DEF ObtainTipsRequests
    <3> QED BY <1>1, <1>2, <1>3, <1>4, <3>1, Zenon DEF SyncerOK
  <2> QED BY <2>1, <2>2, Zenon
<1>6. CASE RequestExtra
  BY <1>2, <1>4, <1>6, Zenon DEF RequestExtra, SyncerOK
<1>7. CASE ExtendTipsRequests
  BY <1>1, <1>2, <1>3, <1>4, <1>7, Zenon DEF ExtendTipsRequests, SyncerOK
<1> QED BY <1>5, <1>6, <1>7, Zenon

\* The other steps of the syncer.
LEMMA SyncStepsKeep ==
    ASSUME SyncerOK, DownloadsOK, SyncSteps \/ SyncTimesOut
    PROVE  SyncerOK' /\ DownloadsOK'
<1>1. CASE ObtainTips
  <2>1. DownloadsOK'
    BY <1>1, DownloadsUnchanged, Zenon DEF ObtainTips, downloads
  <2>2. locator' \in Block
    BY <1>1, TipType, Zenon DEF ObtainTips, SyncerOK
  <2> QED BY <1>1, <2>1, <2>2, Zenon DEF ObtainTips, downloads, SyncerOK, Stages
<1>2. CASE ObtainTipsResponses \/ \E t \in old_tips : ExtendTipsResponses(t)
  BY <1>2, ResponsesKeep, Zenon
<1>3. CASE ObtainTipsRequests \/ RequestExtra \/ ExtendTipsRequests
  BY <1>3, RequestsKeep, Zenon
<1>4. ASSUME NEW b \in Block, PollReady(b) \/ AwaitPending(b) PROVE SyncerOK' /\ DownloadsOK'
  <2>1. PICK next \in {"poll", "pause"} : HandleResponse(b, next)
    BY <1>4, Zenon DEF PollReady, AwaitPending
  <2>2. UNCHANGED <<prospective_tips, recent_syncs, state, surprises>>
    BY <2>1, Zenon DEF HandleResponse
  <2>3. CASE pending[b] = "restart"
    BY <2>1, <2>2, <2>3, RestartKeeps, Zenon DEF HandleResponse, SyncerOK
  <2>4. CASE pending[b] # "restart"
    <3>1. /\ PollNext(b) /\ sync' = next
          /\ UNCHANGED <<locator, old_tips, download_set, extra_hashes, past_lookahead_limit,
                         queued>>
      BY <2>1, <2>4, Zenon DEF HandleResponse
    <3>2. DownloadsOK'
      BY <3>1, PollNextKeeps, Zenon
    <3>3. sync' \in Stages
      BY <2>1, <3>1, Zenon DEF Stages
    <3> QED BY <2>2, <3>1, <3>2, <3>3, Zenon DEF SyncerOK
  <2> QED BY <2>3, <2>4, Zenon
<1>5. CASE EndPoll \/ PauseDownloads \/ ExtendTips \/ WakeUp
  <2>1. /\ sync' \in {"pause", "await", "extend", "start"}
        /\ prospective_tips' \in {prospective_tips, {}} /\ old_tips' \in {old_tips, prospective_tips}
        /\ UNCHANGED <<locator, download_set, extra_hashes, recent_syncs, pending, cancel_handles,
                       past_lookahead_limit, queued, state, surprises>>
    BY <1>5, Zenon DEF EndPoll, PauseDownloads, ExtendTips, WakeUp, downloads
  <2>2. DownloadsOK'
    BY <2>1, DownloadsUnchanged, Zenon
  <2>3. sync' \in Stages /\ prospective_tips' \subseteq CheckedTip /\ old_tips' \subseteq CheckedTip
    BY <2>1, Zenon DEF SyncerOK, Stages
  <2> QED BY <2>1, <2>2, <2>3, Zenon DEF SyncerOK
<1>6. CASE SyncTimesOut
  <2>1. 1 \in Nat
    OBVIOUS
  <2>2. surprises' \in 0 .. MaxSurprises
    BY <1>6, <2>1, SurpriseType, Zenon DEF SyncTimesOut, SyncerOK
  <2> QED BY <1>6, <2>2, RestartKeeps, Zenon DEF SyncTimesOut
<1> QED BY <1>1, <1>2, <1>3, <1>4, <1>5, <1>6, Zenon DEF SyncSteps

\* Every step keeps the invariant.
LEMMA NextHandles ==
    ASSUME HandlesMatchTasks, [Next]_vars
    PROVE  HandlesMatchTasks'
<1>1. SyncerOK /\ DownloadsOK
  BY InvariantParts, Zenon
<1>2. SUFFICES SyncerOK' /\ DownloadsOK'
  BY InvariantParts, Zenon
<1>3. CASE UNCHANGED vars
  <2>1. UNCHANGED <<sync, locator, prospective_tips, old_tips, download_set, extra_hashes,
                    recent_syncs, pending, cancel_handles, past_lookahead_limit, queued, state,
                    surprises>>
    BY <1>3, Zenon DEF vars, syncer, downloads
  <2> QED BY <1>1, <2>1, DownloadsUnchanged, Zenon DEF SyncerOK
<1>4. CASE GenesisSteps \/ GenesisTimesOut
  BY <1>1, <1>4, GenesisKeeps, Zenon
<1>5. CASE SyncSteps \/ SyncTimesOut
  BY <1>1, <1>5, SyncStepsKeep, Zenon
<1>6. ASSUME NEW b \in Block,
             TaskSteps(b) \/ Gossip(b) \/ \E result \in Results : DownloadFails(b, result)
      PROVE  SyncerOK' /\ DownloadsOK'
  BY <1>1, <1>6, TaskStepsKeep, Zenon
<1> QED BY <1>3, <1>4, <1>5, <1>6, Zenon DEF Next

\* At the start there is no task and no handle.
LEMMA InitHandles ==
    ASSUME Init
    PROVE  HandlesMatchTasks
<1>1. pending = [b \in Block |-> "none"] /\ cancel_handles = {}
  BY Zenon DEF Init
<1>2. pending \in [Block -> Statuses] /\ \A x \in Block : pending[x] = "none"
  BY <1>1 DEF Statuses
<1>3. DownloadsOK
  BY <1>1, <1>2, Zenon DEF DownloadsOK, Tasks
<1>4. <<>> \in Seq(Block) /\ <<>> \in Seq(Nat)
  OBVIOUS
<1>5. 0 \in 0 .. MaxSurprises /\ Genesis \in Block
  BY SyncerAssumption
<1>6. SyncerOK
  BY <1>4, <1>5, Zenon DEF Init, SyncerOK, Stages
<1> QED BY <1>3, <1>6, InvariantParts, Zenon

-----------------------------------------------------------------------------
\* The handles in Downloads are those of its tasks, in every interleaving of the
\* syncer, the tasks, the verifiers and the timeouts (cancel_handles and pending
\* of sync/downloads.rs).
THEOREM HandlesFollowTasks == Spec => []HandlesMatchTasks
<1>1. Init => HandlesMatchTasks
  BY InitHandles, Zenon
<1>2. HandlesMatchTasks /\ [Next]_vars => HandlesMatchTasks'
  BY NextHandles, Zenon
<1> QED BY <1>1, <1>2, PTL DEF Spec

-----------------------------------------------------------------------------
(* The syncer does not wait for a task when there is none.                  *)

\* What pauses the downloads is a task, or a block that ran ahead where half of
\* the limit is none.
LEMMA PausedHasTasks ==
    ASSUME SyncerOK, Paused, Tasks = {}
    PROVE  past_lookahead_limit /\ full_verify_concurrency_limit = 1
<1>1. in_flight = 0
  BY FS_EmptySet, Zenon DEF in_flight
<1>2. Len(extra_hashes) \in Nat
  BY DEF SyncerOK
<1> DEFINE limit == lookahead_limit(Len(extra_hashes))
<1>3. /\ limit \in Nat
      /\ limit >= full_verify_concurrency_limit \/ limit >= checkpoint_verify_concurrency_limit
  BY <1>2, LimitType, Zenon DEF SyncerOK
<1>4. in_flight >= limit \/ (in_flight >= limit \div 2 /\ past_lookahead_limit)
  BY Zenon DEF Paused
<1> HIDE DEF limit
<1>5. /\ full_verify_concurrency_limit \in Nat \ {0}
      /\ checkpoint_verify_concurrency_limit \in Nat \ {0}
      /\ checkpoint_verify_concurrency_limit > 1
  BY SyncerAssumption, Zenon
<1>6. limit >= 1
  BY <1>3, <1>5
<1>7. ~(in_flight >= limit)
  BY <1>1, <1>3, <1>6
<1>8. past_lookahead_limit /\ in_flight >= limit \div 2
  BY <1>4, <1>7, Zenon
<1>9. limit < 2
  BY <1>1, <1>3, <1>8
<1>10. full_verify_concurrency_limit = 1
  BY <1>3, <1>5, <1>9
<1> QED BY <1>8, <1>10, Zenon

\* Without a task no block arrives to set or to reset the watched value.
LEMMA NoTaskNoArrival ==
    ASSUME NEW b \in Block, Tasks = {},
           \/ TaskSteps(b) \/ Gossip(b) \/ \E result \in Results : DownloadFails(b, result)
    PROVE  past_lookahead_limit' = past_lookahead_limit
<1>1. pending[b] = "none"
  BY Zenon DEF Tasks
<1>2. ~BlockArrives(b) /\ ~VerifyTimesOut(b)
  BY <1>1 DEF BlockArrives, VerifyTimesOut
<1> QED BY <1>2, Zenon DEF TaskSteps, Gossip, DownloadFails, VerifierCommits, downloads

\* The syncer starts to wait where there is a task, and only the syncer takes one.
LEMMA NextNonempty ==
    ASSUME HandlesMatchTasks, DownloadsNonempty, [Next]_vars
    PROVE  DownloadsNonempty'
<1>1. SyncerOK /\ DownloadsOK
  BY InvariantParts, Zenon
<1>2. ASSUME Tasks' = Tasks, sync' = sync,
             Tasks = {} => past_lookahead_limit' = past_lookahead_limit
      PROVE  DownloadsNonempty'
  BY <1>2, Zenon DEF DownloadsNonempty
<1>3. ASSUME sync' \notin {"genesis_wait", "await"} PROVE DownloadsNonempty'
  BY <1>3, Zenon DEF DownloadsNonempty
<1>4. CASE UNCHANGED vars
  <2>1. UNCHANGED <<sync, pending, past_lookahead_limit>>
    BY <1>4, Zenon DEF vars, syncer, downloads
  <2>2. Tasks' = Tasks
    BY <2>1, Zenon DEF Tasks
  <2> QED BY <1>2, <2>1, <2>2, Zenon
<1>5. CASE RequestGenesis
  <2>1. CASE Genesis \in cancel_handles
    <3>1. Genesis \in Tasks /\ pending' = pending
      BY <1>1, <1>5, <2>1, Zenon DEF RequestGenesis, DownloadsOK
    <3> QED BY <3>1, Zenon DEF Tasks, DownloadsNonempty
  <2>2. CASE Genesis \notin cancel_handles
    <3>1. <<Genesis>> \in Seq(Block) /\ Genesis \in Range(<<Genesis>>)
      BY SyncerAssumption DEF Range
    <3>2. Range(<<Genesis>>) \subseteq Tasks'
      BY <1>1, <1>5, <2>2, <3>1, QueueDownloadsKeeps, Zenon DEF RequestGenesis
    <3> QED BY <3>1, <3>2, Zenon DEF DownloadsNonempty
  <2> QED BY <2>1, <2>2, Zenon
<1>6. CASE GenesisIsKnown \/ GenesisTimesOut \/ \E b \in Block : GenesisResponse(b)
  <2>1. sync' \in {"start", "genesis"}
    BY <1>6, Zenon DEF GenesisIsKnown, GenesisTimesOut, GenesisResponse
  <2> QED BY <1>3, <2>1, Zenon
<1>7. CASE PauseDownloads
  <2>1. sync' = "await" /\ Paused /\ UNCHANGED <<pending, past_lookahead_limit>>
    BY <1>7, Zenon DEF PauseDownloads, downloads
  <2>2. Tasks' = Tasks
    BY <2>1, Zenon DEF Tasks
  <2> QED BY <1>1, <2>1, <2>2, PausedHasTasks, Zenon DEF DownloadsNonempty
<1>8. CASE ObtainTips \/ ObtainTipsResponses \/ EndPoll \/ ExtendTips \/ WakeUp
           \/ \E t \in old_tips : ExtendTipsResponses(t)
  <2>1. sync' \in {"obtain", "check", "pause", "extend", "start"}
    BY <1>8, Zenon DEF ObtainTips, ObtainTipsResponses, EndPoll, ExtendTips, WakeUp,
                       ExtendTipsResponses
  <2> QED BY <1>3, <2>1, Zenon
<1>9. CASE ObtainTipsRequests \/ RequestExtra \/ ExtendTipsRequests
  <2>1. Continue \/ sync' = "sleep"
    BY <1>9, Zenon DEF ObtainTipsRequests, RequestExtra, ExtendTipsRequests, Restart
  <2>2. sync' \in {"sleep", "poll"}
    BY <2>1, ContinueType, Zenon
  <2> QED BY <1>3, <2>2, Zenon
<1>10. CASE SyncTimesOut \/ \E b \in Block : PollReady(b) \/ AwaitPending(b)
  <2>1. sync' \in {"sleep", "poll", "pause"}
    BY <1>10, Zenon DEF SyncTimesOut, PollReady, AwaitPending, HandleResponse, Restart
  <2> QED BY <1>3, <2>1, Zenon
<1>11. ASSUME NEW b \in Block,
              TaskSteps(b) \/ Gossip(b) \/ \E result \in Results : DownloadFails(b, result)
       PROVE  DownloadsNonempty'
  BY <1>1, <1>2, <1>11, TaskStepsKeep, NoTaskNoArrival, Zenon
<1> QED BY <1>4, <1>5, <1>6, <1>7, <1>8, <1>9, <1>10, <1>11, Zenon
        DEF Next, GenesisSteps, SyncSteps

\* downloads.next() is only awaited when it has a task, whatever the limits, but
\* for a full verify limit of 1 while a block is past the lookahead limit: nowhere
\* else can expect("downloads is nonempty") panic (request_genesis_once and
\* try_to_sync_once).
THEOREM AwaitedDownloadsExist == Spec => []DownloadsNonempty
<1> DEFINE Inv == HandlesMatchTasks /\ DownloadsNonempty
<1>1. Init => Inv
  <2>1. Init => DownloadsNonempty
    BY Zenon DEF Init, DownloadsNonempty
  <2> QED BY <2>1, InitHandles, Zenon
<1>2. Inv /\ [Next]_vars => Inv'
  BY NextHandles, NextNonempty, Zenon
<1>3. Inv => DownloadsNonempty
  BY Zenon
<1> HIDE DEF Inv
<1> QED BY <1>1, <1>2, <1>3, PTL DEF Spec
=============================================================================
