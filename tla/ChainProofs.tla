---------------------------- MODULE ChainProofs ----------------------------
(***************************************************************************)
(* Facts about the operations on chains, for chains of any length in a     *)
(* block tree of any size.                                                 *)
(***************************************************************************)
EXTENDS NonFinalizedState, FiniteSetTheorems, TLAPS

\* A chain has a greatest height: chains are finite.
Bounded(c) == \E n \in Nat : \A b \in c : Height[b] <= n

-----------------------------------------------------------------------------
\* A nonempty set of naturals has a least element.
LEMMA LeastNatural ==
    ASSUME NEW T \in SUBSET Nat, T # {}
    PROVE  \E x \in T : \A y \in T : x <= y
<1>1. PICK x \in T : \A y \in T : ~(<<y, x>> \in OpToRel(<, Nat))
  BY NatLessThanWellFounded, WFMin, Zenon
<1>2. ASSUME NEW y \in T PROVE x <= y
  <2>1. x \in Nat /\ y \in Nat
    BY Zenon
  <2>2. ~(y < x)
    BY <1>1, <2>1, Zenon DEF OpToRel
  <2> QED BY <2>1, <2>2
<1> QED BY <1>2, Zenon

-----------------------------------------------------------------------------
(* Sums over finite sets.  MapThenSumSet takes the elements in an order that *)
(* CHOOSE gives; the order does not matter.  The proofs take a smallest set  *)
(* for which the claim fails.                                                *)

\* The sum of w over S.
SumOver(w, S) == MapThenSumSet(LAMBDA x : w[x], S)
\* The element that the sum takes next.
Pick(s) == CHOOSE x \in s : TRUE
\* The recursion that defines the sum of w over the subsets of S.
IsSum(w, S, f) ==
    f = [s \in SUBSET S |-> IF s = {} THEN 0 ELSE w[Pick(s)] + f[s \ {Pick(s)}]]
\* The sum is the value at S of the function that the recursion defines.
LEMMA SumDef ==
    ASSUME NEW w, NEW S
    PROVE  SumOver(w, S) = (CHOOSE f : IsSum(w, S, f))[S]
BY Zenon DEF SumOver, MapThenSumSet, MapThenFoldSet, IsSum, Pick

\* A set of finite sets has a member none of whose proper subsets is in it.
LEMMA SmallestSubset ==
    ASSUME NEW S, IsFiniteSet(S), NEW B \in SUBSET (SUBSET S), B # {}
    PROVE  \E s \in B : IsFiniteSet(s) /\ \A x \in s : \A t \in SUBSET (s \ {x}) : t \notin B
<1> DEFINE N == {Cardinality(s) : s \in B}
<1>1. \A s \in SUBSET S : IsFiniteSet(s) /\ Cardinality(s) \in Nat
  BY FS_Subset, FS_CardinalityType, Zenon
<1>2. N \in SUBSET Nat /\ N # {}
  BY <1>1, Zenon
<1>3. PICK n \in N : \A m \in N : n <= m
  BY <1>2, LeastNatural, Zenon
<1>4. PICK s \in B : n = Cardinality(s)
  BY <1>3, Zenon
<1>5. ASSUME NEW x \in s, NEW t \in SUBSET (s \ {x}), t \in B PROVE FALSE
  <2>1. IsFiniteSet(s) /\ t \subseteq s /\ t # s
    BY <1>1, Zenon
  <2>2. Cardinality(t) < Cardinality(s) /\ Cardinality(t) \in Nat /\ Cardinality(s) \in Nat
    BY <1>1, <2>1, FS_Subset
  <2>3. n <= Cardinality(t)
    BY <1>3, <1>5, Zenon
  <2> QED BY <1>4, <2>2, <2>3
<1> QED BY <1>1, <1>4, <1>5, Zenon

\* Two functions that satisfy the recursion agree where both are defined.
LEMMA SumUnique ==
    ASSUME NEW w, NEW S, NEW U, NEW f, NEW g, IsSum(w, S, f), IsSum(w, U, g),
           NEW T, T \subseteq S, T \subseteq U, IsFiniteSet(T)
    PROVE  f[T] = g[T]
<1> DEFINE B == {t \in SUBSET T : f[t] # g[t]}
<1>1. SUFFICES ASSUME B # {} PROVE FALSE
  BY Zenon
<1>2. PICK s \in B : \A x \in s : \A t \in SUBSET (s \ {x}) : t \notin B
  <2>1. B \in SUBSET (SUBSET T)
    BY Zenon
  <2> HIDE DEF B
  <2> QED BY <1>1, <2>1, SmallestSubset, Zenon
<1>3. s \in SUBSET S /\ s \in SUBSET U
  BY Zenon
<1>4. s # {}
  BY <1>3, Zenon DEF IsSum
<1>5. Pick(s) \in s
  BY <1>4, Zenon DEF Pick
<1>6. f[s \ {Pick(s)}] = g[s \ {Pick(s)}]
  BY <1>2, <1>5, Zenon
<1> HIDE DEF B
<1>7. f[s] = w[Pick(s)] + f[s \ {Pick(s)}] /\ g[s] = w[Pick(s)] + g[s \ {Pick(s)}]
  BY <1>3, <1>4, Zenon DEF IsSum
<1>8. f[s] = g[s]
  BY <1>6, <1>7, Zenon
<1> QED BY <1>8, Zenon DEF B

\* For a finite set there is a function that satisfies the recursion.
LEMMA SumExists ==
    ASSUME NEW w, NEW S, IsFiniteSet(S)
    PROVE  \E f : IsSum(w, S, f)
<1> DEFINE B == {t \in SUBSET S : ~ \E f : IsSum(w, t, f)}
<1>1. SUFFICES ASSUME B # {} PROVE FALSE
  BY Zenon
<1>2. PICK T \in B : IsFiniteSet(T) /\ \A x \in T : \A t \in SUBSET (T \ {x}) : t \notin B
  <2>1. B \in SUBSET (SUBSET S)
    BY Zenon
  <2> HIDE DEF B
  <2> QED BY <1>1, <2>1, SmallestSubset, Zenon
<1> DEFINE C(t) == CHOOSE f : IsSum(w, t, f)
           F == [s \in SUBSET T |-> IF s = {} THEN 0
                    ELSE w[Pick(s)] + C(s \ {Pick(s)})[s \ {Pick(s)}]]
<1>3. ASSUME NEW x \in T, NEW t \in SUBSET (T \ {x}) PROVE IsSum(w, t, C(t)) /\ IsFiniteSet(t)
  <2>1. t \notin B /\ t \in SUBSET S
    BY <1>2, Zenon
  <2> QED BY <1>2, <2>1, FS_Subset, Zenon
<1>4. ASSUME NEW s \in SUBSET T, s # {}
      PROVE  F[s] = w[Pick(s)] + F[s \ {Pick(s)}]
  <2> DEFINE t == s \ {Pick(s)}
  <2>1. Pick(s) \in s
    BY <1>4, Zenon DEF Pick
  <2>2. t \in SUBSET (T \ {Pick(s)}) /\ Pick(s) \in T
    BY <2>1, Zenon
  <2>3. IsSum(w, t, C(t)) /\ IsFiniteSet(t)
    BY <1>3, <2>2, Zenon
  <2>4. CASE t = {}
    <3>1. C(t)[t] = 0 /\ F[t] = 0
      BY <2>3, <2>4, Zenon DEF IsSum
    <3> QED BY <1>4, <3>1, Zenon
  <2>5. CASE t # {}
    <3> DEFINE u == t \ {Pick(t)}
    <3>1. u \in SUBSET t /\ u \in SUBSET (T \ {Pick(s)})
      BY <2>2, Zenon
    <3>2. IsSum(w, u, C(u)) /\ IsFiniteSet(u)
      BY <1>3, <2>2, <3>1
    <3>3. C(t)[u] = C(u)[u]
      <4> HIDE DEF C, u, t
      <4> QED BY <2>3, <3>1, <3>2, SumUnique
    <3>4. C(t)[t] = w[Pick(t)] + C(t)[u]
      <4> HIDE DEF C
      <4> QED BY <2>3, <2>5, Zenon DEF IsSum
    <3>5. F[t] = w[Pick(t)] + C(u)[u]
      <4> HIDE DEF C
      <4> QED BY <2>2, <2>5, Zenon
    <3>6. F[s] = w[Pick(s)] + C(t)[t]
      <4> HIDE DEF C
      <4> QED BY <1>4, Zenon
    <3> HIDE DEF C, F, t, u
    <3>7. F[s] = w[Pick(s)] + F[t]
      BY <3>3, <3>4, <3>5, <3>6, Zenon
    <3> QED BY <3>7, Zenon DEF t
  <2> QED BY <2>4, <2>5, Zenon
<1>5. F = [s \in SUBSET T |-> IF s = {} THEN 0 ELSE w[Pick(s)] + F[s \ {Pick(s)}]]
  <2>1. \A s \in SUBSET T : F[s] = IF s = {} THEN 0 ELSE w[Pick(s)] + F[s \ {Pick(s)}]
    <3> HIDE DEF C
    <3> QED BY <1>4, Zenon
  <2>2. F = [s \in SUBSET T |-> F[s]]
    <3> HIDE DEF C
    <3> QED BY Zenon
  <2> HIDE DEF F
  <2> QED BY <2>1, <2>2, Zenon
<1>6. IsSum(w, T, F)
  <2> HIDE DEF F
  <2> QED BY <1>5, Zenon DEF IsSum
<1> HIDE DEF F
<1> QED BY <1>6, Zenon
\* The recursion holds for the sum itself.
LEMMA SumStep ==
    ASSUME NEW w, NEW S, IsFiniteSet(S)
    PROVE  SumOver(w, S) = IF S = {} THEN 0 ELSE w[Pick(S)] + SumOver(w, S \ {Pick(S)})
<1> DEFINE f == CHOOSE f : IsSum(w, S, f)
           T == S \ {Pick(S)}
           g == CHOOSE g : IsSum(w, T, g)
<1>1. IsFiniteSet(T)
  BY FS_Subset, Zenon
<1>2. IsSum(w, S, f) /\ IsSum(w, T, g)
  BY <1>1, SumExists, Zenon
<1>3. SumOver(w, S) = f[S] /\ SumOver(w, T) = g[T]
  BY SumDef, Zenon
<1> HIDE DEF f, g
<1>4. f[T] = g[T]
  BY <1>1, <1>2, SumUnique
<1>5. f[S] = IF S = {} THEN 0 ELSE w[Pick(S)] + f[T]
  BY <1>2, Zenon DEF IsSum
<1> QED BY <1>3, <1>4, <1>5, Zenon

\* A sum of naturals is a natural.
LEMMA SumType ==
    ASSUME NEW w, NEW S, IsFiniteSet(S), \A x \in S : w[x] \in Nat
    PROVE  SumOver(w, S) \in Nat
<1> DEFINE B == {t \in SUBSET S : SumOver(w, t) \notin Nat}
<1>1. SUFFICES ASSUME B # {} PROVE FALSE
  BY Zenon
<1>2. PICK s \in B : IsFiniteSet(s) /\ \A x \in s : \A t \in SUBSET (s \ {x}) : t \notin B
  <2>1. B \in SUBSET (SUBSET S)
    BY Zenon
  <2> HIDE DEF B
  <2> QED BY <1>1, <2>1, SmallestSubset, Zenon
<1>3. s # {} /\ Pick(s) \in s
  <2>1. SumOver(w, {}) = 0
    BY FS_EmptySet, SumStep, Zenon
  <2> QED BY <2>1 DEF Pick
<1>4. SumOver(w, s \ {Pick(s)}) \in Nat
  BY <1>2, <1>3, Zenon
<1>5. SumOver(w, s) = w[Pick(s)] + SumOver(w, s \ {Pick(s)})
  BY <1>2, <1>3, SumStep, Zenon
<1>6. SumOver(w, s) \in Nat
  BY <1>3, <1>4, <1>5
<1> QED BY <1>6, Zenon

\* Any element can be taken out of a sum.
LEMMA SumRemove ==
    ASSUME NEW w, NEW S, IsFiniteSet(S), \A x \in S : w[x] \in Nat
    PROVE  \A r \in S : SumOver(w, S) = w[r] + SumOver(w, S \ {r})
<1> DEFINE Fails(t) == \E r \in t : SumOver(w, t) # w[r] + SumOver(w, t \ {r})
           B == {t \in SUBSET S : Fails(t)}
<1>1. SUFFICES ASSUME B # {} PROVE FALSE
  BY Zenon
<1>2. PICK s \in B : IsFiniteSet(s) /\ \A x \in s : \A t \in SUBSET (s \ {x}) : t \notin B
  <2>1. B \in SUBSET (SUBSET S)
    BY Zenon
  <2> HIDE DEF B
  <2> QED BY <1>1, <2>1, SmallestSubset, Zenon
<1>3. PICK r \in s : SumOver(w, s) # w[r] + SumOver(w, s \ {r})
  BY Zenon
<1> DEFINE x == Pick(s)
           t == s \ {x, r}
<1>33. s # {} /\ x \in s /\ s \in SUBSET S
  BY <1>2, Zenon DEF Pick
<1>4. SumOver(w, s) = w[x] + SumOver(w, s \ {x})
  BY <1>2, <1>33, SumStep, Zenon
<1>5. x # r
  BY <1>3, <1>4, Zenon
<1>6. IsFiniteSet(s \ {x}) /\ IsFiniteSet(s \ {r}) /\ IsFiniteSet(t)
  BY <1>2, FS_Subset, Zenon
<1>7. SumOver(w, s \ {x}) = w[r] + SumOver(w, t)
  <2>1. ~Fails(s \ {x})
    BY <1>2, <1>33, Zenon
  <2>2. r \in s \ {x} /\ (s \ {x}) \ {r} = t
    BY <1>5, Zenon
  <2> QED BY <2>1, <2>2, Zenon
<1>8. SumOver(w, s \ {r}) = w[x] + SumOver(w, t)
  <2>1. ~Fails(s \ {r})
    BY <1>2, <1>33, Zenon
  <2>2. x \in s \ {r} /\ (s \ {r}) \ {x} = t
    BY <1>5, <1>33, Zenon
  <2> QED BY <2>1, <2>2, Zenon
<1>9. w[x] \in Nat /\ w[r] \in Nat /\ SumOver(w, t) \in Nat
  BY <1>33, <1>6, SumType, Zenon
<1>10. SumOver(w, s) = w[r] + SumOver(w, s \ {r})
  BY <1>4, <1>7, <1>8, <1>9
<1> QED BY <1>3, <1>10, Zenon

-----------------------------------------------------------------------------
(* Chains. *)

\* The root of a chain with blocks is its lowest block.
LEMMA RootIsLowest ==
    ASSUME NEW c \in SUBSET Block, c # {}
    PROVE  /\ NonFinalizedRoot(c) \in c
           /\ \A x \in c : Height[NonFinalizedRoot(c)] <= Height[x]
<1> DEFINE T == {Height[b] : b \in c}
<1>1. T \in SUBSET Nat /\ T # {}
  BY TreeAssumption, Zenon
<1>2. PICK n \in T : \A y \in T : n <= y
  BY <1>1, LeastNatural, Zenon
<1>3. \E b \in c : \A x \in c : Height[b] <= Height[x]
  BY <1>2, Zenon
<1> QED BY <1>3, Zenon DEF NonFinalizedRoot

\* The tip of a chain with blocks is its highest block.
LEMMA TipIsHighest ==
    ASSUME NEW c \in SUBSET Block, c # {}, Bounded(c)
    PROVE  /\ NonFinalizedTip(c) \in c
           /\ \A x \in c : Height[x] <= Height[NonFinalizedTip(c)]
<1>1. PICK n \in Nat : \A b \in c : Height[b] <= n
  BY Zenon DEF Bounded
<1> DEFINE T == {n - Height[b] : b \in c}
<1>2. T \in SUBSET Nat /\ T # {}
  BY <1>1, TreeAssumption
<1>3. PICK m \in T : \A y \in T : m <= y
  BY <1>2, LeastNatural, Zenon
<1>4. PICK b \in c : m = n - Height[b]
  BY <1>3, Zenon
<1>5. ASSUME NEW x \in c PROVE Height[x] <= Height[b]
  <2>1. n - Height[b] <= n - Height[x]
    BY <1>3, <1>4, Zenon
  <2>2. Height[x] \in Nat /\ Height[b] \in Nat
    BY TreeAssumption, Zenon
  <2> QED BY <2>1, <2>2
<1>6. \E y \in c : \A x \in c : Height[x] <= Height[y]
  BY <1>5, Zenon
<1> QED BY <1>6, Zenon DEF NonFinalizedTip

-----------------------------------------------------------------------------
\* A block above another one has a parent one lower.
LEMMA ParentHeight ==
    ASSUME NEW b \in Block, NEW t \in Block, Height[b] > Height[t]
    PROVE  /\ Parent[b] \in Block
           /\ Height[b] = Height[Parent[b]] + 1
           /\ Height[b] \in Nat /\ Height[t] \in Nat /\ Height[Parent[b]] \in Nat
<1>1. Height[b] \in Nat /\ Height[t] \in Nat /\ Parent[b] \in Block
  BY TreeAssumption, Zenon
<1>2. b # Genesis
  BY <1>1, TreeAssumption
<1> QED BY <1>1, <1>2, TreeAssumption, Zenon

\* The root of a chain on t is a child of t.
LEMMA RootIsChild ==
    ASSUME NEW c \in SUBSET Block, c # {}, NEW t \in Block, ExtendsBlock(c, t)
    PROVE  /\ Parent[NonFinalizedRoot(c)] = t
           /\ Height[NonFinalizedRoot(c)] = Height[t] + 1
<1> DEFINE r == NonFinalizedRoot(c)
<1>1. r \in c /\ \A x \in c : Height[r] <= Height[x]
  BY RootIsLowest, Zenon
<1>2. r \in Block /\ Height[r] > Height[t] /\ Parent[r] \in c \cup {t}
  BY <1>1, Zenon DEF ExtendsBlock
<1> HIDE DEF r
<1>3. Height[r] = Height[Parent[r]] + 1 /\ Height[Parent[r]] \in Nat
  BY <1>2, ParentHeight, Zenon
<1>4. Parent[r] \notin c
  BY <1>1, <1>3
<1>5. Parent[r] = t /\ Height[r] = Height[t] + 1
  BY <1>2, <1>3, <1>4, Zenon
<1> QED BY <1>5, Zenon DEF r

\* Without its root, a chain on t is a chain on the root.
LEMMA PopRootExtends ==
    ASSUME NEW c \in SUBSET Block, c # {}, NEW t \in Block, ExtendsBlock(c, t)
    PROVE  ExtendsBlock(PopRoot(c), NonFinalizedRoot(c))
<1> DEFINE r == NonFinalizedRoot(c)
<1>1. r \in c /\ r \in Block /\ (\A x \in c : Height[r] <= Height[x])
  BY RootIsLowest, Zenon
<1>2. ASSUME NEW b \in c \ {r}
      PROVE  Height[b] > Height[r] /\ Parent[b] \in (c \ {r}) \cup {r}
  <2>1. Height[r] # Height[b]
    BY <1>1, Zenon DEF ExtendsBlock
  <2>2. Height[r] <= Height[b] /\ Height[r] \in Nat /\ Height[b] \in Nat
    BY <1>1, TreeAssumption, Zenon
  <2>3. Height[r] = Height[t] + 1 /\ Height[t] \in Nat
    BY RootIsChild, TreeAssumption, Zenon
  <2>4. Height[b] > Height[t] /\ Parent[b] \in c \cup {t}
    BY Zenon DEF ExtendsBlock
  <2>5. Height[b] = Height[Parent[b]] + 1 /\ Height[Parent[b]] \in Nat
    BY <2>4, ParentHeight, Zenon
  <2>6. Parent[b] # t
    BY <2>1, <2>3, <2>5, Zenon
  <2> QED BY <1>1, <2>1, <2>2, <2>4, <2>6
<1> QED BY <1>2, Zenon DEF PopRoot, ExtendsBlock

\* Forking a chain at one of its blocks leaves a chain that ends in the block.
LEMMA ForkExtends ==
    ASSUME NEW c \in SUBSET Block, NEW t \in Block, ExtendsBlock(c, t), NEW p \in c
    PROVE  /\ ExtendsBlock(Fork(c, p), t)
           /\ p \in Fork(c, p)
           /\ \A x \in Fork(c, p) : Height[x] <= Height[p]
           /\ Fork(c, p) \in SUBSET Block
<1>1. Height[p] \in Nat
  BY TreeAssumption, Zenon
<1>2. p \in Fork(c, p)
  BY <1>1 DEF Fork
<1>3. ASSUME NEW b \in Fork(c, p)
      PROVE  Height[b] > Height[t] /\ Parent[b] \in Fork(c, p) \cup {t}
  <2>1. b \in c /\ Height[b] <= Height[p]
    BY Zenon DEF Fork
  <2>2. Height[b] > Height[t] /\ Parent[b] \in c \cup {t}
    BY <2>1, Zenon DEF ExtendsBlock
  <2>3. /\ Height[b] = Height[Parent[b]] + 1
        /\ Height[b] \in Nat /\ Height[Parent[b]] \in Nat
    BY <2>1, <2>2, ParentHeight, Zenon
  <2>4. Height[Parent[b]] <= Height[p]
    BY <1>1, <2>1, <2>3
  <2> QED BY <2>2, <2>4, Zenon DEF Fork
<1>4. ExtendsBlock(Fork(c, p), t)
  BY <1>3, Zenon DEF ExtendsBlock, Fork
<1> QED BY <1>2, <1>4, Zenon DEF Fork

\* A chain on p goes on top of p: of a chain on t that ends in p, or of t.
LEMMA JoinExtends ==
    ASSUME NEW c \in SUBSET Block, NEW d \in SUBSET Block,
           NEW t \in Block, NEW p \in Block,
           ExtendsBlock(c, t), ExtendsBlock(d, p),
           \/ c = {} /\ p = t
           \/ p \in c /\ \A x \in c : Height[x] <= Height[p]
    PROVE  ExtendsBlock(c \cup d, t)
<1>1. \A x \in Block : Height[x] \in Nat
  BY TreeAssumption, Zenon
<1>2. CASE c = {} /\ p = t
  BY <1>2, Zenon DEF ExtendsBlock
<1>3. CASE p \in c /\ \A x \in c : Height[x] <= Height[p]
  <2>1. ASSUME NEW b \in c \cup d
        PROVE  Height[b] > Height[t] /\ Parent[b] \in c \cup d \cup {t}
    <3>1. CASE b \in c
      BY <3>1, Zenon DEF ExtendsBlock
    <3>2. CASE b \in d
      <4>1. Height[b] > Height[p] /\ Parent[b] \in d \cup {p}
        BY <3>2, Zenon DEF ExtendsBlock
      <4>2. Height[p] > Height[t]
        BY <1>3, Zenon DEF ExtendsBlock
      <4> QED BY <1>1, <1>3, <3>2, <4>1, <4>2
    <3> QED BY <3>1, <3>2, Zenon
  <2>2. ASSUME NEW a \in c \cup d, NEW b \in c \cup d, Height[a] = Height[b]
        PROVE  a = b
    <3>1. ASSUME NEW x \in c, NEW y \in d PROVE Height[x] # Height[y]
      <4>1. Height[x] <= Height[p] /\ Height[y] > Height[p]
        BY <1>3, Zenon DEF ExtendsBlock
      <4> QED BY <1>1, <4>1
    <3> QED BY <2>2, <3>1, Zenon DEF ExtendsBlock
  <2> QED BY <2>1, <2>2, Zenon DEF ExtendsBlock
<1> QED BY <1>2, <1>3, Zenon

\* A block and what is above it in its chain form a chain on the block's parent,
\* and the block is the root of that chain.
LEMMA ChildBlocksExtend ==
    ASSUME NEW c \in SUBSET Block, NEW t \in Block, ExtendsBlock(c, t), NEW h \in c
    PROVE  /\ ExtendsBlock(ChildBlocks(c, h), Parent[h])
           /\ ChildBlocks(c, h) \in SUBSET Block
           /\ ChildBlocks(c, h) # {}
           /\ NonFinalizedRoot(ChildBlocks(c, h)) = h
<1> DEFINE d == ChildBlocks(c, h)
<1>1. Height[h] \in Nat /\ Parent[h] \in Block /\ Height[h] > Height[t]
  BY TreeAssumption, Zenon DEF ExtendsBlock
<1>2. h \in d /\ d \in SUBSET Block /\ \A x \in d : x \in c /\ Height[x] >= Height[h]
  BY <1>1 DEF ChildBlocks
<1>3. Height[h] = Height[Parent[h]] + 1 /\ Height[Parent[h]] \in Nat
  BY <1>1, ParentHeight, Zenon
<1>4. ASSUME NEW b \in d
      PROVE  Height[b] > Height[Parent[h]] /\ Parent[b] \in d \cup {Parent[h]}
  <2>1. b \in c /\ Height[b] >= Height[h] /\ Height[b] \in Nat
    BY <1>2, TreeAssumption, Zenon
  <2>2. Height[b] > Height[Parent[h]]
    BY <1>1, <1>3, <2>1
  <2>3. CASE b = h
    BY <2>2, <2>3, Zenon
  <2>4. CASE b # h
    <3>1. Height[b] # Height[h]
      BY <2>1, <2>4, Zenon DEF ExtendsBlock
    <3>2. Height[b] > Height[t] /\ Parent[b] \in c \cup {t}
      BY <2>1, Zenon DEF ExtendsBlock
    <3>3. Height[b] = Height[Parent[b]] + 1 /\ Height[Parent[b]] \in Nat /\ Height[t] \in Nat
      BY <2>1, <3>2, ParentHeight, Zenon
    <3>4. Height[Parent[b]] >= Height[h] /\ Parent[b] # t
      BY <1>1, <2>1, <3>1, <3>3
    <3> QED BY <2>2, <3>2, <3>4, Zenon DEF ChildBlocks
  <2> QED BY <2>3, <2>4, Zenon
<1>5. ExtendsBlock(d, Parent[h])
  BY <1>2, <1>4, Zenon DEF ExtendsBlock
<1>6. NonFinalizedRoot(d) = h
  <2>1. NonFinalizedRoot(d) \in d /\ Height[NonFinalizedRoot(d)] <= Height[h]
    BY <1>2, RootIsLowest, Zenon
  <2>2. Height[NonFinalizedRoot(d)] = Height[h]
    BY <1>1, <1>2, <2>1, TreeAssumption
  <2> QED BY <1>2, <2>1, <2>2, Zenon DEF ExtendsBlock
<1> QED BY <1>2, <1>5, <1>6, Zenon

\* A chain without h and its descendants is still a chain on t.
LEMMA InvalidateExtends ==
    ASSUME NEW c \in SUBSET Block, NEW t \in Block, ExtendsBlock(c, t), NEW h \in c
    PROVE  ExtendsBlock(InvalidateInChain(c, h), t)
<1>1. \A b \in Fork(c, h) : Height[b] > Height[t] /\ Parent[b] \in Fork(c, h) \cup {t}
  BY ForkExtends, Zenon DEF ExtendsBlock
<1>2. ASSUME NEW b \in Fork(c, h) PROVE Parent[b] # h
  <2>1. b \in Block /\ Height[b] > Height[t] /\ Height[b] <= Height[h]
    BY <1>1, Zenon DEF Fork
  <2>2. Height[b] = Height[Parent[b]] + 1 /\ Height[Parent[b]] \in Nat
    BY <2>1, ParentHeight, Zenon
  <2> QED BY <2>1, <2>2
<1>3. \A b \in InvalidateInChain(c, h) :
        Height[b] > Height[t] /\ Parent[b] \in InvalidateInChain(c, h) \cup {t}
  BY <1>1, <1>2, Zenon DEF InvalidateInChain
<1> QED BY <1>3, Zenon DEF ExtendsBlock, InvalidateInChain, Fork

-----------------------------------------------------------------------------
\* A chain on t has a block at every height between t and any of its blocks.
LEMMA NoGaps ==
    ASSUME NEW c \in SUBSET Block, NEW t \in Block, ExtendsBlock(c, t), NEW h \in c,
           NEW k \in (Height[t] + 1) .. Height[h]
    PROVE  \E b \in c : Height[b] = k
<1> DEFINE T == {Height[b] - k : b \in {x \in c : Height[x] >= k}}
<1>1. /\ Height[h] \in Nat /\ Height[t] \in Nat /\ k \in Nat /\ k > Height[t]
      /\ Height[h] >= k /\ \A x \in c : Height[x] \in Nat
  BY TreeAssumption
<1>2. T \in SUBSET Nat /\ T # {}
  BY <1>1
<1>3. PICK m \in T : \A y \in T : m <= y
  BY <1>2, LeastNatural, Zenon
<1>4. PICK b \in c : Height[b] >= k /\ m = Height[b] - k
  BY <1>3, Zenon
<1>5. SUFFICES ASSUME Height[b] # k PROVE FALSE
  BY Zenon
<1>6. b \in Block /\ Height[b] > Height[t] /\ Parent[b] \in c \cup {t}
  BY Zenon DEF ExtendsBlock
<1>7. Height[b] = Height[Parent[b]] + 1 /\ Height[Parent[b]] \in Nat
  BY <1>6, ParentHeight, Zenon
<1>8. Height[Parent[b]] >= k
  BY <1>1, <1>4, <1>5, <1>7
<1>9. Parent[b] \in c
  BY <1>1, <1>6, <1>8
<1>10. m <= Height[Parent[b]] - k
  BY <1>3, <1>8, <1>9, Zenon
<1> QED BY <1>1, <1>4, <1>7, <1>10

\* The number of blocks up to h is the number of heights from t to h.
LEMMA ForkCount ==
    ASSUME NEW c \in SUBSET Block, NEW t \in Block, ExtendsBlock(c, t), NEW h \in c
    PROVE  Cardinality(Fork(c, h)) = Height[h] - Height[t]
<1> DEFINE F == Fork(c, h)
           I == (Height[t] + 1) .. Height[h]
           f == [b \in F |-> Height[b]]
<1>1. /\ Height[h] \in Nat /\ Height[t] \in Nat /\ Height[h] > Height[t]
      /\ \A x \in c : Height[x] \in Nat
  BY TreeAssumption, Zenon DEF ExtendsBlock
<1>2. \A b \in F : b \in c /\ Height[b] \in I
  BY <1>1 DEF Fork, ExtendsBlock
<1>3. f \in [F -> I]
  BY <1>2, Zenon
<1>4. \A a, b \in F : f[a] = f[b] => a = b
  BY <1>2, Zenon DEF ExtendsBlock
<1>5. f \in Injection(F, I)
  BY <1>3, <1>4, Zenon DEF Injection, IsInjective
<1>6. \A k \in I : \E b \in F : f[b] = k
  <2> SUFFICES ASSUME NEW k \in I PROVE \E b \in F : f[b] = k
    BY Zenon
  <2>1. PICK b \in c : Height[b] = k
    BY NoGaps, Zenon
  <2>2. b \in F
    BY <2>1, <1>1 DEF Fork
  <2> QED BY <2>1, <2>2, Zenon
<1>7. f \in Surjection(F, I)
  BY <1>3, <1>6, Zenon DEF Surjection
<1>8. IsFiniteSet(I) /\ Cardinality(I) = Height[h] - Height[t]
  <2>1. Height[t] + 1 \in Int /\ Height[h] \in Int
    BY <1>1
  <2>2. /\ IsFiniteSet(I)
        /\ Cardinality(I) = IF Height[t] + 1 > Height[h] THEN 0
                            ELSE Height[h] - (Height[t] + 1) + 1
    BY <2>1, FS_Interval, Zenon
  <2> HIDE DEF I
  <2> QED BY <1>1, <2>2
<1> HIDE DEF F, I, f
<1>9. Cardinality(F) = Cardinality(I)
  BY <1>5, <1>7, <1>8, FS_Injection, Zenon
<1> QED BY <1>8, <1>9, Zenon DEF F

-----------------------------------------------------------------------------
\* Boundedness is inherited by parts of a chain and by joined chains.
LEMMA BoundedSubset ==
    ASSUME NEW c, NEW d, Bounded(c), d \subseteq c
    PROVE  Bounded(d)
BY Zenon DEF Bounded

\* Joined chains are bounded.
LEMMA BoundedUnion ==
    ASSUME NEW c \in SUBSET Block, NEW d \in SUBSET Block, Bounded(c), Bounded(d)
    PROVE  Bounded(c \cup d)
<1>1. PICK m \in Nat : \A b \in c : Height[b] <= m
  BY Zenon DEF Bounded
<1>2. PICK n \in Nat : \A b \in d : Height[b] <= n
  BY Zenon DEF Bounded
<1>3. \A b \in c \cup d : Height[b] <= m + n
  BY <1>1, <1>2, TreeAssumption
<1>4. m + n \in Nat
  BY <1>1, <1>2
<1> QED BY <1>3, <1>4, Zenon DEF Bounded

\* A single block, and no block, are bounded chains.
LEMMA BoundedSingleton ==
    ASSUME NEW b \in Block
    PROVE  Bounded({b}) /\ Bounded({})
<1>1. Height[b] \in Nat /\ Height[b] <= Height[b]
  BY TreeAssumption
<1> QED BY <1>1, Zenon DEF Bounded

-----------------------------------------------------------------------------
\* Every chain of a chain set is a finite chain on t.
ChainsOK(cs, t) ==
    \A c \in cs : c \in SUBSET Block /\ ExtendsBlock(c, t) /\ Bounded(c)

\* The parent chain of p ends in p.
LEMMA ParentChainEndsInParent ==
    ASSUME NEW cs, NEW t \in Block, ChainsOK(cs, t), NEW p \in Block,
           NEW c, IsParentChain(c, cs, p)
    PROVE  /\ c \in SUBSET Block /\ ExtendsBlock(c, t) /\ Bounded(c)
           /\ p \in c /\ \A x \in c : Height[x] <= Height[p]
<1>1. CASE ChainsWithTip(cs, p) # {}
  <2>1. c \in cs /\ c # {} /\ NonFinalizedTip(c) = p
    BY <1>1, Zenon DEF IsParentChain, IsBest, ChainsWithTip
  <2>2. c \in SUBSET Block /\ ExtendsBlock(c, t) /\ Bounded(c)
    BY <2>1, Zenon DEF ChainsOK
  <2> QED BY <2>1, <2>2, TipIsHighest, Zenon
<1>2. CASE ChainsWithTip(cs, p) = {}
  <2>1. PICK d \in cs : p \in d /\ c = Fork(d, p)
    BY <1>2, Zenon DEF IsParentChain, IsBest, ChainsContaining
  <2>2. d \in SUBSET Block /\ ExtendsBlock(d, t) /\ Bounded(d)
    BY <2>1, Zenon DEF ChainsOK
  <2>3. Fork(d, p) \subseteq d
    BY Zenon DEF Fork
  <2> QED BY <2>1, <2>2, <2>3, ForkExtends, BoundedSubset, Zenon
<1> QED BY <1>1, <1>2, Zenon

\* finalize() moves every chain it keeps from t onto the root of the best chain,
\* which is a child of t.
LEMMA FinalizeMovesChains ==
    ASSUME NEW cs, NEW t \in Block, ChainsOK(cs, t), {} \notin cs, NEW best \in cs
    PROVE  /\ ChainsOK(FinalizeChains(cs, best), NonFinalizedRoot(best))
           /\ NonFinalizedRoot(best) \in best
           /\ NonFinalizedRoot(best) \in Block
           /\ Parent[NonFinalizedRoot(best)] = t
           /\ Height[NonFinalizedRoot(best)] = Height[t] + 1
           /\ \A d \in FinalizeChains(cs, best) : \E c \in cs :
                d = PopRoot(c) /\ NonFinalizedRoot(c) = NonFinalizedRoot(best)
<1>1. best \in SUBSET Block /\ best # {} /\ ExtendsBlock(best, t)
  BY Zenon DEF ChainsOK
<1>2. NonFinalizedRoot(best) \in best /\ NonFinalizedRoot(best) \in Block
  BY <1>1, RootIsLowest, Zenon
<1>3. \A d \in FinalizeChains(cs, best) : \E c \in cs :
        d = PopRoot(c) /\ NonFinalizedRoot(c) = NonFinalizedRoot(best)
  BY Zenon DEF FinalizeChains
<1>4. ASSUME NEW c \in cs, NonFinalizedRoot(c) = NonFinalizedRoot(best)
      PROVE  /\ PopRoot(c) \in SUBSET Block
             /\ ExtendsBlock(PopRoot(c), NonFinalizedRoot(best))
             /\ Bounded(PopRoot(c))
  <2>1. c \in SUBSET Block /\ c # {} /\ ExtendsBlock(c, t) /\ Bounded(c)
    BY Zenon DEF ChainsOK
  <2>2. PopRoot(c) \subseteq c
    BY Zenon DEF PopRoot
  <2>3. ExtendsBlock(PopRoot(c), NonFinalizedRoot(c))
    BY <2>1, PopRootExtends, Zenon
  <2> QED BY <1>4, <2>1, <2>2, <2>3, BoundedSubset, Zenon
<1>5. ChainsOK(FinalizeChains(cs, best), NonFinalizedRoot(best))
  BY <1>3, <1>4 DEF ChainsOK
<1> QED BY <1>1, <1>2, <1>3, <1>5, RootIsChild, Zenon

\* The insertions add one chain and otherwise only drop chains.
LEMMA InsertAddsOne ==
    ASSUME NEW cs, NEW c, NEW p
    PROVE  /\ InsertAbove(cs, c, p) \subseteq cs \cup {c}
           /\ InsertWithout(cs, c, p) \subseteq cs \cup {c}
BY Zenon DEF InsertAbove, InsertWithout, LimitForks
-----------------------------------------------------------------------------
\* Two chains on t that share a block agree up to this block.
LEMMA PathsAgree ==
    ASSUME NEW c \in SUBSET Block, NEW d \in SUBSET Block, NEW t \in Block,
           ExtendsBlock(c, t), ExtendsBlock(d, t), NEW x \in c, x \in d
    PROVE  \A y \in c : Height[y] <= Height[x] => y \in d
<1> DEFINE B == {y \in c : Height[y] <= Height[x] /\ y \notin d}
           T == {Height[x] - Height[y] : y \in B}
<1>1. SUFFICES ASSUME B # {} PROVE FALSE
  BY Zenon
<1>2. \A y \in Block : Height[y] \in Nat
  BY TreeAssumption, Zenon
<1>3. T \in SUBSET Nat /\ T # {}
  BY <1>1, <1>2
<1>4. PICK m \in T : \A n \in T : m <= n
  BY <1>3, LeastNatural, Zenon
<1>5. PICK y \in B : m = Height[x] - Height[y]
  BY <1>4, Zenon
<1>6. Height[y] < Height[x] /\ Height[y] > Height[t]
  <2>1. Height[y] # Height[x]
    BY Zenon DEF ExtendsBlock
  <2> QED BY <2>1, <1>2 DEF ExtendsBlock
<1>7. PICK z \in c : Height[z] = Height[y] + 1
  <2>1. Height[y] + 1 \in (Height[t] + 1) .. Height[x]
    BY <1>2, <1>6
  <2> QED BY <2>1, NoGaps
<1>8. z \in d
  <2>1. SUFFICES ASSUME z \notin d PROVE FALSE
    BY Zenon
  <2>2. z \in B
    BY <1>2, <1>6, <1>7, <2>1
  <2>3. m <= Height[x] - Height[z]
    BY <1>4, <2>2, Zenon
  <2> QED BY <1>2, <1>5, <1>7, <2>3
<1>9. Parent[z] \in Block /\ Height[Parent[z]] = Height[y] /\ Parent[z] # t
  <2>1. Height[z] > Height[t]
    BY <1>8, Zenon DEF ExtendsBlock
  <2>2. Parent[z] \in Block /\ Height[z] = Height[Parent[z]] + 1 /\ Height[Parent[z]] \in Nat
    BY <2>1, ParentHeight, Zenon
  <2> QED BY <1>2, <1>6, <1>7, <2>2
<1>10. Parent[z] = y /\ Parent[z] \in d
  BY <1>7, <1>8, <1>9, Zenon DEF ExtendsBlock
<1> QED BY <1>10, Zenon

\* Chains on t are finite.
LEMMA ChainIsFinite ==
    ASSUME NEW c \in SUBSET Block, NEW t \in Block, ExtendsBlock(c, t), Bounded(c)
    PROVE  IsFiniteSet(c)
<1>1. PICK n \in Nat : \A b \in c : Height[b] <= n
  BY Zenon DEF Bounded
<1> DEFINE f == [b \in c |-> Height[b]]
<1>2. f \in [c -> 0 .. n]
  BY <1>1, TreeAssumption
<1>3. f \in Injection(c, 0 .. n)
  BY <1>2, Zenon DEF Injection, IsInjective, ExtendsBlock
<1>4. IsFiniteSet(0 .. n)
  BY FS_Interval
<1> QED BY <1>3, <1>4, FS_Injection, Zenon

\* The work of a chain is the work of any of its blocks and of the rest of it.
LEMMA WorkOfChain ==
    ASSUME NEW c \in SUBSET Block, IsFiniteSet(c)
    PROVE  /\ PartialCumulativeWork(c) \in Nat
           /\ c = {} => PartialCumulativeWork(c) = 0
           /\ \A r \in c : /\ Work[r] \in Nat \ {0}
                           /\ PartialCumulativeWork(c \ {r}) \in Nat
                           /\ PartialCumulativeWork(c) = Work[r] + PartialCumulativeWork(c \ {r})
<1>1. \A d : PartialCumulativeWork(d) = SumOver(Work, d)
  BY Zenon DEF PartialCumulativeWork, SumOver
<1>2. \A r \in Block : Work[r] \in Nat /\ Work[r] \in Nat \ {0}
  BY WorkAssumption, Zenon
<1>3. \A r \in c : IsFiniteSet(c \ {r}) /\ c \ {r} \in SUBSET Block
  BY FS_Subset, Zenon
<1>4. SumOver(Work, c) \in Nat /\ \A r \in c : SumOver(Work, c \ {r}) \in Nat
  BY <1>2, <1>3, SumType, Zenon
<1>5. \A r \in c : SumOver(Work, c) = Work[r] + SumOver(Work, c \ {r})
  BY <1>2, SumRemove
<1>6. c = {} => SumOver(Work, c) = 0
  BY SumStep, Zenon
<1> QED BY <1>1, <1>2, <1>4, <1>5, <1>6, Zenon

\* There is only one best chain.
LEMMA BestIsUnique ==
    ASSUME NEW cs, NEW t \in Block, ChainsOK(cs, t),
           NEW c, NEW d, IsBest(c, cs), IsBest(d, cs)
    PROVE  c = d
<1>1. SUFFICES ASSUME c # d PROVE FALSE
  BY Zenon
<1>2. c \in cs /\ d \in cs /\ Better(c, d) /\ Better(d, c)
  BY <1>1, Zenon DEF IsBest
<1>3. \A x \in cs : PartialCumulativeWork(x) \in Nat
  BY ChainIsFinite, WorkOfChain, Zenon DEF ChainsOK
<1>4. \A x \in cs : x # {} => HashRank[NonFinalizedTip(x)] \in Nat
  BY TipIsHighest, WorkAssumption, Zenon DEF ChainsOK
<1> QED BY <1>2, <1>3, <1>4 DEF Better

\* Taking the common root from two chains does not change which one is better,
\* nor the tip of a chain that keeps a block.
LEMMA PopKeepsOrder ==
    ASSUME NEW t \in Block, NEW c \in SUBSET Block, NEW d \in SUBSET Block,
           ExtendsBlock(c, t), ExtendsBlock(d, t), Bounded(c), Bounded(d),
           c # {}, d # {}, NonFinalizedRoot(c) = NonFinalizedRoot(d), Better(c, d)
    PROVE  /\ PopRoot(c) # {} => Better(PopRoot(c), PopRoot(d))
           /\ PopRoot(c) = {} => d = c
<1> DEFINE r == NonFinalizedRoot(c)
<1>1. r \in c /\ r \in d /\ PopRoot(c) = c \ {r} /\ PopRoot(d) = d \ {r}
  BY RootIsLowest, Zenon DEF PopRoot
<1>2. IsFiniteSet(c) /\ IsFiniteSet(d) /\ IsFiniteSet(c \ {r}) /\ IsFiniteSet(d \ {r})
  BY ChainIsFinite, FS_Subset, Zenon
<1> HIDE DEF r
<1>3. /\ PartialCumulativeWork(c) = Work[r] + PartialCumulativeWork(c \ {r})
      /\ PartialCumulativeWork(d) = Work[r] + PartialCumulativeWork(d \ {r})
      /\ PartialCumulativeWork(c \ {r}) \in Nat /\ PartialCumulativeWork(d \ {r}) \in Nat
      /\ Work[r] \in Nat
  BY <1>1, <1>2, WorkOfChain, Zenon
<1>4. ASSUME NEW e \in SUBSET Block, IsFiniteSet(e), e # {}
      PROVE  PartialCumulativeWork(e) \in Nat \ {0}
  <2>1. PICK x \in e : TRUE
    BY <1>4, Zenon
  <2>2. /\ PartialCumulativeWork(e) = Work[x] + PartialCumulativeWork(e \ {x})
        /\ Work[x] \in Nat \ {0} /\ PartialCumulativeWork(e \ {x}) \in Nat
    BY <1>4, WorkOfChain, Zenon
  <2> QED BY <2>2
<1>5. PartialCumulativeWork({}) = 0
  BY FS_EmptySet, WorkOfChain, Zenon
<1>6. ASSUME NEW e \in SUBSET Block, Bounded(e), ExtendsBlock(e, t), r \in e, e \ {r} # {},
             \A x \in e : Height[r] <= Height[x]
      PROVE  NonFinalizedTip(e \ {r}) = NonFinalizedTip(e)
  <2> DEFINE u == NonFinalizedTip(e \ {r})
             v == NonFinalizedTip(e)
  <2>1. Bounded(e \ {r})
    BY <1>6, BoundedSubset, Zenon
  <2>2. u \in e /\ u # r /\ \A x \in e \ {r} : Height[x] <= Height[u]
    BY <1>6, <2>1, TipIsHighest
  <2>3. v \in e /\ \A x \in e : Height[x] <= Height[v]
    BY <1>6, TipIsHighest, Zenon
  <2> HIDE DEF u, v
  <2>4. v # r
    <3>1. SUFFICES ASSUME v = r PROVE FALSE
      BY Zenon
    <3>2. Height[u] = Height[r]
      BY <1>6, <2>2, <2>3, <3>1, TreeAssumption
    <3> QED BY <1>6, <2>2, <3>2, Zenon DEF ExtendsBlock
  <2>5. Height[u] = Height[v]
    BY <2>2, <2>3, <2>4, TreeAssumption
  <2>6. u = v
    BY <1>6, <2>2, <2>3, <2>5, Zenon DEF ExtendsBlock
  <2> QED BY <2>6, Zenon DEF u, v
<1>7. ASSUME c \ {r} # {} PROVE Better(c \ {r}, d \ {r})
  <2>1. CASE d \ {r} = {}
    BY <1>2, <1>4, <1>5, <1>7, <2>1 DEF Better
  <2>2. CASE d \ {r} # {}
    <3>1. NonFinalizedTip(c \ {r}) = NonFinalizedTip(c) /\ NonFinalizedTip(d \ {r}) = NonFinalizedTip(d)
      BY <1>1, <1>6, <1>7, <2>2, RootIsLowest, Zenon DEF r
    <3> QED BY <1>3, <1>7, <2>2, <3>1 DEF Better
  <2> QED BY <2>1, <2>2, Zenon
<1>8. ASSUME c \ {r} = {} PROVE d = c
  <2>1. PartialCumulativeWork(c) >= PartialCumulativeWork(d)
    BY <1>3 DEF Better
  <2>2. PartialCumulativeWork(c \ {r}) = 0
    BY <1>5, <1>8, Zenon
  <2>3. PartialCumulativeWork(d \ {r}) = 0
    BY <1>3, <2>1, <2>2
  <2>4. d \ {r} = {}
    BY <1>2, <1>4, <2>3, Zenon
  <2> QED BY <1>1, <1>8, <2>4
<1> QED BY <1>1, <1>7, <1>8, Zenon

\* A block chain on t without its part up to p is a chain on p.
LEMMA AboveExtends ==
    ASSUME NEW c \in SUBSET Block, NEW t \in Block, ExtendsBlock(c, t), NEW p \in c
    PROVE  ExtendsBlock(c \ Fork(c, p), p)
<1> DEFINE d == c \ Fork(c, p)
<1>1. /\ \A x \in Block : Height[x] \in Nat
      /\ \A x \in c : Height[x] > Height[t] /\ Parent[x] \in c \cup {t}
  BY TreeAssumption, Zenon DEF ExtendsBlock
<1>2. \A x \in c : x \in d <=> Height[x] > Height[p]
  BY <1>1 DEF Fork
<1>3. ASSUME NEW x \in d PROVE Height[x] > Height[p] /\ Parent[x] \in d \cup {p}
  <2>1. Height[x] > Height[p] /\ x \in c
    BY <1>2, Zenon
  <2>2. Height[x] = Height[Parent[x]] + 1 /\ Height[Parent[x]] \in Nat /\ Parent[x] \in Block
    BY <2>1, ParentHeight, Zenon
  <2>3. Parent[x] \in c
    <3>1. Height[p] > Height[t] /\ Height[p] \in Nat /\ Height[t] \in Nat
      BY <1>1, Zenon
    <3>2. Height[Parent[x]] >= Height[p]
      BY <2>1, <2>2, <3>1
    <3>3. Parent[x] # t
      BY <2>2, <3>1, <3>2
    <3> QED BY <1>1, <2>1, <3>3, Zenon
  <2>4. CASE Height[Parent[x]] = Height[p]
    BY <2>1, <2>3, <2>4, Zenon DEF ExtendsBlock
  <2>5. CASE Height[Parent[x]] # Height[p]
    <3>1. Height[Parent[x]] > Height[p]
      BY <1>1, <2>1, <2>2, <2>5
    <3> QED BY <1>2, <2>1, <2>3, <3>1, Zenon
  <2> QED BY <2>4, <2>5, Zenon
<1>4. \A a, b \in d : Height[a] = Height[b] => a = b
  BY Zenon DEF ExtendsBlock
<1> QED BY <1>3, <1>4, Zenon DEF ExtendsBlock

\* Of two chains on t one is better, unless they are the same.
LEMMA ChainsCompare ==
    ASSUME NEW t \in Block, NEW c \in SUBSET Block, NEW d \in SUBSET Block,
           ExtendsBlock(c, t), ExtendsBlock(d, t), Bounded(c), Bounded(d),
           c # {}, d # {}, c # d
    PROVE  Better(c, d) \/ Better(d, c)
<1> DEFINE u == NonFinalizedTip(c)
           v == NonFinalizedTip(d)
<1>1. u \in c /\ (\A x \in c : Height[x] <= Height[u]) /\ u \in Block
  BY TipIsHighest, Zenon
<1>2. v \in d /\ (\A x \in d : Height[x] <= Height[v]) /\ v \in Block
  BY TipIsHighest, Zenon
<1>3. PartialCumulativeWork(c) \in Nat /\ PartialCumulativeWork(d) \in Nat
  BY ChainIsFinite, WorkOfChain, Zenon
<1> HIDE DEF u, v
<1>4. u # v
  <2>1. SUFFICES ASSUME u = v PROVE FALSE
    BY Zenon
  <2>2. \A x \in c : x \in d
    BY <1>1, <1>2, <2>1, PathsAgree, Zenon
  <2>3. \A x \in d : x \in c
    BY <1>1, <1>2, <2>1, PathsAgree, Zenon
  <2> QED BY <2>2, <2>3, Zenon
<1>5. HashRank[u] \in Nat /\ HashRank[v] \in Nat /\ HashRank[u] # HashRank[v]
  BY <1>1, <1>2, <1>4, WorkAssumption, Zenon
<1> QED BY <1>3, <1>5 DEF Better, u, v

\* "Better" is transitive on chains.
LEMMA BetterIsTransitive ==
    ASSUME NEW cs, NEW t \in Block, ChainsOK(cs, t), {} \notin cs,
           NEW c \in cs, NEW d \in cs, NEW e \in cs, Better(c, d), Better(d, e)
    PROVE  Better(c, e)
<1>1. \A x \in cs : PartialCumulativeWork(x) \in Nat
  BY ChainIsFinite, WorkOfChain, Zenon DEF ChainsOK
<1>2. \A x \in cs : HashRank[NonFinalizedTip(x)] \in Nat
  BY TipIsHighest, WorkAssumption, Zenon DEF ChainsOK
<1> QED BY <1>1, <1>2 DEF Better

\* A finite set of chains has a best one.
LEMMA BestExists ==
    ASSUME NEW cs, NEW t \in Block, ChainsOK(cs, t), {} \notin cs, IsFiniteSet(cs), cs # {}
    PROVE  \E c \in cs : IsBest(c, cs)
<1> DEFINE B == {s \in SUBSET cs : s # {} /\ ~ \E c \in s : IsBest(c, s)}
<1>1. SUFFICES ASSUME B # {} PROVE FALSE
  BY Zenon
<1>2. PICK s \in B : \A x \in s : \A r \in SUBSET (s \ {x}) : r \notin B
  <2>1. B \in SUBSET (SUBSET cs)
    BY Zenon
  <2> HIDE DEF B
  <2> QED BY <1>1, <2>1, SmallestSubset, Zenon
<1>3. PICK x \in s : TRUE
  BY Zenon
<1> DEFINE r == s \ {x}
<1>4. r \notin B /\ r \in SUBSET cs /\ x \in cs
  BY <1>2
<1>5. CASE r = {}
  <2>1. IsBest(x, s)
    BY <1>5, Zenon DEF IsBest
  <2> QED BY <2>1, Zenon
<1>6. CASE r # {}
  <2>1. PICK y \in r : IsBest(y, r)
    BY <1>4, <1>6, Zenon
  <2>2. y \in cs /\ y # x /\ y \in s
    BY <1>4, <2>1, Zenon
  <2>3. Better(x, y) \/ Better(y, x)
    BY <1>4, <2>2, ChainsCompare, Zenon DEF ChainsOK
  <2>4. CASE Better(y, x)
    <3>1. IsBest(y, s)
      BY <2>1, <2>2, <2>4, Zenon DEF IsBest
    <3> QED BY <2>2, <3>1, Zenon
  <2>5. CASE Better(x, y)
    <3>1. ASSUME NEW z \in s \ {x} PROVE Better(x, z)
      <4>1. z = y \/ Better(y, z)
        BY <2>1, Zenon DEF IsBest
      <4> QED BY <1>4, <2>2, <2>5, <4>1, BetterIsTransitive, Zenon
    <3>2. IsBest(x, s)
      BY <3>1, Zenon DEF IsBest
    <3> QED BY <3>2, Zenon
  <2> QED BY <2>3, <2>4, <2>5, Zenon
<1> QED BY <1>5, <1>6, Zenon

-----------------------------------------------------------------------------
\* A PoW view: a database fin that is a path from the genesis block to tip, and
\* finitely many chains above it.
ViewOK(fin, tip, cs) ==
    /\ fin \in SUBSET Block /\ Genesis \in fin /\ tip \in fin
    /\ ExtendsBlock(fin \ {Genesis}, Genesis)
    /\ \A x \in fin : Height[x] <= Height[tip]
    /\ ChainsOK(cs, tip) /\ {} \notin cs /\ IsFiniteSet(cs)

\* The chains that remain when the blocks low are finalized, and the blocks that a
\* decision finalizes.
Remaining(cs, low) == {d \ low : d \in {e \in cs : low \subseteq e}} \ {{}}

LowBlocks(cs, final) == UNION {Fork(c, final) : c \in ChainsContaining(cs, final)}

\* The tip of the database once these blocks are finalized.
TipAbove(tip, low) == IF low = {} THEN tip ELSE NonFinalizedTip(low)

\* Committing a block that finalizes nothing adds it to one chain of the view.
LEMMA CommitKeepsView ==
    ASSUME NEW fin, NEW tip, NEW cs, ViewOK(fin, tip, cs),
           NEW b \in Block, Height[b] > Height[tip],
           NEW c, IF Parent[b] = tip THEN c = {} ELSE IsParentChain(c, cs, Parent[b]),
           NEW low \in SUBSET fin
    PROVE  LET new == InsertAbove(cs, Push(c, b), Parent[b])
           IN  ViewOK(fin, tip, Remaining(new, low))
<1> DEFINE new == InsertAbove(cs, Push(c, b), Parent[b])
           after == {d \ low : d \in {e \in new : low \subseteq e}} \ {{}}
<1>1. tip \in Block /\ tip \in fin /\ fin \in SUBSET Block /\ ChainsOK(cs, tip) /\ IsFiniteSet(cs)
  BY Zenon DEF ViewOK
<1>2. Parent[b] \in Block /\ Height[b] = Height[Parent[b]] + 1 /\ Height[Parent[b]] \in Nat
  BY <1>1, ParentHeight, Zenon
<1>3. /\ c \in SUBSET Block /\ ExtendsBlock(c, tip) /\ Bounded(c)
      /\ \/ c = {} /\ Parent[b] = tip
         \/ Parent[b] \in c /\ \A x \in c : Height[x] <= Height[Parent[b]]
  <2>1. CASE Parent[b] = tip
    BY <1>1, <2>1, BoundedSingleton, Zenon DEF ExtendsBlock
  <2>2. CASE Parent[b] # tip
    BY <1>1, <1>2, <2>2, ParentChainEndsInParent
  <2> QED BY <2>1, <2>2, Zenon
<1>4. ExtendsBlock({b}, Parent[b])
  BY <1>2 DEF ExtendsBlock
<1>5. Push(c, b) \in SUBSET Block /\ ExtendsBlock(Push(c, b), tip) /\ Bounded(Push(c, b))
  BY <1>1, <1>2, <1>3, <1>4, JoinExtends, BoundedSingleton, BoundedUnion, Zenon DEF Push
<1>6. new \subseteq cs \cup {Push(c, b)}
  BY InsertAddsOne, Zenon
<1> HIDE DEF new
<1>7. ChainsOK(new, tip)
  BY <1>1, <1>5, <1>6, Zenon DEF ChainsOK
<1>8. IsFiniteSet(new)
  <2>1. IsFiniteSet(cs \cup {Push(c, b)})
    BY <1>1, FS_AddElement, Zenon
  <2> QED BY <1>6, <2>1, FS_Subset, Zenon
<1>9. after \subseteq new
  <2>1. ASSUME NEW d \in new, low \subseteq d PROVE d \ low = d
    <3>1. \A x \in d : Height[x] > Height[tip]
      BY <1>7, Zenon DEF ChainsOK, ExtendsBlock
    <3>2. \A x \in low : Height[x] <= Height[tip]
      BY Zenon DEF ViewOK
    <3>3. \A x \in Block : Height[x] \in Nat
      BY TreeAssumption, Zenon
    <3>4. low \subseteq Block
      BY <1>1, Zenon
    <3>5. \A x \in low : FALSE
      BY <1>1, <2>1, <3>1, <3>2, <3>3, <3>4
    <3> QED BY <3>5, Zenon
  <2>2. ASSUME NEW a \in after PROVE a \in new
    <3>1. PICK d \in new : low \subseteq d /\ a = d \ low
      BY Zenon
    <3> QED BY <2>1, <3>1, Zenon
  <2> QED BY <2>2, Zenon
<1>10. IsFiniteSet(after) /\ {} \notin after
  BY <1>8, <1>9, FS_Subset, Zenon
<1> HIDE DEF after
<1>11. ChainsOK(after, tip)
  BY <1>7, <1>9, Zenon DEF ChainsOK
<1>12. ViewOK(fin, tip, after)
  BY <1>10, <1>11, Zenon DEF ViewOK
<1> QED BY <1>12, Zenon DEF after, new, Remaining

\* Applying a decision moves the tip of the database to the decided block if it is
\* in a chain, and puts it into the database if it is known at all.
LEMMA FinalizeKeepsView ==
    ASSUME NEW fin, NEW tip, NEW cs, ViewOK(fin, tip, cs), NEW final \in Block,
           NEW low, low = LowBlocks(cs, final)
    PROVE  /\ ViewOK(fin \cup low, TipAbove(tip, low), Remaining(cs, low))
           /\ TipAbove(tip, low) \in {tip, final}
           /\ final \in fin \cup UNION cs => final \in fin \cup low
<1> SUFFICES ASSUME NEW top, top = TipAbove(tip, low), NEW after, after = Remaining(cs, low)
             PROVE  /\ ViewOK(fin \cup low, top, after)
                    /\ top \in {tip, final}
                    /\ final \in fin \cup UNION cs => final \in fin \cup low
  BY Zenon
<1> USE DEF Remaining, LowBlocks, TipAbove
<1>1. /\ tip \in Block /\ tip \in fin /\ fin \in SUBSET Block /\ ChainsOK(cs, tip)
      /\ IsFiniteSet(cs) /\ Genesis \in fin /\ ExtendsBlock(fin \ {Genesis}, Genesis)
      /\ \A x \in fin : Height[x] <= Height[tip]
  BY Zenon DEF ViewOK
<1>2. (\A x \in Block : Height[x] \in Nat) /\ Height[Genesis] = 0
  BY TreeAssumption, Zenon
<1>3. IsFiniteSet(after) /\ {} \notin after
  <2> DEFINE S == {e \in cs : low \subseteq e}
             T == {d \ low : d \in S}
  <2>1. IsFiniteSet(S)
    BY <1>1, FS_Subset, Zenon
  <2>2. IsFiniteSet(T)
    <3> HIDE DEF S
    <3> DEFINE f == [d \in S |-> d \ low]
    <3>1. f \in Surjection(S, T)
      BY Zenon DEF Surjection
    <3> HIDE DEF f, T
    <3> QED BY <2>1, <3>1, FS_Surjection, Zenon
  <2> QED BY <2>2, FS_Subset, Zenon
<1>4. CASE ChainsContaining(cs, final) = {}
  <2>1. low = {}
    BY <1>4, Zenon
  <2>2. top = tip /\ fin \cup low = fin /\ after \subseteq cs
    <3>1. \A d \in cs : d \ low = d
      BY <2>1, Zenon
    <3>2. ASSUME NEW a \in after PROVE a \in cs
      <4>1. PICK d \in cs : low \subseteq d /\ a = d \ low
        BY Zenon
      <4> QED BY <3>1, <4>1, Zenon
    <3> QED BY <2>1, <3>2, Zenon
  <2>3. final \notin UNION cs
    BY <1>4, Zenon DEF ChainsContaining
  <2>4. ChainsOK(after, tip)
    <3> QED BY <1>1, <2>2, Zenon DEF ChainsOK
  <2>5. ViewOK(fin, tip, after)
    <3> QED BY <1>3, <2>4, Zenon DEF ViewOK
  <2>6. ViewOK(fin \cup low, top, after)
    BY <2>2, <2>5, Zenon
  <2> QED BY <2>2, <2>3, <2>6, Zenon
<1>5. CASE ChainsContaining(cs, final) # {}
  <2>1. PICK c \in cs : final \in c
    BY <1>5, Zenon DEF ChainsContaining
  <2>2. \A d \in cs : d \in SUBSET Block /\ ExtendsBlock(d, tip) /\ Bounded(d)
    BY <1>1, Zenon DEF ChainsOK
  <2>3. ASSUME NEW d \in cs, final \in d PROVE Fork(d, final) = Fork(c, final)
    <3>1. \A y \in c : Height[y] <= Height[final] => y \in d
      BY <1>1, <2>1, <2>2, <2>3, PathsAgree, Zenon
    <3>2. \A y \in d : Height[y] <= Height[final] => y \in c
      BY <1>1, <2>1, <2>2, <2>3, PathsAgree, Zenon
    <3> QED BY <3>1, <3>2, Zenon DEF Fork
  <2>4. low = Fork(c, final)
    BY <2>1, <2>3, Zenon DEF ChainsContaining
  <2>5. /\ ExtendsBlock(low, tip) /\ final \in low /\ low \in SUBSET Block
        /\ \A x \in low : Height[x] <= Height[final]
    <3>1. c \in SUBSET Block /\ ExtendsBlock(c, tip)
      BY <2>2, Zenon
    <3> QED BY <1>1, <2>1, <2>4, <3>1, ForkExtends, Zenon
  <2>6. top = final
    <3>1. Bounded(low)
      BY <1>2, <2>5, Zenon DEF Bounded
    <3>2. NonFinalizedTip(low) \in low /\ \A x \in low : Height[x] <= Height[NonFinalizedTip(low)]
      BY <2>5, <3>1, TipIsHighest, Zenon
    <3>3. Height[NonFinalizedTip(low)] = Height[final]
      BY <1>2, <2>5, <3>2
    <3>4. NonFinalizedTip(low) = final
      BY <2>5, <3>2, <3>3, Zenon DEF ExtendsBlock
    <3> QED BY <2>5, <3>4, Zenon
  <2>7. \A x \in fin \cup low : Height[x] <= Height[final]
    <3>1. Height[tip] < Height[final]
      BY <2>5, Zenon DEF ExtendsBlock
    <3>2. Height[tip] \in Nat /\ Height[final] \in Nat
      BY <1>1, <1>2, Zenon
    <3>3. \A x \in fin : Height[x] \in Nat /\ Height[x] <= Height[tip]
      BY <1>1, <1>2, Zenon
    <3> QED BY <2>5, <3>1, <3>2, <3>3
  <2>8. ExtendsBlock((fin \cup low) \ {Genesis}, Genesis)
    <3> DEFINE base == fin \ {Genesis}
    <3>1. \/ base = {} /\ tip = Genesis
          \/ tip \in base /\ \A x \in base : Height[x] <= Height[tip]
      <4>1. CASE tip = Genesis
        <5>1. \A x \in base : Height[x] <= 0 /\ Height[x] > 0 /\ Height[x] \in Nat
          BY <1>1, <1>2, <4>1, Zenon DEF ExtendsBlock
        <5> QED BY <4>1, <5>1
      <4>2. CASE tip # Genesis
        BY <1>1, <4>2, Zenon
      <4> QED BY <4>1, <4>2, Zenon
    <3>2. Genesis \notin low
      BY <1>1, <1>2, <2>5 DEF ExtendsBlock
    <3>3. (fin \cup low) \ {Genesis} = base \cup low
      BY <3>2, Zenon
    <3>4. base \in SUBSET Block /\ ExtendsBlock(base, Genesis) /\ Genesis \in Block
      BY <1>1, Zenon
    <3> HIDE DEF base
    <3>5. ExtendsBlock(base \cup low, Genesis)
      BY <1>1, <2>5, <3>1, <3>4, JoinExtends, Zenon
    <3> QED BY <3>3, <3>5, Zenon
  <2>9. ChainsOK(after, final)
    <3>1. ASSUME NEW a \in after
          PROVE  a \in SUBSET Block /\ ExtendsBlock(a, final) /\ Bounded(a)
      <4>1. PICK d \in cs : low \subseteq d /\ a = d \ low
        BY Zenon
      <4>2. final \in d /\ low = Fork(d, final)
        BY <2>3, <2>4, <2>5, <4>1, Zenon
      <4>3. ExtendsBlock(d \ Fork(d, final), final)
        BY <1>1, <2>2, <4>2, AboveExtends, Zenon
      <4>4. Bounded(a)
        BY <2>2, <4>1, BoundedSubset, Zenon
      <4> QED BY <2>2, <4>1, <4>2, <4>3, <4>4, Zenon
    <3> QED BY <3>1, Zenon DEF ChainsOK
  <2>10. fin \cup low \in SUBSET Block /\ Genesis \in fin \cup low /\ final \in fin \cup low
    BY <1>1, <2>5, Zenon
  <2>11. ViewOK(fin \cup low, top, after)
    BY <1>3, <2>6, <2>7, <2>8, <2>9, <2>10, Zenon DEF ViewOK
  <2> QED BY <2>6, <2>10, <2>11, Zenon
<1> QED BY <1>4, <1>5, Zenon

\* Of two databases, one that contains the tip of the other contains all of it.
LEMMA DatabasesNest ==
    ASSUME NEW fin, NEW tip, NEW cs, ViewOK(fin, tip, cs),
           NEW fin2, NEW tip2, NEW cs2, ViewOK(fin2, tip2, cs2), tip \in fin2
    PROVE  fin \subseteq fin2
<1>1. /\ fin \in SUBSET Block /\ tip \in fin /\ ExtendsBlock(fin \ {Genesis}, Genesis)
      /\ \A x \in fin : Height[x] <= Height[tip]
  BY Zenon DEF ViewOK
<1>2. fin2 \in SUBSET Block /\ Genesis \in fin2 /\ ExtendsBlock(fin2 \ {Genesis}, Genesis)
  BY Zenon DEF ViewOK
<1>3. CASE tip = Genesis
  <2>1. \A x \in fin \ {Genesis} : Height[x] <= Height[Genesis] /\ Height[x] > Height[Genesis]
    BY <1>1, <1>3, Zenon DEF ExtendsBlock
  <2>2. \A x \in Block : Height[x] \in Nat
    BY TreeAssumption, Zenon
  <2>3. Genesis \in Block
    BY TreeAssumption, Zenon
  <2>4. \A x \in fin : x = Genesis
    BY <1>1, <2>1, <2>2, <2>3
  <2> QED BY <1>2, <2>4, Zenon
<1>4. CASE tip # Genesis
  <2>1. tip \in fin \ {Genesis} /\ tip \in fin2 \ {Genesis}
    BY <1>1, <1>4, Zenon
  <2>2. fin \ {Genesis} \in SUBSET Block /\ fin2 \ {Genesis} \in SUBSET Block /\ Genesis \in Block
    BY <1>1, <1>2, Zenon
  <2>3. \A y \in fin \ {Genesis} : Height[y] <= Height[tip] => y \in fin2 \ {Genesis}
    BY <1>1, <1>2, <2>1, <2>2, PathsAgree
  <2> QED BY <1>1, <1>2, <2>3, Zenon
<1> QED BY <1>3, <1>4, Zenon

\* What the state service reads is one chain from the genesis block.
LEMMA MainIsChain ==
    ASSUME NEW fin, NEW tip, NEW cs, ViewOK(fin, tip, cs)
    PROVE  LET main == fin \cup BestChain(cs)
           IN  /\ main \in SUBSET Block /\ Genesis \in main /\ Bounded(main)
               /\ ExtendsBlock(main \ {Genesis}, Genesis)
               /\ BestChain(cs) \in cs \cup {{}}
<1> DEFINE best == BestChain(cs)
           base == fin \ {Genesis}
<1>1. /\ tip \in Block /\ base \in SUBSET Block /\ Genesis \in fin /\ tip \in fin
      /\ ExtendsBlock(base, Genesis) /\ fin \in SUBSET Block
  BY Zenon DEF ViewOK
<1>2. best \in cs \cup {{}}
  <2>1. CASE cs = {}
    BY <2>1, Zenon DEF BestChain
  <2>2. CASE cs # {}
    <3>1. \E c \in cs : IsBest(c, cs)
      BY <1>1, <2>2, BestExists, Zenon DEF ViewOK
    <3> QED BY <2>2, <3>1, Zenon DEF BestChain
  <2> QED BY <2>1, <2>2, Zenon
<1> HIDE DEF best
<1>3. best \in SUBSET Block /\ ExtendsBlock(best, tip) /\ Bounded(best)
  <2>1. CASE best \in cs
    BY <2>1, Zenon DEF ViewOK, ChainsOK
  <2>2. CASE best = {}
    BY <1>1, <2>2, BoundedSingleton, Zenon DEF ExtendsBlock
  <2> QED BY <1>2, <2>1, <2>2, Zenon
<1>4. Bounded(fin)
  <2>1. Height[tip] \in Nat /\ \A x \in fin : Height[x] <= Height[tip]
    BY <1>1, TreeAssumption, Zenon DEF ViewOK
  <2> QED BY <2>1, Zenon DEF Bounded
<1>5. ExtendsBlock(base \cup best, Genesis)
  <2>1. \/ base = {} /\ tip = Genesis
        \/ tip \in base /\ \A x \in base : Height[x] <= Height[tip]
    <3>1. CASE tip = Genesis
      <4>1. \A x \in base : Height[x] <= 0 /\ Height[x] > 0 /\ Height[x] \in Nat
        BY <1>1, <3>1, TreeAssumption, Zenon DEF ViewOK, ExtendsBlock
      <4> QED BY <3>1, <4>1
    <3>2. CASE tip # Genesis
      BY <1>1, <3>2, Zenon DEF ViewOK
    <3> QED BY <3>1, <3>2, Zenon
  <2> HIDE DEF base
  <2> QED BY <1>1, <1>3, <2>1, JoinExtends, TreeAssumption, Zenon
<1>6. Genesis \notin best
  BY <1>1, <1>3, TreeAssumption DEF ExtendsBlock
<1>7. (fin \cup best) \ {Genesis} = base \cup best
  BY <1>6, Zenon
<1>8. Bounded(fin \cup best)
  BY <1>1, <1>3, <1>4, BoundedUnion, Zenon
<1> QED BY <1>1, <1>2, <1>3, <1>5, <1>7, <1>8, Zenon DEF best

\* Such a chain has one block at each height up to its tip, and every block of it
\* is at such a height.
LEMMA MainHasHeights ==
    ASSUME NEW main \in SUBSET Block, Genesis \in main, Bounded(main),
           ExtendsBlock(main \ {Genesis}, Genesis)
    PROVE  /\ Tip(main) \in main /\ Height[Tip(main)] \in Nat
           /\ \A x \in main : Height[x] \in 0 .. Height[Tip(main)]
           /\ \A h \in 0 .. Height[Tip(main)] :
                HashByHeight(main, h) \in main /\ Height[HashByHeight(main, h)] = h
           /\ \A x, y \in main : Height[x] = Height[y] => x = y
<1>1. /\ Tip(main) \in main /\ \A x \in main : Height[x] <= Height[Tip(main)]
  BY TipIsHighest, Zenon DEF Tip
<1>2. (\A x \in main : Height[x] \in Nat) /\ Height[Genesis] = 0
  BY TreeAssumption, Zenon
<1>3. ASSUME NEW h \in 0 .. Height[Tip(main)] PROVE \E x \in main : Height[x] = h
  <2>1. CASE h = 0
    BY <1>2, <2>1, Zenon
  <2>2. CASE h # 0
    <3>1. h \in (Height[Genesis] + 1) .. Height[Tip(main)]
      BY <1>1, <1>2, <2>2
    <3>2. Tip(main) \in main \ {Genesis}
      BY <1>1, <1>2, <3>1
    <3> QED BY <3>1, <3>2, NoGaps, TreeAssumption
  <2> QED BY <2>1, <2>2, Zenon
<1>4. \A h \in 0 .. Height[Tip(main)] :
        HashByHeight(main, h) \in main /\ Height[HashByHeight(main, h)] = h
  BY <1>3, Zenon DEF HashByHeight
<1>5. ASSUME NEW x \in main, NEW y \in main, Height[x] = Height[y] PROVE x = y
  <2>1. CASE x = Genesis
    <3>1. \A z \in main \ {Genesis} : Height[z] > 0
      BY <1>2, Zenon DEF ExtendsBlock
    <3> QED BY <1>2, <1>5, <2>1, <3>1
  <2>2. CASE y = Genesis
    <3>1. \A z \in main \ {Genesis} : Height[z] > 0
      BY <1>2, Zenon DEF ExtendsBlock
    <3> QED BY <1>2, <1>5, <2>2, <3>1
  <2>3. CASE x # Genesis /\ y # Genesis
    BY <1>5, <2>3, Zenon DEF ExtendsBlock
  <2> QED BY <2>1, <2>2, <2>3, Zenon
<1> QED BY <1>1, <1>2, <1>4, <1>5

\* If the database is only the genesis block and the best chain has at most k blocks,
\* the tip is at most at height k, and the block at height 0 is the genesis block.
LEMMA ShortChainReachesGenesis ==
    ASSUME NEW fin, NEW cs, ViewOK(fin, Genesis, cs), NEW k \in Nat,
           Cardinality(BestChain(cs)) <= k
    PROVE  LET main == fin \cup BestChain(cs)
           IN  /\ Height[Tip(main)] \in Nat /\ Height[Tip(main)] <= k
               /\ HashByHeight(main, 0) = Genesis
<1> DEFINE best == BestChain(cs)
           main == fin \cup best
<1>1. /\ main \in SUBSET Block /\ Genesis \in main /\ Bounded(main)
      /\ ExtendsBlock(main \ {Genesis}, Genesis) /\ best \in cs \cup {{}}
  BY MainIsChain, Zenon
<1>2. /\ Tip(main) \in main /\ Height[Tip(main)] \in Nat
      /\ \A h \in 0 .. Height[Tip(main)] :
            HashByHeight(main, h) \in main /\ Height[HashByHeight(main, h)] = h
      /\ \A x, y \in main : Height[x] = Height[y] => x = y
  BY <1>1, MainHasHeights, Zenon
<1>3. Height[Genesis] = 0 /\ Genesis \in Block
  BY TreeAssumption, Zenon
<1>4. ASSUME Tip(main) \in best PROVE Height[Tip(main)] <= k
  <2>1. best \in SUBSET Block /\ ExtendsBlock(best, Genesis) /\ Bounded(best)
    BY <1>1, <1>4, Zenon DEF ViewOK, ChainsOK
  <2>2. Cardinality(Fork(best, Tip(main))) = Height[Tip(main)] - Height[Genesis]
    BY <1>3, <1>4, <2>1, ForkCount, Zenon
  <2>3. IsFiniteSet(best) /\ Fork(best, Tip(main)) \subseteq best
    BY <1>3, <2>1, ChainIsFinite, Zenon DEF Fork
  <2>4. /\ Cardinality(best) \in Nat
        /\ Cardinality(Fork(best, Tip(main))) <= Cardinality(best)
    BY <2>3, FS_Subset, FS_CardinalityType, Zenon
  <2> HIDE DEF main, best
  <2>5. Cardinality(best) <= k
    BY Zenon DEF best
  <2> QED BY <1>2, <1>3, <2>2, <2>4, <2>5
<1>5. ASSUME Tip(main) \in fin PROVE Height[Tip(main)] <= k
  <2>1. Height[Tip(main)] <= Height[Genesis]
    BY <1>5, Zenon DEF ViewOK
  <2> HIDE DEF main
  <2> QED BY <1>2, <1>3, <2>1
<1>6. Height[Tip(main)] <= k
  BY <1>2, <1>4, <1>5, Zenon
<1>7. HashByHeight(main, 0) = Genesis
  <2> HIDE DEF main
  <2>1. 0 \in 0 .. Height[Tip(main)]
    BY <1>2
  <2>2. HashByHeight(main, 0) \in main /\ Height[HashByHeight(main, 0)] = 0
    BY <1>2, <2>1, Zenon
  <2> QED BY <1>1, <1>2, <1>3, <2>2, Zenon
<1> QED BY <1>2, <1>6, <1>7, Zenon

\* Below a stored block, a block is in the main chain exactly if it is stored, and if
\* it is not another block of its height is.
LEMMA ViewDecidesBelow ==
    ASSUME NEW fin, NEW tip, NEW cs, ViewOK(fin, tip, cs),
           NEW b \in Block, NEW f \in fin, Height[b] < Height[f]
    PROVE  LET main == fin \cup BestChain(cs)
           IN  /\ b \in main => b \in fin
               /\ b \notin main => \E x \in fin \ {b} : Height[x] = Height[b]
<1> DEFINE main == fin \cup BestChain(cs)
<1>1. /\ main \in SUBSET Block /\ Genesis \in main /\ Bounded(main)
      /\ ExtendsBlock(main \ {Genesis}, Genesis)
  BY MainIsChain, Zenon
<1>2. \A x, y \in main : Height[x] = Height[y] => x = y
  BY <1>1, MainHasHeights, Zenon
<1>3. \E x \in fin : Height[x] = Height[b]
  <2>1. fin \in SUBSET Block /\ Genesis \in fin /\ ExtendsBlock(fin \ {Genesis}, Genesis)
    BY Zenon DEF ViewOK
  <2>2. Bounded(fin)
    BY <1>1, BoundedSubset, Zenon
  <2>3. /\ \A x \in fin : Height[x] \in 0 .. Height[Tip(fin)]
        /\ \A h \in 0 .. Height[Tip(fin)] :
                HashByHeight(fin, h) \in fin /\ Height[HashByHeight(fin, h)] = h
        /\ Height[Tip(fin)] \in Nat
    BY <2>1, <2>2, MainHasHeights, Zenon
  <2>4. Height[b] \in 0 .. Height[Tip(fin)]
    <3>1. Height[b] \in Nat /\ Height[f] \in 0 .. Height[Tip(fin)]
      BY <2>3, TreeAssumption, Zenon
    <3> QED BY <2>3, <3>1
  <2> QED BY <2>3, <2>4, Zenon
<1> QED BY <1>2, <1>3, Zenon

\* The blocks of a chain with more than k blocks from them to the tip.
PastLimit(c, k) == {x \in c : Cardinality({y \in c : Height[y] >= Height[x]}) > k}

\* If the blocks of the best chain past the limit k are all stored there are none, and
\* the best chain has at most k blocks.
LEMMA NoneFinalizedIsShort ==
    ASSUME NEW fin, NEW tip, NEW cs, ViewOK(fin, tip, cs), NEW k \in Nat,
           NEW best, best = BestChain(cs), NEW low, low = PastLimit(best, k), low \subseteq fin
    PROVE  low = {} /\ Cardinality(best) <= k
<1>1. best \in cs \cup {{}}
  BY MainIsChain, Zenon
<1>2. low = {}
  <2>1. \A x \in low : Height[x] > Height[tip] /\ Height[x] <= Height[tip]
    BY <1>1, Zenon DEF PastLimit, ViewOK, ChainsOK, ExtendsBlock
  <2>2. tip \in Block /\ low \subseteq Block
    BY Zenon DEF ViewOK
  <2>3. Height[tip] \in Nat /\ \A x \in low : Height[x] \in Nat
    BY <2>2, TreeAssumption, Zenon
  <2> QED BY <2>1, <2>3
<1>3. CASE best = {}
  <2>1. Cardinality(best) = 0
    BY <1>3, FS_EmptySet, Zenon
  <2> QED BY <1>2, <2>1
<1>4. CASE best # {}
  <2>1. best \in SUBSET Block /\ ExtendsBlock(best, tip) /\ Bounded(best) /\ tip \in Block
    BY <1>1, <1>4, Zenon DEF ViewOK, ChainsOK
  <2>2. Cardinality(best) \in Nat
    BY <2>1, ChainIsFinite, FS_CardinalityType, Zenon
  <2> DEFINE r == NonFinalizedRoot(best)
  <2>3. r \in best /\ \A x \in best : Height[r] <= Height[x]
    BY <1>4, <2>1, RootIsLowest, Zenon
  <2> HIDE DEF r
  <2>4. {y \in best : Height[y] >= Height[r]} = best
    <3>1. \A y \in best : Height[y] \in Nat
      BY <2>1, TreeAssumption, Zenon
    <3> QED BY <2>3, <3>1, Zenon
  <2>5. ~(Cardinality({y \in best : Height[y] >= Height[r]}) > k)
    BY <1>2, <2>3, Zenon DEF PastLimit
  <2> QED BY <1>2, <2>2, <2>4, <2>5
<1> QED BY <1>3, <1>4, Zenon
=============================================================================
