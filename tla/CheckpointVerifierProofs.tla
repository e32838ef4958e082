---------------------- MODULE CheckpointVerifierProofs ----------------------
(***************************************************************************)
(* Proofs about the checkpoint verifier, for every block tree, every list  *)
(* of checkpoints on one chain and every set of requests.                  *)
(***************************************************************************)
EXTENDS CheckpointVerifier, FiniteSetTheorems, TLAPS

-----------------------------------------------------------------------------
(* Greatest elements.                                                       *)

\* A nonempty set of naturals has a least element.
LEMMA LeastNatural ==
    ASSUME NEW T \in SUBSET Nat, T # {}
    PROVE  \E x \in T : \A y \in T : x <= y
<1>1. PICK x \in T : \A y \in T : ~(<<y, x>> \in OpToRel(<, Nat))
  BY NatLessThanWellFounded, WFMin, Zenon
<1>2. ASSUME NEW y \in T PROVE x <= y
  <2>1. x \in Nat /\ y \in Nat
    BY Zenon
  <2>2. ~(y < x)
    BY <1>1, <2>1, Zenon DEF OpToRel
  <2> QED BY <2>1, <2>2
<1> QED BY <1>2, Zenon

\* Max picks the greatest element of a set of naturals that has a bound.
LEMMA MaxOfBounded ==
    ASSUME NEW S \in SUBSET Nat, S # {}, NEW n \in Nat, \A x \in S : x <= n
    PROVE  Max(S) \in S /\ \A x \in S : x <= Max(S)
<1> DEFINE T == {n - x : x \in S}
<1>1. T \in SUBSET Nat /\ T # {}
  <2>1. \A x \in S : n - x \in Nat
    OBVIOUS
  <2> QED BY <2>1, Zenon
<1>2. PICK t \in T : \A y \in T : t <= y
  BY <1>1, LeastNatural, Zenon
<1>3. PICK m \in S : t = n - m
  BY <1>2, Zenon
<1>4. ASSUME NEW x \in S PROVE m >= x
  <2>1. n - x \in T
    BY Zenon
  <2>2. t <= n - x
    BY <1>2, <2>1, Zenon
  <2> QED BY <1>3, <2>2
<1>5. Max(S) \in S /\ \A x \in S : Max(S) >= x
  BY <1>4, Zenon DEF Max
<1> QED BY <1>5, Zenon

\* A finite set of naturals has a bound: a smallest one without is not empty, and
\* has a bound once it loses an element.
LEMMA FiniteIsBounded ==
    ASSUME NEW S \in SUBSET Nat, IsFiniteSet(S)
    PROVE  \E n \in Nat : \A x \in S : x <= n
<1> DEFINE HasBound(s) == \E n \in Nat : \A x \in s : x <= n
           N == {Cardinality(s) : s \in {t \in SUBSET S : ~HasBound(t)}}
<1>1. SUFFICES ASSUME ~HasBound(S) PROVE FALSE
  BY Zenon
<1>2. \A s \in SUBSET S : IsFiniteSet(s) /\ Cardinality(s) \in Nat
  BY FS_Subset, FS_CardinalityType, Zenon
<1>3. N \in SUBSET Nat /\ N # {}
  <2>1. S \in {t \in SUBSET S : ~HasBound(t)}
    BY <1>1, Zenon
  <2> QED BY <1>2, <2>1, Zenon
<1>4. PICK k \in N : \A m \in N : k <= m
  BY <1>3, LeastNatural, Zenon
<1>5. PICK s \in SUBSET S : ~HasBound(s) /\ k = Cardinality(s)
  BY <1>4, Zenon
<1>6. s # {}
  BY <1>5, Zenon
<1>7. PICK x \in s : TRUE
  BY <1>6, Zenon
<1>8. IsFiniteSet(s \ {x}) /\ Cardinality(s \ {x}) = k - 1 /\ k \in Nat
  BY <1>2, <1>5, <1>7, FS_RemoveElement, Zenon
<1>9. HasBound(s \ {x})
  <2>1. SUFFICES ASSUME ~HasBound(s \ {x}) PROVE FALSE
    BY Zenon
  <2>2. Cardinality(s \ {x}) \in N
    BY <2>1, Zenon
  <2>3. k <= k - 1
    BY <1>4, <1>8, <2>2, Zenon
  <2> QED BY <1>8, <2>3
<1>10. PICK n \in Nat : \A y \in s \ {x} : y <= n
  BY <1>9, Zenon
<1>11. HasBound(s)
  <2>1. x \in Nat
    BY <1>7, Zenon
  <2>2. CASE x <= n
    BY <1>10, <2>2, Zenon
  <2>3. CASE n <= x
    <3>1. \A y \in s : y <= x
      BY <1>10, <2>1, <2>3
    <3> QED BY <2>1, <3>1, Zenon
  <2> QED BY <2>1, <2>2, <2>3
<1> QED BY <1>5, <1>11, Zenon

\* The last checkpoint.
LEMMA LastCheckpoint ==
    /\ MaxHeight \in DOMAIN Checkpoint /\ MaxHeight \in Nat
    /\ \A h \in DOMAIN Checkpoint : h \in Nat /\ h <= MaxHeight
<1>1. DOMAIN Checkpoint \in SUBSET Nat /\ DOMAIN Checkpoint # {} /\ IsFiniteSet(DOMAIN Checkpoint)
  BY CheckpointAssumption, Zenon
<1>2. PICK n \in Nat : \A h \in DOMAIN Checkpoint : h <= n
  BY <1>1, FiniteIsBounded, Zenon
<1> QED BY <1>1, <1>2, MaxOfBounded, Zenon DEF MaxHeight

-----------------------------------------------------------------------------
(* The chain of the checkpoints.                                            *)

\* A walk back from the checkpoint at a height, down to another height.
IsWalk(f, low, target) ==
    /\ f \in [low .. target -> Block]
    /\ f[target] = Checkpoint[target]
    /\ \A h \in low .. target : Height[f[h]] = h /\ (h < target => f[h] = Parent[f[h + 1]])

\* There is a walk down to genesis: one that could not go on at some height would
\* have a block without a parent above genesis.
LEMMA WalkExists ==
    ASSUME NEW target \in DOMAIN Checkpoint
    PROVE  \E f : IsWalk(f, 0, target)
<1> DEFINE T == {n \in 0 .. target : ~ \E f : IsWalk(f, target - n, target)}
<1>1. target \in Nat /\ Checkpoint[target] \in Block /\ Height[Checkpoint[target]] = target
  BY CheckpointAssumption, Zenon
<1>2. SUFFICES ASSUME T # {} PROVE FALSE
  BY <1>1
<1>3. PICK n \in T : \A m \in T : n <= m
  <2>1. T \in SUBSET Nat
    BY <1>1
  <2> QED BY <1>2, <2>1, LeastNatural, Zenon
<1>4. n # 0
  <2>1. SUFFICES ASSUME n = 0 PROVE FALSE
    BY Zenon
  <2>2. IsWalk([h \in target .. target |-> Checkpoint[target]], target - n, target)
    BY <1>1, <2>1 DEF IsWalk
  <2> QED BY <1>3, <2>2, Zenon
<1>5. PICK low \in Nat : low = target - n
  BY <1>1, <1>3
<1>6. n \in 1 .. target /\ low + 1 \in 1 .. target /\ n - 1 \in 0 .. target /\ n - 1 \notin T
  BY <1>1, <1>3, <1>4, <1>5
<1>7. PICK f : IsWalk(f, low + 1, target)
  <2>1. target - (n - 1) = low + 1
    BY <1>1, <1>5, <1>6
  <2> QED BY <1>6, <2>1, Zenon
<1> DEFINE g == [h \in low .. target |-> IF h = low THEN Parent[f[low + 1]] ELSE f[h]]
<1>8. /\ f \in [low + 1 .. target -> Block] /\ f[target] = Checkpoint[target]
      /\ \A h \in low + 1 .. target : Height[f[h]] = h /\ (h < target => f[h] = Parent[f[h + 1]])
  BY <1>7, Zenon DEF IsWalk
<1>9. Parent[f[low + 1]] \in Block /\ Height[Parent[f[low + 1]]] = low
  <2>1. f[low + 1] \in Block /\ Height[f[low + 1]] = low + 1
    BY <1>1, <1>6, <1>8
  <2>2. Parent[f[low + 1]] \in Block /\ low + 1 = Height[Parent[f[low + 1]]] + 1
    BY <2>1, CheckpointAssumption
  <2>3. Height[Parent[f[low + 1]]] \in Nat
    BY <2>2, CheckpointAssumption, Zenon
  <2> QED BY <2>2, <2>3
<1>10. \A h \in low .. target : h = low \/ h \in low + 1 .. target
  BY <1>1
<1>11. g \in [low .. target -> Block]
  BY <1>8, <1>9, <1>10, Zenon
<1>12. low < target /\ target \in low .. target
  BY <1>1, <1>6
<1>13. g[target] = Checkpoint[target]
  BY <1>1, <1>8, <1>12
<1>14. ASSUME NEW h \in low .. target
       PROVE  Height[g[h]] = h /\ (h < target => g[h] = Parent[g[h + 1]])
  <2>1. h < target => h + 1 \in low .. target /\ h + 1 # low
    BY <1>1
  <2>2. h < target => g[h + 1] = f[h + 1]
    BY <2>1, Zenon
  <2>3. CASE h = low
    BY <1>9, <2>2, <2>3, Zenon
  <2>4. CASE h \in low + 1 .. target
    <3>1. h # low
      BY <2>4
    <3>2. g[h] = f[h]
      BY <3>1, Zenon
    <3> QED BY <1>8, <2>2, <2>4, <3>2, Zenon
  <2> QED BY <1>10, <2>3, <2>4, Zenon
<1>15. IsWalk(g, low, target)
  BY <1>11, <1>13, <1>14, Zenon DEF IsWalk
<1> QED BY <1>3, <1>5, <1>15, Zenon

\* Two walks from the same block are the same.
LEMMA SameWalk ==
    ASSUME NEW target \in Nat, NEW f, NEW g, f[target] = g[target],
           \A h \in 0 .. target : h < target => f[h] = Parent[f[h + 1]] /\ g[h] = Parent[g[h + 1]]
    PROVE  \A h \in 0 .. target : f[h] = g[h]
<1> DEFINE T == {n \in 0 .. target : f[target - n] # g[target - n]}
<1>1. SUFFICES ASSUME T # {} PROVE FALSE
  <2>1. SUFFICES ASSUME NEW h \in 0 .. target, f[h] # g[h] PROVE T # {}
    BY Zenon
  <2>2. target - h \in 0 .. target /\ target - (target - h) = h
    OBVIOUS
  <2> QED BY <2>1, <2>2, Zenon
<1>2. PICK n \in T : \A m \in T : n <= m
  <2>1. T \in SUBSET Nat
    OBVIOUS
  <2> QED BY <1>1, <2>1, LeastNatural, Zenon
<1>3. n \in 1 .. target /\ f[target - n] # g[target - n]
  BY <1>2
<1>4. f[target - (n - 1)] = g[target - (n - 1)]
  <2>1. n - 1 \in 0 .. target /\ n - 1 \notin T
    BY <1>2, <1>3
  <2> QED BY <2>1, Zenon
<1>5. PICK h \in 0 .. target : h = target - n
  BY <1>3
<1>6. h < target /\ h + 1 = target - (n - 1)
  BY <1>3, <1>5
<1> QED BY <1>3, <1>4, <1>5, <1>6

\* expected_hash is that walk.
LEMMA ExpectedIsWalk ==
    ASSUME NEW target \in DOMAIN Checkpoint
    PROVE  IsWalk(ExpectedHash[target], 0, target)
<1> DEFINE Rec(f) == f = [h \in 0 .. target |->
                            IF h = target THEN Checkpoint[target] ELSE Parent[f[h + 1]]]
           e == CHOOSE f : Rec(f)
<1>1. target \in Nat
  BY CheckpointAssumption, Zenon
<1>2. PICK w : IsWalk(w, 0, target)
  BY WalkExists, Zenon
<1>3. Rec(w)
  BY <1>1, <1>2 DEF IsWalk
<1>4. Rec(e)
  BY <1>3, Zenon
<1>5. ExpectedHash[target] = [h \in 0 .. target |-> e[h]]
  BY Zenon DEF ExpectedHash
<1>6. /\ w \in [0 .. target -> Block] /\ w[target] = Checkpoint[target]
      /\ \A h \in 0 .. target : h < target => w[h] = Parent[w[h + 1]]
  BY <1>2, Zenon DEF IsWalk
<1>7. e[target] = w[target] /\ \A h \in 0 .. target : h < target => e[h] = Parent[e[h + 1]]
  <2> HIDE DEF e
  <2>1. target \in 0 .. target
    BY <1>1
  <2> QED BY <1>1, <1>4, <1>6, <2>1
<1> HIDE DEF e
<1>8. \A h \in 0 .. target : e[h] = w[h]
  <2>1. \A h \in 0 .. target : h < target =>
            e[h] = Parent[e[h + 1]] /\ w[h] = Parent[w[h + 1]]
    BY <1>6, <1>7, Zenon
  <2> QED BY <1>1, <1>7, <2>1, SameWalk
<1>9. ExpectedHash[target] = w
  BY <1>5, <1>6, <1>8, Zenon
<1> QED BY <1>2, <1>9, Zenon

\* The chain of the checkpoints, by height.
Main == ExpectedHash[MaxHeight]

\* The chain that the checkpoints fix has one block at each height.
LEMMA MainIsChain ==
    /\ Main \in [Heights -> Block]
    /\ \A h \in Heights : Height[Main[h]] = h
    /\ \A h \in Heights : h < MaxHeight => Main[h] = Parent[Main[h + 1]]
BY LastCheckpoint, ExpectedIsWalk DEF Main, IsWalk, Heights

\* Walks from all checkpoints are on that chain.
LEMMA ExpectedIsMain ==
    ASSUME NEW target \in DOMAIN Checkpoint, NEW h \in 0 .. target
    PROVE  /\ h \in Heights
           /\ ExpectedHash[target][h] = Main[h]
           /\ h \in DOMAIN Checkpoint => Checkpoint[h] = Main[h]
<1>1. target \in Nat /\ target <= MaxHeight /\ MaxHeight \in Nat
  BY LastCheckpoint, Zenon
<1>2. 0 .. target \subseteq Heights
  BY <1>1 DEF Heights
<1>3. /\ ExpectedHash[target][target] = Checkpoint[target]
      /\ \A k \in 0 .. target : k < target =>
            ExpectedHash[target][k] = Parent[ExpectedHash[target][k + 1]]
  BY ExpectedIsWalk DEF IsWalk
<1>4. Main[target] = Checkpoint[target]
  BY ChainAssumption, Zenon DEF Main
<1>5. \A k \in 0 .. target : k < target => Main[k] = Parent[Main[k + 1]]
  BY <1>1, <1>2, MainIsChain
<1>6. ExpectedHash[target][h] = Main[h]
  <2> DEFINE f == ExpectedHash[target]
             g == Main
  <2>1. f[target] = g[target]
    BY <1>3, <1>4, Zenon
  <2>2. \A k \in 0 .. target : k < target => f[k] = Parent[f[k + 1]] /\ g[k] = Parent[g[k + 1]]
    BY <1>3, <1>5, Zenon
  <2> HIDE DEF f, g
  <2>3. f[h] = g[h]
    BY <1>1, <2>1, <2>2, SameWalk
  <2> QED BY <2>3, Zenon DEF f, g
<1> QED BY <1>2, <1>6, ChainAssumption, Zenon DEF Main

-----------------------------------------------------------------------------
(* The inductive invariant.                                                 *)

\* A tip that is on the chain of the checkpoints, as far as there are checkpoints.
OnChain(t) ==
    /\ t \in Block \cup {NONE}
    /\ t # NONE /\ Height[t] <= MaxHeight => Main[Height[t]] = t

\* The progress says where the chain continues.
ProgressOK(p, hash) ==
    /\ p \in [kind : {"BeforeGenesis", "InitialTip", "PreviousCheckpoint", "FinalCheckpoint"},
              height : Heights \cup {-1}]
    /\ hash \in Block \cup {NONE}
    /\ p.kind = "BeforeGenesis" => p.height = -1
    /\ p.kind = "InitialTip" => /\ hash \in Block /\ p.height = Height[hash]
                                /\ p.height \in Heights /\ Main[p.height] = hash
    /\ p.kind = "PreviousCheckpoint" => p.height \in DOMAIN Checkpoint

\* The queue holds the requests of the waiting tasks, once for each block.
QueueOK(q, ta) ==
    /\ q \in [Heights -> SUBSET Request]
    /\ \A h \in Heights : \A r \in q[h] : Height[Of[r]] = h /\ ta[r] = "waiting"
    /\ \A h \in Heights : \A r, t \in q[h] : Of[r] = Of[t] => r = t
    /\ \A r \in Request : ta[r] = "waiting" =>
            Height[Of[r]] \in Heights /\ r \in q[Height[Of[r]]]

\* The queue is within its limit.
WithinLimit(q) ==
    \A h \in Heights : IsFiniteSet(q[h]) /\ Cardinality(q[h]) <= MAX_QUEUED_BLOCKS_PER_HEIGHT

\* The block of the chain at a height is in the state or on its way to it, or corrupt
\* data for it or for a block below it failed.
Covered(h, ta, t) ==
    \/ h <= TipHeight(t)
    \/ \E x \in Request : Of[x] = Main[h] /\ ta[x] = "committing"
    \/ \E x \in Corrupt : Height[Of[x]] <= h /\ ta[x] = "err"

\* What is verified is on the chain, and whole down to the tip.
TasksOK(ta, t) ==
    /\ ta \in [Request -> Tasks]
    /\ \A r \in Request : ta[r] \in {"committing", "ok"} =>
            Height[Of[r]] \in Heights /\ Main[Height[Of[r]]] = Of[r]
    /\ \A r \in Request : ta[r] = "committing" /\ Height[Of[r]] > 0 =>
            Covered(Height[Of[r]] - 1, ta, t)

\* Everything up to the progress was verified or is in the state.
ProgressCovered(p, ta, t) == \A h \in Heights : h <= p.height => Covered(h, ta, t)

\* A tip that was read earlier.
OldTip(u, t) == OnChain(u) /\ TipHeight(u) <= TipHeight(t)

\* A request that is made once has no task before.
FuturesOK(fu, ta, t) ==
    /\ fu \in [Request -> [at : Futures, tip : Block \cup {NONE}]]
    /\ \A r \in Request : OldTip(fu[r].tip, t)
    /\ \A r \in Request \ Syncer : fu[r].at = "none" => ta[r] = "none"

ResetsOK(rs, t) == rs \in Seq(Block \cup {NONE}) /\ \A i \in DOMAIN rs : OldTip(rs[i], t)

IInv ==
    /\ ProgressOK(progress, initial_tip_hash) /\ QueueOK(queued, task) /\ WithinLimit(queued)
    /\ TasksOK(task, tip) /\ ProgressCovered(progress, task, tip)
    /\ FuturesOK(future, task, tip) /\ ResetsOK(resets, tip) /\ OnChain(tip)
    /\ service \in {"running", "dropped"}

-----------------------------------------------------------------------------
(* Coverage, and the start.                                                 *)

\* Heights of tips are comparable.
LEMMA TipHeights ==
    ASSUME NEW u \in Block \cup {NONE}
    PROVE  TipHeight(u) \in Int /\ TipHeight(u) >= -1
BY CheckpointAssumption DEF TipHeight

\* Coverage lasts: tips only grow, a task that leaves the state leaves its height
\* covered, and corrupt requests that failed are not made again.
LEMMA CoverageLasts ==
    ASSUME NEW ta, NEW tb, NEW t \in Block \cup {NONE}, NEW u \in Block \cup {NONE},
           TipHeight(t) <= TipHeight(u),
           \A x \in Request : ta[x] = "committing" =>
                tb[x] = "committing" \/ Covered(Height[Of[x]], tb, u),
           \A x \in Corrupt : ta[x] = "err" => tb[x] = "err",
           NEW h \in Heights, Covered(h, ta, t)
    PROVE  Covered(h, tb, u)
<1>1. h \in Int /\ TipHeight(t) \in Int /\ TipHeight(u) \in Int /\ Height[Main[h]] = h
  BY TipHeights, MainIsChain, LastCheckpoint DEF Heights
<1>2. CASE h <= TipHeight(t)
  BY <1>1, <1>2 DEF Covered
<1>3. CASE \E x \in Request : Of[x] = Main[h] /\ ta[x] = "committing"
  BY <1>1, <1>3, Zenon DEF Covered
<1>4. CASE \E x \in Corrupt : Height[Of[x]] <= h /\ ta[x] = "err"
  BY <1>4, Zenon DEF Covered
<1> QED BY <1>2, <1>3, <1>4, Zenon DEF Covered

\* The progress that a tip stands for is sound, and not above the tip.
LEMMA TipProgress ==
    ASSUME NEW u, OnChain(u)
    PROVE  /\ ProgressOK(ProgressFromTip(u), HashFromTip(u))
           /\ ProgressFromTip(u).height <= TipHeight(u)
<1>1. MaxHeight \in Nat
  BY LastCheckpoint, Zenon
<1>2. CASE u = NONE
  BY <1>1, <1>2 DEF ProgressOK, ProgressFromTip, HashFromTip, BeforeGenesis, Progress, TipHeight
<1>3. CASE u # NONE /\ Height[u] >= MaxHeight
  <2>1. Height[u] \in Nat /\ MaxHeight \in Heights
    BY <1>1, <1>3, CheckpointAssumption DEF OnChain, Heights
  <2> QED BY <1>1, <1>3, <2>1, Zenon
          DEF ProgressOK, ProgressFromTip, HashFromTip, FinalCheckpoint, Progress, TipHeight
<1>4. CASE u # NONE /\ ~(Height[u] >= MaxHeight)
  <2>1. u \in Block /\ Height[u] \in Nat
    BY <1>4, CheckpointAssumption, Zenon DEF OnChain
  <2>2. Height[u] \in Heights /\ Main[Height[u]] = u
    BY <1>1, <1>4, <2>1 DEF OnChain, Heights
  <2> QED BY <1>1, <1>4, <2>1, <2>2
          DEF ProgressOK, ProgressFromTip, HashFromTip, Progress, TipHeight
<1> QED BY <1>2, <1>3, <1>4, Zenon

\* The progress after a reset is covered: the tip has only grown since it was read.
LEMMA ResetCovered ==
    ASSUME NEW u, NEW t \in Block \cup {NONE}, OldTip(u, t), NEW ta
    PROVE  ProgressCovered(ProgressFromTip(u), ta, t)
<1>1. ProgressFromTip(u).height <= TipHeight(u) /\ ProgressFromTip(u).height \in Int
  BY TipProgress, LastCheckpoint DEF OldTip, ProgressOK, Heights
<1>2. TipHeight(u) \in Int /\ TipHeight(t) \in Int /\ TipHeight(u) <= TipHeight(t)
  BY TipHeights, Zenon DEF OldTip, OnChain
<1> QED BY <1>1, <1>2 DEF ProgressCovered, Covered, Heights

\* The verifier starts with an empty queue.
LEMMA InitIInv == Init => IInv
<1> SUFFICES ASSUME Init PROVE IInv
  BY Zenon
<1>1. OnChain(InitialTip)
  BY CheckpointAssumption, ChainAssumption, Zenon DEF OnChain, Main
<1>2. OldTip(InitialTip, tip) /\ OldTip(NONE, tip) /\ tip \in Block \cup {NONE}
  <2>1. TipHeight(InitialTip) \in Int /\ TipHeight(InitialTip) >= -1
    BY <1>1, TipHeights, Zenon DEF OnChain
  <2> QED BY <1>1, <2>1 DEF OldTip, OnChain, TipHeight, Init
<1>3. ProgressOK(progress, initial_tip_hash) /\ ProgressCovered(progress, task, tip)
  BY <1>1, <1>2, TipProgress, ResetCovered, Zenon DEF Init
<1>4. QueueOK(queued, task)
  BY Zenon DEF QueueOK, Init
<1>5. WithinLimit(queued)
  BY FS_EmptySet, CheckpointAssumption DEF WithinLimit, Init
<1>6. TasksOK(task, tip)
  BY Zenon DEF TasksOK, Init, Tasks
<1>7. FuturesOK(future, task, tip)
  BY <1>2, Zenon DEF FuturesOK, Init, Futures
<1>8. ResetsOK(resets, tip)
  BY DEF ResetsOK, Init
<1> QED BY <1>1, <1>3, <1>4, <1>5, <1>6, <1>7, <1>8, Zenon DEF IInv, Init

-----------------------------------------------------------------------------
(* queue_block.                                                             *)

\* A request that may be made.
Free(r, ta) == ta[r] \notin {"committing", "ok"} /\ (r \in Corrupt => ta[r] = "none")

\* The tasks once a request is queued and the one it replaced has failed.
Queued(ta, r, older) ==
    [t \in Request |-> IF t = r THEN "waiting" ELSE IF t \in older THEN "err" ELSE ta[t]]

\* The queue after queue_block matches the tasks, and is within its limit.
LEMMA QueueBlockOK ==
    ASSUME NEW qa, NEW ta, QueueOK(qa, ta), WithinLimit(qa),
           NEW r \in Request, Height[Of[r]] \in Heights, ~QueuedLimit(qa, r)
    PROVE  /\ QueueOK(QueueBlock(qa, r, Older(qa, r)), Queued(ta, r, Older(qa, r)))
           /\ WithinLimit(QueueBlock(qa, r, Older(qa, r)))
           /\ \A t \in Older(qa, r) : t \in Request /\ ta[t] = "waiting"
           /\ \A h \in Heights : QueueBlock(qa, r, Older(qa, r))[h] \cap Older(qa, r) = {}
<1> SUFFICES ASSUME NEW older, older = Older(qa, r), NEW q, q = QueueBlock(qa, r, older)
             PROVE  /\ QueueOK(q, Queued(ta, r, older)) /\ WithinLimit(q)
                    /\ \A t \in older : t \in Request /\ ta[t] = "waiting"
                    /\ \A h \in Heights : q[h] \cap older = {}
  BY Zenon
<1> DEFINE hr == Height[Of[r]]
<1>1. \A h \in Heights : r \in qa[h] => h = hr
  BY Zenon DEF QueueOK
<1>2. older \subseteq qa[hr] /\ (\A t \in older : Of[t] = Of[r]) /\ r \notin older
  BY Zenon DEF Older, Matches
<1>3. \A t \in qa[hr] : Of[t] = Of[r] => t \in older \/ t = r
  BY Zenon DEF Older, Matches
<1>4. \A t \in older : t \in Request /\ ta[t] = "waiting" /\ Height[Of[t]] = hr
  BY <1>2, Zenon DEF QueueOK
<1>5. q = [h \in Heights |-> IF h = hr THEN (qa[h] \ older) \cup {r} ELSE qa[h]]
  BY Zenon DEF QueueOK, QueueBlock
<1>6. \A h \in Heights : q[h] \cap older = {}
  BY <1>2, <1>4, <1>5 DEF QueueOK
<1>7. QueueOK(q, Queued(ta, r, older))
  <2>1. q \in [Heights -> SUBSET Request]
    BY <1>5 DEF QueueOK
  <2>2. ASSUME NEW h \in Heights, NEW t \in q[h]
        PROVE  Height[Of[t]] = h /\ Queued(ta, r, older)[t] = "waiting"
    BY <1>5, <1>6, <2>1 DEF QueueOK, Queued
  <2>3. ASSUME NEW h \in Heights, NEW s \in q[h], NEW t \in q[h], Of[s] = Of[t] PROVE s = t
    <3>1. CASE h # hr
      BY <1>5, <2>3, <3>1 DEF QueueOK
    <3>2. CASE h = hr
      <4>1. \A x \in q[h] : x = r \/ (x \in qa[hr] \ older /\ x # r)
        BY <1>5, <3>2
      <4>2. \A x \in qa[hr] \ older : x # r => Of[x] # Of[r]
        BY <1>3, Zenon
      <4> QED BY <2>3, <4>1, <4>2 DEF QueueOK
    <3> QED BY <3>1, <3>2, Zenon
  <2>4. ASSUME NEW t \in Request, Queued(ta, r, older)[t] = "waiting"
        PROVE  Height[Of[t]] \in Heights /\ t \in q[Height[Of[t]]]
    BY <1>5, <2>4 DEF QueueOK, Queued
  <2> QED BY <2>1, <2>2, <2>3, <2>4, Zenon DEF QueueOK
<1>8. WithinLimit(q)
  <2>1. IsFiniteSet(qa[hr]) /\ Cardinality(qa[hr]) <= MAX_QUEUED_BLOCKS_PER_HEIGHT
    BY Zenon DEF WithinLimit
  <2>2. Cardinality(qa[hr]) \in Nat /\ MAX_QUEUED_BLOCKS_PER_HEIGHT \in Nat
    BY <2>1, FS_CardinalityType, CheckpointAssumption, Zenon
  <2>3. CASE Matches(qa[hr], Of[r]) = {}
    <3>1. q[hr] = qa[hr] \cup {r}
      <4>1. older = {}
        BY <2>3, Zenon DEF Older
      <4> QED BY <1>5, <4>1, Zenon
    <3>2. IsFiniteSet(q[hr]) /\ Cardinality(q[hr]) = Cardinality(qa[hr]) + 1
      <4>1. r \notin qa[hr]
        BY <2>3, Zenon DEF Matches
      <4>2. /\ IsFiniteSet(qa[hr] \cup {r})
            /\ Cardinality(qa[hr] \cup {r}) = Cardinality(qa[hr]) + 1
        BY <2>1, <4>1, FS_AddElement, Zenon
      <4> QED BY <3>1, <4>2, Zenon
    <3>3. ~(Cardinality(qa[hr]) >= MAX_QUEUED_BLOCKS_PER_HEIGHT)
      BY <2>3, Zenon DEF QueuedLimit
    <3>4. Cardinality(q[hr]) <= MAX_QUEUED_BLOCKS_PER_HEIGHT
      BY <2>2, <3>2, <3>3
    <3> QED BY <1>5, <3>2, <3>4, Zenon DEF WithinLimit
  <2>4. CASE Matches(qa[hr], Of[r]) # {}
    <3>1. PICK o \in qa[hr] : Of[o] = Of[r]
      BY <2>4, Zenon DEF Matches
    <3>2. \A t \in qa[hr] : Of[t] = Of[r] => t = o
      <4>1. \A s, t \in qa[hr] : Of[s] = Of[t] => s = t
        BY Zenon DEF QueueOK
      <4> QED BY <3>1, <4>1
    <3>3. q[hr] = (qa[hr] \ {o}) \cup {r} /\ o \in qa[hr] /\ r \notin qa[hr] \ {o}
      <4>1. q[hr] = (qa[hr] \ older) \cup {r} /\ older \subseteq {o} /\ (o \in older \/ o = r)
        BY <1>2, <1>3, <1>5, <3>1, <3>2, Zenon
      <4> QED BY <3>1, <3>2, <4>1, Zenon
    <3>4. IsFiniteSet(qa[hr] \ {o}) /\ Cardinality(qa[hr] \ {o}) = Cardinality(qa[hr]) - 1
      BY <2>1, <3>3, FS_RemoveElement, Zenon
    <3>5. IsFiniteSet(q[hr]) /\ Cardinality(q[hr]) = Cardinality(qa[hr] \ {o}) + 1
      <4>1. /\ IsFiniteSet((qa[hr] \ {o}) \cup {r})
            /\ Cardinality((qa[hr] \ {o}) \cup {r}) = Cardinality(qa[hr] \ {o}) + 1
        BY <3>3, <3>4, FS_AddElement, Zenon
      <4> QED BY <3>3, <4>1, Zenon
    <3>6. Cardinality(q[hr]) <= MAX_QUEUED_BLOCKS_PER_HEIGHT
      BY <2>1, <2>2, <3>4, <3>5
    <3> QED BY <1>5, <3>5, <3>6, Zenon DEF WithinLimit
  <2> QED BY <2>3, <2>4, Zenon
<1> QED BY <1>4, <1>6, <1>7, <1>8, Zenon

-----------------------------------------------------------------------------
(* process_checkpoint_range.                                                *)

\* The range from the progress to a target, the part of it that is walked, what
\* is verified, what is rejected, and the progress afterwards.
IsRange(p, q, target, walked, ok, side, next) ==
    /\ Reached(p, q) # {} /\ target = Max(Reached(p, q))
    /\ walked = (IF Misses(p, q, target) = {} THEN p.height + 1
                 ELSE Max(Misses(p, q, target))) .. target
    /\ ok = IF Misses(p, q, target) = {} THEN Kept(q, target, walked) ELSE {}
    /\ side = SideChain(q, target, walked)
    /\ next = IF Misses(p, q, target) = {} THEN UpdateProgress(target) ELSE p

\* The target is the highest checkpoint that the queue reaches without a gap, and
\* the blocks that the walk expects are those of the chain.
LEMMA RangeIsReached ==
    ASSUME NEW p, NEW hash, ProgressOK(p, hash), NEW q, NEW target, NEW walked, NEW ok, NEW side,
           NEW next, IsRange(p, q, target, walked, ok, side, next)
    PROVE  /\ target \in DOMAIN Checkpoint /\ target \in Nat /\ target <= MaxHeight
           /\ p.height \in Int /\ p.height >= -1 /\ p.height < target
           /\ \A k \in (p.height + 1) .. target :
                /\ k \in Heights /\ q[k] # {} /\ ExpectedHash[target][k] = Main[k]
                /\ k \in DOMAIN Checkpoint => Checkpoint[k] = Main[k]
           /\ \A h \in Reached(p, q) : h <= target
<1>1. MaxHeight \in Nat /\ \A h \in DOMAIN Checkpoint : h \in Nat /\ h <= MaxHeight
  BY LastCheckpoint, Zenon
<1>2. p.height \in Int /\ p.height >= -1
  BY <1>1 DEF ProgressOK, Heights
<1>3. Reached(p, q) \in SUBSET Nat /\ \A h \in Reached(p, q) : h <= MaxHeight
  BY <1>1, Zenon DEF Reached
<1>4. target \in Reached(p, q) /\ \A h \in Reached(p, q) : h <= target
  BY <1>1, <1>3, MaxOfBounded, Zenon DEF IsRange
<1>5. /\ target \in DOMAIN Checkpoint /\ target > p.height
      /\ \A k \in (p.height + 1) .. target : q[k] # {}
  BY <1>4, Zenon DEF Reached
<1>6. ASSUME NEW k \in (p.height + 1) .. target
      PROVE  /\ k \in Heights /\ ExpectedHash[target][k] = Main[k]
             /\ k \in DOMAIN Checkpoint => Checkpoint[k] = Main[k]
  <2>1. k \in 0 .. target
    BY <1>1, <1>2, <1>5
  <2> QED BY <1>5, <2>1, ExpectedIsMain, Zenon
<1> QED BY <1>1, <1>2, <1>4, <1>5, <1>6, Zenon

\* Either every height of the range has its block of the chain, and exactly these
\* are verified, or the walk ends at the highest height without one and nothing is
\* verified.
LEMMA RangeIsWalked ==
    ASSUME NEW p, NEW hash, ProgressOK(p, hash), NEW q, NEW ta, QueueOK(q, ta),
           NEW target, NEW walked, NEW ok, NEW side, NEW next,
           IsRange(p, q, target, walked, ok, side, next)
    PROVE  /\ walked \subseteq (p.height + 1) .. target
           /\ \A x \in ok : \E h \in walked : x \in q[h] /\ Of[x] = Main[h]
           /\ side = {x \in UNION {q[h] : h \in walked} : Of[x] # Main[Height[Of[x]]]}
           /\ \/ /\ walked = (p.height + 1) .. target /\ next = UpdateProgress(target)
                 /\ \A h \in walked : \E x \in ok : x \in q[h] /\ Of[x] = Main[h]
                 /\ ok = {x \in UNION {q[h] : h \in walked} : Of[x] = Main[Height[Of[x]]]}
              \/ /\ ok = {} /\ next = p
                 /\ \E m \in walked : m <= target /\ \A x \in q[m] : Of[x] # Main[m]
<1> DEFINE R == (p.height + 1) .. target
           M == Misses(p, q, target)
<1>1. /\ target \in Nat /\ p.height \in Int /\ p.height >= -1 /\ p.height < target
      /\ \A k \in R : k \in Heights /\ ExpectedHash[target][k] = Main[k]
  BY RangeIsReached
<1>2. M = {h \in R : ~ \E x \in q[h] : Of[x] = Main[h]}
  BY <1>1, Zenon DEF Misses, Matches
<1>3. M # {} => Max(M) \in M /\ Max(M) \in R
  <2>1. M \in SUBSET Nat /\ \A x \in M : x <= target
    BY <1>1, <1>2
  <2>2. M # {} => Max(M) \in M
    BY <1>1, <2>1, MaxOfBounded, Zenon
  <2> QED BY <1>2, <2>2, Zenon
<1>4. walked \subseteq R
  BY <1>1, <1>3 DEF IsRange
<1>5. \A h \in walked : \A x \in q[h] : Height[Of[x]] = h
  BY <1>1, <1>4, Zenon DEF QueueOK
<1>6. Kept(q, target, walked) = {x \in UNION {q[h] : h \in walked} : Of[x] = Main[Height[Of[x]]]}
  <2>1. Kept(q, target, walked) = UNION {{x \in q[h] : Of[x] = Main[h]} : h \in walked}
    BY <1>1, <1>4 DEF Kept, Matches
  <2> QED BY <1>5, <2>1
<1>7. side = {x \in UNION {q[h] : h \in walked} : Of[x] # Main[Height[Of[x]]]}
  BY <1>6, Zenon DEF IsRange, SideChain
<1>8. CASE M = {}
  <2>1. /\ walked = R /\ next = UpdateProgress(target)
        /\ ok = {x \in UNION {q[h] : h \in walked} : Of[x] = Main[Height[Of[x]]]}
    BY <1>6, <1>8, Zenon DEF IsRange
  <2>2. \A h \in walked : \E x \in q[h] : Of[x] = Main[h]
    BY <1>2, <1>8, <2>1, Zenon
  <2>3. \A h \in walked : \E x \in ok : x \in q[h] /\ Of[x] = Main[h]
    BY <1>5, <2>1, <2>2, Zenon
  <2>4. \A x \in ok : \E h \in walked : x \in q[h] /\ Of[x] = Main[h]
    BY <1>5, <2>1
  <2> QED BY <1>4, <1>7, <2>1, <2>3, <2>4, Zenon
<1>9. CASE M # {}
  <2>1. ok = {} /\ next = p /\ walked = Max(M) .. target
    BY <1>9, Zenon DEF IsRange
  <2>2. \A m \in M : m \in R /\ \A x \in q[m] : Of[x] # Main[m]
    BY <1>2, Zenon
  <2>3. PICK m \in M : m = Max(M)
    BY <1>3, <1>9, Zenon
  <2> HIDE DEF M
  <2>4. m \in walked /\ m <= target /\ \A x \in q[m] : Of[x] # Main[m]
    BY <1>1, <2>1, <2>2, <2>3
  <2> QED BY <1>4, <1>7, <2>1, <2>4, Zenon
<1> QED BY <1>8, <1>9, Zenon

\* What is left in the queue, and how the tasks go on.
Left(q, ok, side) == [h \in Heights |-> q[h] \ (ok \cup side)]
Answered(ta, ok, side) ==
    [t \in Request |-> IF t \in ok THEN "committing" ELSE IF t \in side THEN "err" ELSE ta[t]]

\* No assertion of process_height or process_checkpoint_range fails.
LEMMA AssertionsHold ==
    ASSUME NEW p, NEW hash, ProgressOK(p, hash), p.kind # "FinalCheckpoint",
           NEW q, NEW ta, QueueOK(q, ta),
           NEW target, NEW walked, NEW ok, NEW side, NEW next,
           IsRange(p, q, target, walked, ok, side, next)
    PROVE  ~AssertionFails(p, hash, q, target, walked, next, Left(q, ok, side))
<1> DEFINE R == (p.height + 1) .. target
           rest == Left(q, ok, side)
<1>1. /\ target \in DOMAIN Checkpoint /\ target \in Nat /\ target <= MaxHeight
      /\ p.height \in Int /\ p.height >= -1 /\ p.height < target
      /\ \A k \in R : /\ k \in Heights /\ q[k] # {} /\ ExpectedHash[target][k] = Main[k]
                      /\ k \in DOMAIN Checkpoint => Checkpoint[k] = Main[k]
      /\ \A h \in Reached(p, q) : h <= target
  BY RangeIsReached, Zenon
<1>2. walked \subseteq R
  BY RangeIsWalked, Zenon
<1>3. ASSUME NEW h \in walked
      PROVE  /\ ~(h \in DOMAIN Checkpoint /\ Checkpoint[h] # ExpectedHash[target][h])
             /\ ~(Cardinality(Matches(q[h], ExpectedHash[target][h])) > 1)
  <2>1. h \in R /\ h \in Heights
    BY <1>1, <1>2, Zenon
  <2>2. \A r, t \in Matches(q[h], ExpectedHash[target][h]) : r = t
    BY <2>1 DEF Matches, QueueOK
  <2>3. \/ Matches(q[h], ExpectedHash[target][h]) = {}
        \/ \E x : Matches(q[h], ExpectedHash[target][h]) = {x}
    BY <2>2, Zenon
  <2>4. Cardinality(Matches(q[h], ExpectedHash[target][h])) \in {0, 1}
    BY <2>3, FS_EmptySet, FS_Singleton, Zenon
  <2> QED BY <1>1, <2>1, <2>4
<1>4. Parent[ExpectedHash[target][p.height + 1]] = PreviousHash(p, hash)
  <2>1. p.height + 1 \in R /\ p.height + 1 \in Heights
    BY <1>1
  <2>2. ExpectedHash[target][p.height + 1] = Main[p.height + 1]
    BY <1>1, <2>1, Zenon
  <2>3. Main[p.height + 1] \in Block /\ Height[Main[p.height + 1]] = p.height + 1
    BY <2>1, MainIsChain, Zenon
  <2>4. CASE p.kind = "BeforeGenesis"
    <3>1. Parent[Main[p.height + 1]] = NONE
      BY <2>3, <2>4, CheckpointAssumption DEF ProgressOK
    <3> QED BY <2>2, <2>4, <3>1, Zenon DEF PreviousHash
  <2>5. p.height \in Heights => Main[p.height] = Parent[Main[p.height + 1]]
    BY <1>1, LastCheckpoint, MainIsChain
  <2>6. CASE p.kind = "InitialTip"
    BY <2>2, <2>5, <2>6, Zenon DEF PreviousHash, ProgressOK
  <2>7. CASE p.kind = "PreviousCheckpoint"
    <3>1. p.height \in DOMAIN Checkpoint /\ p.height \in 0 .. p.height
      BY <2>7, LastCheckpoint DEF ProgressOK
    <3>2. p.height \in Heights /\ Main[p.height] = Checkpoint[p.height]
      BY <3>1, ExpectedIsMain, Zenon
    <3> QED BY <2>2, <2>5, <2>7, <3>2, Zenon DEF PreviousHash
  <2> QED BY <2>4, <2>6, <2>7, Zenon DEF ProgressOK
<1>5. \A k \in Heights : rest[k] \subseteq q[k]
  BY Zenon DEF Left
<1>6. \A h \in DOMAIN Checkpoint : h \in Nat /\ h <= MaxHeight
  BY LastCheckpoint, Zenon
<1>7. next # p => Reached(next, rest) = {}
  <2>1. SUFFICES ASSUME next # p, NEW h \in Reached(next, rest) PROVE FALSE
    BY Zenon
  <2>2. next.height = target
    BY <2>1, RangeIsWalked DEF UpdateProgress, FinalCheckpoint, Progress
  <2>3. /\ h \in DOMAIN Checkpoint /\ h > target
        /\ \A k \in (target + 1) .. h : rest[k] # {}
    BY <2>1, <2>2, Zenon DEF Reached
  <2>4. ASSUME NEW k \in (p.height + 1) .. h PROVE q[k] # {}
    <3>1. k \in R \/ k \in (target + 1) .. h
      BY <1>1, <1>6, <2>3
    <3>2. k \in (target + 1) .. h => k \in Heights
      BY <1>1, <1>6, <2>3, LastCheckpoint DEF Heights
    <3> QED BY <1>1, <1>5, <2>3, <3>1, <3>2, Zenon
  <2>5. h \in Reached(p, q)
    BY <1>1, <1>6, <2>3, <2>4 DEF Reached
  <2> QED BY <1>1, <1>6, <2>3, <2>5
<1>8. next = p => \A h \in Reached(p, rest) : h < target
  <2>1. SUFFICES ASSUME next = p, NEW h \in Reached(p, rest), ~(h < target) PROVE FALSE
    BY Zenon
  <2>2. p # UpdateProgress(target)
    BY <1>1 DEF UpdateProgress, FinalCheckpoint, Progress
  <2>3. PICK m \in walked : m <= target /\ \A x \in q[m] : Of[x] # Main[m]
    BY <2>1, <2>2, RangeIsWalked
  <2>4. m \in R /\ m \in Heights
    BY <1>1, <1>2, Zenon
  <2>5. \A x \in q[m] : x \in side
    <3>1. side = {x \in UNION {q[k] : k \in walked} : Of[x] # Main[Height[Of[x]]]}
      BY RangeIsWalked
    <3>2. \A x \in q[m] : Height[Of[x]] = m
      BY <2>4, Zenon DEF QueueOK
    <3> QED BY <2>3, <3>1, <3>2, Zenon
  <2>6. rest[m] = {}
    BY <2>4, <2>5, Zenon DEF Left
  <2>7. h \in Nat /\ m \in (p.height + 1) .. h
    BY <1>1, <1>6, <2>1, <2>4 DEF Reached
  <2> QED BY <2>6, <2>7, Zenon DEF Reached
<1>9. next = p => \/ TargetCheckpointHeight(p, rest) = NONE
                  \/ ~(TargetCheckpointHeight(p, rest) >= target)
  <2>1. SUFFICES ASSUME next = p, Reached(p, rest) # {}
        PROVE  ~(Max(Reached(p, rest)) >= target)
    BY Zenon DEF TargetCheckpointHeight
  <2>2. Reached(p, rest) \in SUBSET Nat /\ \A h \in Reached(p, rest) : h <= target
    BY <1>1, <1>6, <1>8, <2>1 DEF Reached
  <2>3. Max(Reached(p, rest)) \in Reached(p, rest)
    BY <1>1, <2>1, <2>2, MaxOfBounded, Zenon
  <2> QED BY <1>1, <1>8, <2>1, <2>2, <2>3
<1>10. next # p => TargetCheckpointHeight(next, rest) = NONE
  BY <1>7, Zenon DEF TargetCheckpointHeight
<1> QED BY <1>3, <1>4, <1>9, <1>10, Zenon DEF AssertionFails

\* The tasks of some requests wait.
AllWaiting(requests, ta) == \A x \in requests : x \in Request /\ ta[x] = "waiting"

\* The queue that is left matches the tasks that still wait.
LEMMA RangeKeepsQueue ==
    ASSUME NEW p, NEW hash, ProgressOK(p, hash),
           NEW q, NEW ta, QueueOK(q, ta), WithinLimit(q),
           NEW target, NEW walked, NEW ok, NEW side, NEW next,
           IsRange(p, q, target, walked, ok, side, next)
    PROVE  /\ QueueOK(Left(q, ok, side), Answered(ta, ok, side))
           /\ WithinLimit(Left(q, ok, side))
           /\ AllWaiting(ok \cup side, ta)
<1>1. \A k \in walked : k \in Heights
  <2>1. walked \subseteq (p.height + 1) .. target
    BY RangeIsWalked
  <2>2. \A k \in (p.height + 1) .. target : k \in Heights
    BY RangeIsReached, Zenon
  <2> QED BY <2>1, <2>2, Zenon
<1>2. \A x \in ok \cup side : x \in Request /\ ta[x] = "waiting"
  <2>1. \A x \in ok : \E h \in walked : x \in q[h]
    BY RangeIsWalked
  <2>2. side = {x \in UNION {q[h] : h \in walked} : Of[x] # Main[Height[Of[x]]]}
    BY RangeIsWalked
  <2>3. \A x \in side : \E h \in walked : x \in q[h]
    BY <2>2, Zenon
  <2>4. \A h \in Heights : \A x \in q[h] : x \in Request /\ ta[x] = "waiting"
    BY Zenon DEF QueueOK
  <2> QED BY <1>1, <2>1, <2>3, <2>4, Zenon
<1>3. QueueOK(Left(q, ok, side), Answered(ta, ok, side))
  <2>1. Left(q, ok, side) \in [Heights -> SUBSET Request]
    BY Zenon DEF Left, QueueOK
  <2>2. \A h \in Heights : \A r \in Left(q, ok, side)[h] : 
            r \in q[h] /\ r \in Request /\ Answered(ta, ok, side)[r] = ta[r]
    BY Zenon DEF Left, Answered, QueueOK
  <2>3. \A r \in Request : Answered(ta, ok, side)[r] = "waiting" =>
            ta[r] = "waiting" /\ r \notin ok \cup side
    BY Zenon DEF Answered
  <2>4. \A r \in Request : Answered(ta, ok, side)[r] = "waiting" =>
            Height[Of[r]] \in Heights /\ r \in Left(q, ok, side)[Height[Of[r]]]
    BY <2>3, Zenon DEF Left, QueueOK
  <2> QED BY <2>1, <2>2, <2>4 DEF QueueOK
<1>4. WithinLimit(Left(q, ok, side))
  <2>1. SUFFICES ASSUME NEW h \in Heights
                 PROVE  /\ IsFiniteSet(Left(q, ok, side)[h])
                        /\ Cardinality(Left(q, ok, side)[h]) <= MAX_QUEUED_BLOCKS_PER_HEIGHT
    BY Zenon DEF WithinLimit
  <2>2. IsFiniteSet(q[h]) /\ Cardinality(q[h]) <= MAX_QUEUED_BLOCKS_PER_HEIGHT
    BY Zenon DEF WithinLimit
  <2>3. Left(q, ok, side)[h] \subseteq q[h]
    BY Zenon DEF Left
  <2>4. /\ IsFiniteSet(Left(q, ok, side)[h])
        /\ Cardinality(Left(q, ok, side)[h]) <= Cardinality(q[h])
    BY <2>2, <2>3, FS_Subset, Zenon
  <2>5. /\ Cardinality(q[h]) \in Nat /\ Cardinality(Left(q, ok, side)[h]) \in Nat
        /\ MAX_QUEUED_BLOCKS_PER_HEIGHT \in Nat
    BY <2>2, <2>4, FS_CardinalityType, CheckpointAssumption, Zenon
  <2> QED BY <2>2, <2>4, <2>5
<1> QED BY <1>2, <1>3, <1>4, Zenon DEF AllWaiting

\* The verified blocks are on the chain, and leave no gap above the tip: those of
\* the range lie on each other, and the lowest on the progress.
LEMMA RangeKeepsTasks ==
    ASSUME NEW p, NEW hash, ProgressOK(p, hash), NEW t \in Block \cup {NONE},
           NEW q, NEW ta, QueueOK(q, ta), TasksOK(ta, t), ProgressCovered(p, ta, t),
           NEW target, NEW walked, NEW ok, NEW side, NEW next,
           IsRange(p, q, target, walked, ok, side, next)
    PROVE  /\ TasksOK(Answered(ta, ok, side), t)
           /\ ProgressCovered(next, Answered(ta, ok, side), t)
           /\ ProgressOK(next, IF next.kind = "PreviousCheckpoint" THEN NONE ELSE hash)
<1> DEFINE R == (p.height + 1) .. target
<1>1. PICK tb : tb = Answered(ta, ok, side)
  BY Zenon
<1>2. /\ target \in DOMAIN Checkpoint /\ target \in Nat /\ target <= MaxHeight
      /\ p.height \in Int /\ p.height >= -1 /\ p.height < target
      /\ \A k \in R : k \in Heights
  BY RangeIsReached, Zenon
<1>3. walked \subseteq R /\ \A x \in ok : \E h \in walked : x \in q[h] /\ Of[x] = Main[h]
  BY RangeIsWalked
<1>4. \A x \in ok \cup side : x \in Request /\ ta[x] = "waiting"
  <2>1. side = {x \in UNION {q[h] : h \in walked} : Of[x] # Main[Height[Of[x]]]}
    BY RangeIsWalked
  <2> QED BY <1>2, <1>3, <2>1 DEF QueueOK
<1>5. /\ tb \in [Request -> Tasks]
      /\ \A x \in Request : ta[x] \in {"committing", "err"} => tb[x] = ta[x]
      /\ \A x \in Request : tb[x] \in {"committing", "ok"} => x \in ok \/ tb[x] = ta[x]
      /\ \A x \in ok : tb[x] = "committing" /\ x \in Request
  BY <1>1, <1>4, Zenon DEF Answered, TasksOK, Tasks
<1>6. \A h \in Heights : Covered(h, ta, t) => Covered(h, tb, t)
  <2>1. TipHeight(t) <= TipHeight(t)
    BY TipHeights
  <2>2. \A x \in Corrupt : ta[x] = "err" => tb[x] = "err"
    BY <1>5, CheckpointAssumption, Zenon
  <2>3. \A x \in Request : ta[x] = "committing" => tb[x] = "committing"
    BY <1>5, Zenon
  <2> QED BY <2>1, <2>2, <2>3, CoverageLasts, Zenon
<1>7. \A x \in ok : \E h \in R : h \in Heights /\ Of[x] = Main[h] /\ Height[Of[x]] = h
  BY <1>2, <1>3, MainIsChain
<1>8. \A h \in R : ok # {} => Covered(h, tb, t)
  <2>1. SUFFICES ASSUME NEW h \in R, ok # {} PROVE Covered(h, tb, t)
    BY Zenon
  <2>2. walked = R /\ \A k \in walked : \E x \in ok : x \in q[k] /\ Of[x] = Main[k]
    <3>1. \/ /\ walked = R
             /\ \A k \in walked : \E x \in ok : x \in q[k] /\ Of[x] = Main[k]
          \/ ok = {}
      BY RangeIsWalked
    <3> QED BY <2>1, <3>1, ZenonT(60)
  <2>3. PICK x \in ok : Of[x] = Main[h]
    BY <2>1, <2>2, Zenon
  <2> QED BY <1>5, <2>3, Zenon DEF Covered
<1>9. \A h \in Heights : h <= p.height => Covered(h, tb, t)
  BY <1>6, Zenon DEF ProgressCovered
<1>10. TasksOK(tb, t)
  <2>1. ASSUME NEW r \in Request, tb[r] \in {"committing", "ok"}
        PROVE  Height[Of[r]] \in Heights /\ Main[Height[Of[r]]] = Of[r]
    BY <1>5, <1>7, <2>1, ZenonT(60) DEF TasksOK
  <2>2. ASSUME NEW r \in Request, tb[r] = "committing", Height[Of[r]] > 0
        PROVE  Covered(Height[Of[r]] - 1, tb, t)
    <3>1. Height[Of[r]] \in Heights /\ Height[Of[r]] - 1 \in Heights
      BY <2>1, <2>2, LastCheckpoint DEF Heights
    <3>2. CASE r \in ok
      <4>1. Height[Of[r]] \in R
        BY <1>7, <3>2, Zenon
      <4>2. Height[Of[r]] - 1 \in R \/ Height[Of[r]] - 1 <= p.height
        BY <1>2, <4>1
      <4> QED BY <1>8, <1>9, <3>1, <3>2, <4>2, Zenon
    <3>3. CASE r \notin ok
      BY <1>5, <1>6, <2>2, <3>1, <3>3, Zenon DEF TasksOK
    <3> QED BY <3>2, <3>3, Zenon
  <2> QED BY <1>5, <2>1, <2>2, Zenon DEF TasksOK
<1>11. CASE next = p
  BY <1>1, <1>9, <1>10, <1>11, Zenon DEF ProgressCovered, ProgressOK
<1>12. CASE next # p
  <2>1. /\ walked = R /\ next = UpdateProgress(target)
        /\ \A h \in walked : \E x \in ok : x \in q[h] /\ Of[x] = Main[h]
    BY <1>12, RangeIsWalked
  <2>2. target \in R /\ ok # {} /\ target \in Heights
    <3>1. target \in R
      BY <1>2
    <3> QED BY <1>2, <2>1, <3>1, Zenon
  <2>3. next.height = target
    BY <2>1, Zenon DEF UpdateProgress, FinalCheckpoint, Progress
  <2>4. \A h \in Heights : h <= target => h \in R \/ h <= p.height
    BY <1>2, LastCheckpoint DEF Heights
  <2>5. ProgressCovered(next, tb, t)
    BY <1>8, <1>9, <2>2, <2>3, <2>4, Zenon DEF ProgressCovered
  <2>6. ProgressOK(next, IF next.kind = "PreviousCheckpoint" THEN NONE ELSE hash)
    BY <1>2, <2>1, <2>2, Zenon DEF ProgressOK, UpdateProgress, FinalCheckpoint, Progress
  <2> QED BY <1>1, <1>10, <2>5, <2>6, ZenonT(60)
<1> QED BY <1>11, <1>12, Zenon

-----------------------------------------------------------------------------
(* Service::call.                                                           *)

\* Queueing a request changes no task that was verified or has failed.
LEMMA QueuedKeepsTasks ==
    ASSUME NEW ta, NEW t \in Block \cup {NONE}, TasksOK(ta, t), NEW r \in Request, Free(r, ta),
           NEW older, \A x \in older : x \in Request /\ ta[x] = "waiting",
           NEW p, ProgressCovered(p, ta, t)
    PROVE  TasksOK(Queued(ta, r, older), t) /\ ProgressCovered(p, Queued(ta, r, older), t)
<1>1. PICK tb : tb = Queued(ta, r, older)
  BY Zenon
<1>2. /\ tb \in [Request -> Tasks]
      /\ \A x \in Request : ta[x] = "committing" => tb[x] = "committing"
      /\ \A x \in Request : ta[x] = "err" => tb[x] = "err" \/ x = r
      /\ \A x \in Request : tb[x] \in {"committing", "ok"} => tb[x] = ta[x]
  BY <1>1, Zenon DEF Queued, TasksOK, Tasks, Free
<1>3. \A h \in Heights : Covered(h, ta, t) => Covered(h, tb, t)
  <2>1. TipHeight(t) <= TipHeight(t)
    BY TipHeights
  <2>2. \A x \in Corrupt : ta[x] = "err" => tb[x] = "err"
    BY <1>2, CheckpointAssumption, Zenon DEF Free
  <2> QED BY <1>2, <2>1, <2>2, CoverageLasts, Zenon
<1>4. \A x \in Request : ta[x] = "committing" /\ Height[Of[x]] > 0 => Height[Of[x]] - 1 \in Heights
  BY LastCheckpoint DEF TasksOK, Heights
<1>5. TasksOK(tb, t)
  BY <1>2, <1>3, <1>4, Zenon DEF TasksOK
<1> QED BY <1>1, <1>3, <1>5, Zenon DEF ProgressCovered

\* The part of the invariant that a call can disturb.
VerifierOK(p, hash, q, ta, t) ==
    /\ ProgressOK(p, hash) /\ QueueOK(q, ta) /\ WithinLimit(q)
    /\ TasksOK(ta, t) /\ ProgressCovered(p, ta, t)

\* process_checkpoint_range, after queue_block.
LEMMA ProcessOK ==
    ASSUME NEW p, NEW hash, VerifierOK(p, hash, queued, task, tip), tip \in Block \cup {NONE},
           NEW r \in Request, Free(r, task), service = "running",
           CheckHeight(p, Height[Of[r]]), ~QueuedLimit(queued, r),
           NEW older, older = Older(queued, r), NEW q, q = QueueBlock(queued, r, older),
           ProcessCheckpointRange(p, hash, q, r, older)
    PROVE  /\ VerifierOK(progress', initial_tip_hash', queued', task', tip)
           /\ service' = "running"
           /\ \A x \in Request \ {r} : task[x] = "none" => task'[x] = "none"
<1>1. Height[Of[r]] \in Heights /\ Of[r] \in Block
  BY CheckpointAssumption, LastCheckpoint DEF CheckHeight, Heights
<1>2. /\ QueueOK(queued, task) /\ WithinLimit(queued) /\ ProgressOK(p, hash)
      /\ TasksOK(task, tip) /\ ProgressCovered(p, task, tip) /\ task \in [Request -> Tasks]
  BY Zenon DEF VerifierOK, TasksOK
<1>3. PICK tb : tb = Queued(task, r, older)
  BY Zenon
<1>4. /\ QueueOK(q, tb) /\ WithinLimit(q)
      /\ \A t \in older : t \in Request /\ task[t] = "waiting"
      /\ \A h \in Heights : q[h] \cap older = {}
  <2>1. QueueOK(queued, task) /\ WithinLimit(queued)
    BY <1>2, Zenon
  <2>2. /\ QueueOK(QueueBlock(queued, r, Older(queued, r)), Queued(task, r, Older(queued, r)))
        /\ WithinLimit(QueueBlock(queued, r, Older(queued, r)))
        /\ \A t \in Older(queued, r) : t \in Request /\ task[t] = "waiting"
        /\ \A h \in Heights : QueueBlock(queued, r, Older(queued, r))[h] \cap Older(queued, r) = {}
    BY <1>1, <2>1, QueueBlockOK, Zenon
  <2> QED BY <1>3, <2>2, Zenon
<1>5. TasksOK(tb, tip) /\ ProgressCovered(p, tb, tip)
  BY <1>2, <1>3, <1>4, QueuedKeepsTasks, Zenon
<1>6. \A x \in Request \ {r} : task[x] = "none" => tb[x] = "none"
  BY <1>3, <1>4, Zenon DEF Queued
<1>7. r \notin older
  BY Zenon DEF Older
<1>8. CASE TargetCheckpointHeight(p, q) = NONE
  <2>1. /\ progress' = p /\ initial_tip_hash' = hash /\ queued' = q /\ service' = service
        /\ task' = [Answer({}, older) EXCEPT ![r] = "waiting"]
    BY <1>8, Zenon DEF ProcessCheckpointRange
  <2>2. task' = tb
    BY <1>3, <1>7, <2>1, Zenon DEF Answer, Queued
  <2> QED BY <1>2, <1>4, <1>5, <1>6, <2>1, <2>2, Zenon DEF VerifierOK
<1>9. CASE TargetCheckpointHeight(p, q) # NONE
  <2>1. PICK target, misses, walked, ok, err, next :
            /\ target = TargetCheckpointHeight(p, q) /\ misses = Misses(p, q, target)
            /\ walked = (IF misses = {} THEN p.height + 1 ELSE Max(misses)) .. target
            /\ ok = IF misses = {} THEN Kept(q, target, walked) ELSE {}
            /\ err = SideChain(q, target, walked) \cup older
            /\ next = IF misses = {} THEN UpdateProgress(target) ELSE p
            /\ progress' = next
            /\ initial_tip_hash' = IF next.kind = "PreviousCheckpoint" THEN NONE ELSE hash
            /\ queued' = [h \in Heights |-> q[h] \ (ok \cup err)]
            /\ task' = IF r \in ok \cup err THEN Answer(ok, err)
                       ELSE [Answer(ok, err) EXCEPT ![r] = "waiting"]
            /\ service' = IF AssertionFails(p, hash, q, target, walked, next, queued')
                          THEN "panicked" ELSE "running"
    BY <1>9 DEF ProcessCheckpointRange
  <2>2. PICK side : side = SideChain(q, target, walked)
    BY Zenon
  <2>3. IsRange(p, q, target, walked, ok, side, next)
    BY <1>9, <2>1, <2>2, ZenonT(60) DEF IsRange, TargetCheckpointHeight
  <2>4. /\ QueueOK(Left(q, ok, side), Answered(tb, ok, side)) /\ WithinLimit(Left(q, ok, side))
        /\ AllWaiting(ok \cup side, tb)
    <3>1. ProgressOK(p, hash)
      BY <1>2, Zenon
    <3>2. QueueOK(q, tb) /\ WithinLimit(q)
      BY <1>4, Zenon
    <3> QED BY <2>3, <3>1, <3>2, RangeKeepsQueue, Zenon
  <2>5. /\ TasksOK(Answered(tb, ok, side), tip)
        /\ ProgressCovered(next, Answered(tb, ok, side), tip)
        /\ ProgressOK(next, IF next.kind = "PreviousCheckpoint" THEN NONE ELSE hash)
    BY <1>2, <1>4, <1>5, <2>3, RangeKeepsTasks, Zenon
  <2>6. queued' = Left(q, ok, side)
    BY <1>4, <2>1, <2>2, ZenonT(60) DEF Left
  <2>7. task' = Answered(tb, ok, side)
    <3>1. \A x \in older : x \notin ok /\ x \notin side
      BY <1>3, <1>4, <1>7, <2>4, Zenon DEF Queued, AllWaiting
    <3> QED BY <1>2, <1>3, <1>4, <1>7, <2>1, <2>2, <3>1, ZenonT(60) DEF Answer, Answered, Queued
  <2>8. service' = "running"
    <3>1. ~AssertionFails(p, hash, q, target, walked, next, Left(q, ok, side))
      BY <1>2, <1>4, <2>3, AssertionsHold, Zenon DEF CheckHeight
    <3> QED BY <2>1, <2>6, <3>1, Zenon
  <2>9. \A x \in Request \ {r} : task[x] = "none" => task'[x] = "none"
    BY <1>6, <2>4, <2>7, Zenon DEF Answered, AllWaiting
  <2> QED BY <2>1, <2>4, <2>5, <2>6, <2>7, <2>8, <2>9, ZenonT(60) DEF VerifierOK
<1> QED BY <1>8, <1>9, Zenon

\* A call of the verifier: a reset is taken, then the block is queued or refused and
\* the blocks of a complete range are verified.
LEMMA CallKeepsIInv ==
    ASSUME IInv, NEW r \in Request, Call(r)
    PROVE  IInv'
<1>1. /\ MayCall(r) /\ service = "running" /\ tip' = tip
      /\ resets' = IF resets = <<>> THEN <<>> ELSE Tail(resets)
  BY Zenon DEF Call
<1>2. PICK p, hash :
        /\ p = IF resets = <<>> THEN progress ELSE ProgressFromTip(Head(resets))
        /\ hash = IF resets = <<>> THEN initial_tip_hash ELSE HashFromTip(Head(resets))
        /\ IF ~CheckHeight(p, Height[Of[r]]) \/ QueuedLimit(queued, r)
           THEN /\ progress' = p /\ initial_tip_hash' = hash
                /\ future' = [future EXCEPT ![r] = Over(r)]
                /\ UNCHANGED <<queued, service, task>>
           ELSE /\ future' = [future EXCEPT ![r].at = "pending"]
                /\ \E older \in {Older(queued, r)} :
                   ProcessCheckpointRange(p, hash, QueueBlock(queued, r, older), r, older)
  BY Zenon DEF Call
<1>3. ResetsOK(resets, tip) /\ OnChain(tip) /\ tip \in Block \cup {NONE}
  BY Zenon DEF IInv, OnChain
<1>4. VerifierOK(p, hash, queued, task, tip)
  <2>1. CASE resets = <<>>
    BY <1>2, <2>1, Zenon DEF VerifierOK, IInv
  <2>2. CASE resets # <<>>
    <3>1. OldTip(Head(resets), tip)
      BY <1>3, <2>2 DEF ResetsOK
    <3>2. ProgressOK(p, hash) /\ ProgressCovered(p, task, tip)
      BY <1>2, <1>3, <2>2, <3>1, TipProgress, ResetCovered, Zenon DEF OldTip
    <3> QED BY <3>2, Zenon DEF VerifierOK, IInv
  <2> QED BY <2>1, <2>2, Zenon
<1>5. ResetsOK(resets', tip')
  <2>1. CASE resets = <<>>
    BY <1>1, <1>3, <2>1, Zenon
  <2>2. CASE resets # <<>>
    <3>1. /\ resets' \in Seq(Block \cup {NONE})
          /\ \A i \in DOMAIN resets' : i + 1 \in DOMAIN resets /\ resets'[i] = resets[i + 1]
      BY <1>1, <1>3, <2>2 DEF ResetsOK
    <3> QED BY <1>1, <1>3, <3>1, Zenon DEF ResetsOK
  <2> QED BY <2>1, <2>2, Zenon
<1>6. Free(r, task) /\ FuturesOK(future, task, tip)
  BY <1>1, CheckpointAssumption, Zenon DEF IInv, FuturesOK, MayCall, Free
<1>7. CASE ~CheckHeight(p, Height[Of[r]]) \/ QueuedLimit(queued, r)
  <2>1. /\ progress' = p /\ initial_tip_hash' = hash
        /\ future' = [future EXCEPT ![r] = Over(r)]
        /\ UNCHANGED <<queued, service, task>>
    BY <1>2, <1>7, Zenon
  <2>2. FuturesOK(future', task', tip')
    <3>1. OldTip(NONE, tip)
      <4>1. TipHeight(tip) \in Int /\ TipHeight(tip) >= -1
        BY <1>3, TipHeights, Zenon
      <4> QED BY <4>1 DEF OldTip, OnChain, TipHeight
    <3>2. Over(r) \in [at : Futures, tip : {NONE}] /\ (r \notin Syncer => Over(r).at # "none")
      BY Zenon DEF Over, Futures
    <3> QED BY <1>1, <1>6, <2>1, <3>1, <3>2, Zenon DEF FuturesOK
  <2> QED BY <1>1, <1>3, <1>4, <1>5, <2>1, <2>2, Zenon DEF IInv, VerifierOK
<1>8. CASE ~(~CheckHeight(p, Height[Of[r]]) \/ QueuedLimit(queued, r))
  <2>1. /\ future' = [future EXCEPT ![r].at = "pending"]
        /\ ProcessCheckpointRange(p, hash, QueueBlock(queued, r, Older(queued, r)),
                                  r, Older(queued, r))
    BY <1>2, <1>8, Zenon
  <2>2. /\ VerifierOK(progress', initial_tip_hash', queued', task', tip)
        /\ service' = "running"
        /\ \A x \in Request \ {r} : task[x] = "none" => task'[x] = "none"
    BY <1>1, <1>3, <1>4, <1>6, <1>8, <2>1, ProcessOK, Zenon
  <2>3. FuturesOK(future', task', tip')
    BY <1>1, <1>6, <2>1, <2>2, Zenon DEF FuturesOK, Futures
  <2> QED BY <1>1, <1>3, <1>5, <2>2, <2>3, Zenon DEF IInv, VerifierOK
<1> QED BY <1>7, <1>8, Zenon

-----------------------------------------------------------------------------
(* The other steps.                                                         *)

\* Steps of tasks and of the state: a task that was verified ends, and the tip
\* stays or takes its block.
LEMMA TaskStepKeepsIInv ==
    ASSUME IInv, UNCHANGED <<verifier, resets>>, OnChain(tip'), TipHeight(tip) <= TipHeight(tip'),
           task' \in [Request -> Tasks],
           \A x \in Request : \/ task'[x] = task[x]
                              \/ /\ task[x] = "committing" /\ task'[x] \in {"ok", "err"}
                                 /\ Covered(Height[Of[x]], task', tip'),
           \A x \in Request : future'[x] = future[x] \/ future'[x] = [future[x] EXCEPT !.at = "ok"],
           future' \in [Request -> [at : Futures, tip : Block \cup {NONE}]]
    PROVE  IInv'
<1>1. /\ tip \in Block \cup {NONE} /\ tip' \in Block \cup {NONE}
      /\ TipHeight(tip) \in Int /\ TipHeight(tip') \in Int
  BY TipHeights, Zenon DEF IInv, OnChain
<1>2. \A h \in Heights : Covered(h, task, tip) => Covered(h, task', tip')
  <2>1. \A x \in Request : task[x] = "committing" =>
            task'[x] = "committing" \/ Covered(Height[Of[x]], task', tip')
    BY Zenon
  <2>2. \A x \in Corrupt : task[x] = "err" => task'[x] = "err"
    BY CheckpointAssumption, Zenon
  <2> QED BY <1>1, <2>1, <2>2, CoverageLasts, Zenon
<1>3. TasksOK(task', tip')
  <2>1. \A x \in Request : task'[x] \in {"committing", "ok"} => task[x] \in {"committing", "ok"}
    BY Zenon
  <2>2. \A x \in Request : task'[x] = "committing" => task[x] = "committing"
    BY Zenon
  <2>3. \A x \in Request : task'[x] = "committing" /\ Height[Of[x]] > 0 =>
            Height[Of[x]] - 1 \in Heights
    BY <2>2, LastCheckpoint DEF IInv, TasksOK, Heights
  <2> QED BY <1>2, <2>1, <2>2, <2>3, Zenon DEF IInv, TasksOK
<1>4. ProgressCovered(progress', task', tip')
  BY <1>2, Zenon DEF IInv, ProgressCovered, verifier
<1>5. QueueOK(queued', task')
  <2>1. \A x \in Request : task'[x] = "waiting" <=> task[x] = "waiting"
    BY Zenon
  <2> QED BY <2>1 DEF IInv, QueueOK, verifier
<1>6. \A u : OldTip(u, tip) => OldTip(u, tip')
  <2>1. SUFFICES ASSUME NEW u, OldTip(u, tip) PROVE OldTip(u, tip')
    BY Zenon
  <2>2. TipHeight(u) \in Int
    BY <2>1, TipHeights, Zenon DEF OldTip, OnChain
  <2> QED BY <1>1, <2>1, <2>2 DEF OldTip
<1>7. FuturesOK(future', task', tip')
  <2>1. \A x \in Request : future[x] \in [at : Futures, tip : Block \cup {NONE}]
    BY Zenon DEF IInv, FuturesOK
  <2>2. \A x \in Request : /\ future'[x] \in [at : Futures, tip : Block \cup {NONE}]
                           /\ future'[x].tip = future[x].tip
                           /\ future'[x].at = "none" => future[x].at = "none"
    BY <2>1 DEF Futures
  <2> QED BY <1>6, <2>2 DEF IInv, FuturesOK
<1>8. ResetsOK(resets', tip')
  BY <1>6, Zenon DEF IInv, ResetsOK
<1> QED BY <1>3, <1>4, <1>5, <1>7, <1>8, Zenon DEF IInv, verifier

\* Steps of futures: one future changes, and may send the tip that it read.
LEMMA FutureStepKeepsIInv ==
    ASSUME IInv, UNCHANGED <<verifier, task, tip>>, NEW r \in Request, NEW v,
           future' = [future EXCEPT ![r] = v], r \notin Syncer => v.at # "none",
           v \in [at : Futures, tip : {NONE, tip}],
           resets' \in {resets, Append(resets, future[r].tip)}
    PROVE  IInv'
<1>1. /\ OldTip(tip, tip) /\ OldTip(NONE, tip) /\ OldTip(future[r].tip, tip)
      /\ tip \in Block \cup {NONE} /\ future[r].tip \in Block \cup {NONE}
  <2>1. OnChain(tip) /\ tip \in Block \cup {NONE}
    BY Zenon DEF IInv, OnChain
  <2>2. TipHeight(tip) \in Int /\ TipHeight(tip) >= -1
    BY <2>1, TipHeights, Zenon
  <2>3. OldTip(future[r].tip, tip) /\ future[r].tip \in Block \cup {NONE}
    BY Zenon DEF IInv, FuturesOK, OldTip, OnChain
  <2>4. OldTip(tip, tip)
    BY <2>1, <2>2 DEF OldTip
  <2>5. OnChain(NONE) /\ TipHeight(NONE) = -1
    BY Zenon DEF OnChain, TipHeight
  <2>6. OldTip(NONE, tip)
    BY <2>2, <2>5, Zenon DEF OldTip
  <2> QED BY <2>1, <2>3, <2>4, <2>6, Zenon
<1>2. FuturesOK(future', task', tip')
  BY <1>1, Zenon DEF IInv, FuturesOK
<1>3. ResetsOK(resets', tip')
  <2>1. CASE resets' = resets
    BY <2>1, Zenon DEF IInv
  <2>2. CASE resets' = Append(resets, future[r].tip)
    <3>1. resets \in Seq(Block \cup {NONE}) /\ \A i \in DOMAIN resets : OldTip(resets[i], tip)
      BY Zenon DEF IInv, ResetsOK
    <3>2. /\ resets' \in Seq(Block \cup {NONE})
          /\ \A i \in DOMAIN resets' : 
                (i \in DOMAIN resets /\ resets'[i] = resets[i]) \/ resets'[i] = future[r].tip
      BY <1>1, <2>2, <3>1
    <3> QED BY <1>1, <3>1, <3>2, Zenon DEF ResetsOK
  <2> QED BY <2>1, <2>2, Zenon
<1> QED BY <1>2, <1>3, Zenon DEF IInv, verifier

\* Dropping the verifier answers all that wait in its queue.
LEMMA DropKeepsIInv ==
    ASSUME IInv, DropVerifier
    PROVE  IInv'
<1> DEFINE gone == UNION {queued[h] : h \in Heights}
<1>1. \A x \in Request : x \in gone <=> task[x] = "waiting"
  BY DEF IInv, QueueOK
<1>2. /\ task' = [x \in Request |-> IF task[x] = "waiting" THEN "err" ELSE task[x]]
      /\ UNCHANGED <<progress, initial_tip_hash, resets, future, tip>>
      /\ queued' = [h \in Heights |-> {}] /\ service' = "dropped"
  BY <1>1, Zenon DEF DropVerifier
<1>3. /\ task' \in [Request -> Tasks] /\ tip \in Block \cup {NONE}
      /\ \A x \in Request : task[x] \in {"committing", "err"} => task'[x] = task[x]
      /\ \A x \in Request : task'[x] \in {"committing", "ok"} => task'[x] = task[x]
  BY <1>2, Zenon DEF IInv, TasksOK, Tasks, OnChain
<1>4. \A h \in Heights : Covered(h, task, tip) => Covered(h, task', tip')
  <2>1. TipHeight(tip) <= TipHeight(tip)
    BY <1>3, TipHeights
  <2>2. \A x \in Corrupt : task[x] = "err" => task'[x] = "err"
    BY <1>3, CheckpointAssumption, Zenon
  <2>3. \A x \in Request : task[x] = "committing" => task'[x] = "committing"
    BY <1>3, Zenon
  <2> QED BY <1>2, <1>3, <2>1, <2>2, <2>3, CoverageLasts, Zenon
<1>5. TasksOK(task', tip')
  <2>1. \A x \in Request : task[x] = "committing" /\ Height[Of[x]] > 0 =>
            Height[Of[x]] - 1 \in Heights
    BY LastCheckpoint DEF IInv, TasksOK, Heights
  <2> QED BY <1>3, <1>4, <2>1, Zenon DEF IInv, TasksOK
<1>6. ProgressCovered(progress', task', tip')
  BY <1>2, <1>4, Zenon DEF IInv, ProgressCovered
<1>7. QueueOK(queued', task') /\ WithinLimit(queued')
  BY <1>2, FS_EmptySet, CheckpointAssumption DEF QueueOK, WithinLimit
<1>8. FuturesOK(future', task', tip')
  BY <1>2, Zenon DEF IInv, FuturesOK
<1> QED BY <1>2, <1>5, <1>6, <1>7, <1>8, Zenon DEF IInv

\* Every step keeps the invariant.
LEMMA NextIInv == IInv /\ [Next]_vars => IInv'
<1> SUFFICES ASSUME IInv, [Next]_vars PROVE IInv'
  BY Zenon
<1>1. /\ tip \in Block \cup {NONE} /\ OnChain(tip) /\ TipHeight(tip) \in Int
      /\ task \in [Request -> Tasks] /\ future \in [Request -> [at : Futures, tip : Block \cup {NONE}]]
  BY TipHeights, Zenon DEF IInv, OnChain, TasksOK, FuturesOK
<1>2. ASSUME NEW r \in Request, Commit(r) PROVE IInv'
  <2>1. /\ task[r] = "committing" /\ Parent[Of[r]] = tip /\ tip' = Of[r]
        /\ task' = [task EXCEPT ![r] = "ok"] /\ UNCHANGED <<verifier, resets>>
        /\ future' = IF future[r].at = "pending" THEN [future EXCEPT ![r].at = "ok"] ELSE future
    BY <1>2, Zenon DEF Commit
  <2>2. /\ Of[r] \in Block /\ Height[Of[r]] \in Heights /\ Main[Height[Of[r]]] = Of[r]
        /\ NONE \notin Block /\ Height[Of[r]] \in Nat
    BY <2>1, CheckpointAssumption, Zenon DEF IInv, TasksOK
  <2>3. OnChain(tip') /\ TipHeight(tip') = Height[Of[r]]
    BY <2>1, <2>2, Zenon DEF OnChain, TipHeight
  <2>4. TipHeight(tip) <= TipHeight(tip')
    <3>1. IF Height[Of[r]] = 0 THEN tip = NONE
          ELSE tip \in Block /\ Height[Of[r]] = Height[tip] + 1
      BY <2>1, <2>2, CheckpointAssumption, Zenon
    <3>2. TipHeight(tip) = Height[Of[r]] - 1
      <4>1. CASE Height[Of[r]] = 0
        BY <2>2, <3>1, <4>1 DEF TipHeight
      <4>2. CASE Height[Of[r]] # 0
        <5>1. tip \in Block /\ Height[Of[r]] = Height[tip] + 1 /\ tip # NONE /\ Height[tip] \in Nat
          BY <2>2, <3>1, <4>2, CheckpointAssumption, Zenon
        <5>2. TipHeight(tip) = Height[tip]
          BY <5>1, Zenon DEF TipHeight
        <5> QED BY <5>1, <5>2
      <4> QED BY <4>1, <4>2, Zenon
    <3> QED BY <2>2, <2>3, <3>2
  <2>5. /\ task' \in [Request -> Tasks]
        /\ future' \in [Request -> [at : Futures, tip : Block \cup {NONE}]]
    BY <1>1, <2>1, Zenon DEF Tasks, Futures
  <2>6. \A x \in Request : \/ task'[x] = task[x]
                           \/ /\ task[x] = "committing" /\ task'[x] \in {"ok", "err"}
                              /\ Covered(Height[Of[x]], task', tip')
    <3>1. Height[Of[r]] <= TipHeight(tip')
      BY <2>2, <2>3
    <3>2. Covered(Height[Of[r]], task', tip')
      BY <3>1, Zenon DEF Covered
    <3> QED BY <1>1, <2>1, <3>2, Zenon
  <2>7. \A x \in Request : future'[x] = future[x] \/ future'[x] = [future[x] EXCEPT !.at = "ok"]
    BY <1>1, <2>1, Zenon
  <2> QED BY <2>1, <2>3, <2>4, <2>5, <2>6, <2>7, TaskStepKeepsIInv, Zenon
<1>3. ASSUME NEW r \in Request, CommitRefused(r) PROVE IInv'
  <2>1. PICK behind \in SUBSET {t \in Request : task[t] = "committing"
                                                /\ Height[Of[t]] > Height[Of[r]]} :
            task' = [t \in Request |-> IF t \in behind \cup {r} THEN "err" ELSE task[t]]
    BY <1>3, Zenon DEF CommitRefused
  <2>2. /\ task[r] = "committing" /\ r \in Corrupt
        /\ UNCHANGED <<verifier, resets, future, tip>>
    BY <1>3, Zenon DEF CommitRefused
  <2>3. \A x \in behind \cup {r} : Covered(Height[Of[x]], task', tip')
    <3>1. \A x \in behind \cup {r} : Height[Of[r]] <= Height[Of[x]]
      BY <2>1, CheckpointAssumption
    <3>2. task'[r] = "err"
      BY <2>1, Zenon
    <3> QED BY <2>2, <3>1, <3>2, Zenon DEF Covered
  <2>4. /\ task' \in [Request -> Tasks]
        /\ \A x \in Request : \/ task'[x] = task[x]
                              \/ /\ task[x] = "committing" /\ task'[x] \in {"ok", "err"}
                                 /\ Covered(Height[Of[x]], task', tip')
    BY <1>1, <2>1, <2>2, <2>3, Zenon DEF Tasks
  <2>5. /\ TipHeight(tip) <= TipHeight(tip') /\ OnChain(tip')
        /\ future' \in [Request -> [at : Futures, tip : Block \cup {NONE}]]
    BY <1>1, <2>2
  <2> QED BY <2>2, <2>4, <2>5, TaskStepKeepsIInv, Zenon
<1>4. ASSUME NEW r \in Request, CommitRepeated(r) PROVE IInv'
  <2>1. /\ task[r] = "committing" /\ UNCHANGED <<verifier, resets, future, tip>>
        /\ task' = [task EXCEPT ![r] = "err"]
    BY <1>4, Zenon DEF CommitRepeated
  <2>2. /\ \A x \in Request : task[x] = "committing" =>
                Height[Of[x]] \in Heights /\ Main[Height[Of[x]]] = Of[x]
        /\ \A x \in Request : Of[x] \in Block
    BY CheckpointAssumption, Zenon DEF IInv, TasksOK
  <2>3. Covered(Height[Of[r]], task', tip')
    <3>1. CASE \E t \in Request \ {r} : task[t] = "committing" /\ Parent[Of[t]] = Parent[Of[r]]
      <4>1. PICK t \in Request \ {r} : task[t] = "committing" /\ Parent[Of[t]] = Parent[Of[r]]
        BY <3>1, Zenon
      <4>2. Height[Of[t]] = Height[Of[r]]
        BY <2>2, <4>1, CheckpointAssumption
      <4>3. Of[t] = Main[Height[Of[r]]] /\ task'[t] = "committing"
        BY <1>1, <2>1, <2>2, <4>1, <4>2, Zenon
      <4> QED BY <4>1, <4>3, Zenon DEF Covered
    <3>2. CASE tip # NONE /\ Height[tip] = MaxHeight
      <4>1. Height[Of[r]] <= TipHeight(tip')
        BY <2>1, <2>2, <3>2, LastCheckpoint DEF TipHeight, Heights
      <4> QED BY <4>1, Zenon DEF Covered
    <3> QED BY <1>4, <3>1, <3>2, Zenon DEF CommitRepeated
  <2>4. /\ task' \in [Request -> Tasks]
        /\ \A x \in Request : \/ task'[x] = task[x]
                              \/ /\ task[x] = "committing" /\ task'[x] \in {"ok", "err"}
                                 /\ Covered(Height[Of[x]], task', tip')
    BY <1>1, <2>1, <2>3, Zenon DEF Tasks
  <2>5. /\ TipHeight(tip) <= TipHeight(tip') /\ OnChain(tip')
        /\ future' \in [Request -> [at : Futures, tip : Block \cup {NONE}]]
    BY <1>1, <2>1
  <2> QED BY <2>1, <2>4, <2>5, TaskStepKeepsIInv, Zenon
<1>5. ASSUME NEW r \in Request PROVE Over(r) \in [at : Futures, tip : {NONE, tip}]
                                    /\ (r \notin Syncer => Over(r).at # "none")
  BY Zenon DEF Over, Futures
<1>6. ASSUME NEW r \in Request, ReadTip(r) PROVE IInv'
  <2>1. [at |-> "read", tip |-> tip] \in [at : Futures, tip : {NONE, tip}]
    BY Zenon DEF Futures
  <2>2. [at |-> "read", tip |-> tip].at # "none"
    BY Zenon
  <2> QED BY <1>6, <2>1, <2>2, FutureStepKeepsIInv, Zenon DEF ReadTip
<1>7. ASSUME NEW r \in Request, SendReset(r) \/ DropFuture(r) PROVE IInv'
  BY <1>5, <1>7, FutureStepKeepsIInv, Zenon DEF SendReset, DropFuture
<1>8. CASE UNCHANGED vars
  BY <1>8, Zenon DEF IInv, vars, verifier
<1> QED BY <1>2, <1>3, <1>4, <1>5, <1>6, <1>7, <1>8, CallKeepsIInv, DropKeepsIInv DEF Next

\* The invariant holds in every state of every behaviour.
THEOREM Invariance == Spec => []IInv
BY InitIInv, NextIInv, PTL DEF Spec

-----------------------------------------------------------------------------
(* What the verifier promises.                                              *)

\* Only blocks on the chain of the checkpoints are verified or committed, and no
\* assertion of process_height and process_checkpoint_range fails: for every list of
\* checkpoints on one chain, every set of side chains, and resets of any age.
THEOREM OnlyTheCheckpointChain == Spec => []VerifiedIsOnCheckpointChain
<1>1. IInv => VerifiedIsOnCheckpointChain
  <2> SUFFICES ASSUME IInv PROVE VerifiedIsOnCheckpointChain
    BY Zenon
  <2>1. /\ progress.height \in Heights \cup {-1} /\ initial_tip_hash \in Block \cup {NONE}
        /\ progress.kind \in {"BeforeGenesis", "InitialTip", "PreviousCheckpoint",
                              "FinalCheckpoint"}
        /\ progress.kind = "InitialTip" => initial_tip_hash # NONE
    BY CheckpointAssumption, Zenon DEF IInv, ProgressOK
  <2>2. \A h \in Heights :
        /\ queued[h] \subseteq Request
        /\ Cardinality(queued[h]) <= MAX_QUEUED_BLOCKS_PER_HEIGHT
        /\ \A r \in queued[h] : Height[Of[r]] = h
    BY Zenon DEF IInv, QueueOK, WithinLimit
  <2>3. TypeOK
    BY <2>1, <2>2, Zenon DEF IInv, TypeOK, TasksOK, FuturesOK, OnChain
  <2> QED BY <2>3, Zenon DEF IInv, VerifiedIsOnCheckpointChain, TasksOK, Main
<1> QED BY <1>1, Invariance, PTL

\* Every task that waits has its sender in the queue, in one place: replacing an
\* older request, rejecting side chains, giving blocks back to the queue and
\* dropping the verifier leave no receiver behind.
THEOREM NoReceiverDangles == Spec => []NoDanglingReceivers
<1>1. IInv => NoDanglingReceivers
  BY Zenon DEF IInv, QueueOK, NoDanglingReceivers
<1> QED BY <1>1, Invariance, PTL

\* The parent of a verified block is in the state or on its way to it, unless corrupt
\* data at or below it was refused: also after repeated requests, and resets to tips
\* that were read long ago.
THEOREM CommittedRangesAreWhole == Spec => []RangesAreWhole
<1>1. IInv => RangesAreWhole
  <2> SUFFICES ASSUME IInv, NEW r \in Request, task[r] = "committing", Parent[Of[r]] # NONE
               PROVE  \/ TipHeight(tip) >= Height[Parent[Of[r]]]
                      \/ \E t \in Request : Of[t] = Parent[Of[r]] /\ task[t] = "committing"
                      \/ \E t \in Corrupt : Height[Of[t]] <= Height[Parent[Of[r]]]
                                            /\ task[t] = "err"
    BY Zenon DEF RangesAreWhole
  <2>1. PICK h \in Nat : h = Height[Of[r]] /\ h \in Heights /\ Main[h] = Of[r] /\ Of[r] \in Block
    BY CheckpointAssumption, Zenon DEF IInv, TasksOK
  <2>2. h > 0 /\ Parent[Of[r]] \in Block /\ h = Height[Parent[Of[r]]] + 1
    BY <2>1, CheckpointAssumption
  <2>3. h - 1 \in Heights /\ Covered(h - 1, task, tip)
    <3>1. h - 1 \in Heights
      BY <2>1, <2>2, LastCheckpoint DEF Heights
    <3>2. Covered(h - 1, task, tip)
      BY <2>1, <2>2, Zenon DEF IInv, TasksOK
    <3> QED BY <3>1, <3>2, Zenon
  <2>4. Main[h - 1] = Parent[Of[r]] /\ Height[Parent[Of[r]]] = h - 1
    <3>1. h - 1 < MaxHeight /\ (h - 1) + 1 = h
      BY <2>1, <2>2, LastCheckpoint DEF Heights
    <3> QED BY <2>1, <2>3, <3>1, MainIsChain
  <2>5. TipHeight(tip) \in Int
    BY TipHeights, Zenon DEF IInv, OnChain
  <2> QED BY <2>3, <2>4, <2>5, Zenon DEF Covered
<1> QED BY <1>1, Invariance, PTL
=============================================================================
