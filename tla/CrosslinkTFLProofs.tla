------------------------- MODULE CrosslinkTFLProofs -------------------------
(***************************************************************************)
(* Proofs about CrosslinkTFL and FinalityQueries.  What a node finalizes   *)
(* follows the decisions of the BFT engine as long as its block write task *)
(* neither finalizes past the reorg limit nor drops a fork:                *)
(* CommitsOnlyAdd.  Under this hypothesis the nodes are proved to agree,   *)
(* and their answers about blocks to be final, for any number of nodes,    *)
(* any tree of blocks and any order of proposals, decisions, commits and   *)
(* queries.  That decisions only move finality forward is proved without   *)
(* it.                                                                     *)
(***************************************************************************)
EXTENDS FinalityQueries, ChainProofs

\* Committing a block leaves the database and the known blocks as they are: the
\* chains are within MAX_BLOCK_REORG_HEIGHT and MAX_NON_FINALIZED_CHAIN_FORKS.
CommitAdds(n, b) ==
    CommitBlock(n, b) =>
        /\ finalized'[n] = finalized[n] /\ finalized_tip'[n] = finalized_tip[n]
        /\ UNION chain_set[n] \subseteq UNION chain_set'[n]

AllCommitsAdd == \A n \in Node, b \in Block : CommitAdds(n, b)

CommitsOnlyAdd == [][AllCommitsAdd]_vars

-----------------------------------------------------------------------------
\* The PoW block that a BFT block finalizes.
FinalOf(block) == Head(block.headers)

\* The number of decisions a node has applied, and the blocks they finalize.
Applied(n) == IF deciding[n] THEN Len(bft_blocks[n]) - 1 ELSE Len(bft_blocks[n])

DecidedFinals(k) == {FinalOf(decided[i]) : i \in 1 .. k}

\* What holds of each node: its decisions are the first ones of the engine, what
\* it has validated it still knows, and its database ends in the highest of the
\* blocks its decisions finalize.
NodeInv(n) ==
    /\ ViewOK(finalized[n], finalized_tip[n], chain_set[n])
    /\ Len(bft_blocks[n]) <= Len(decided)
    /\ \A i \in 1 .. Len(bft_blocks[n]) : bft_blocks[n][i] = decided[i]
    /\ \A block \in passed[n] :
        /\ block.headers # <<>>
        /\ block.previous_block = Len(bft_blocks[n]) /\ Known(n, FinalOf(block))
    /\ deciding[n] =>
        /\ Len(bft_blocks[n]) > 0 /\ passed[n] = {}
        /\ latest_final_block[n] = FinalOf(decided[Len(bft_blocks[n])])
        /\ Known(n, latest_final_block[n])
    /\ finalized_tip[n] \in {Genesis} \cup DecidedFinals(Applied(n))
    /\ DecidedFinals(Applied(n)) \subseteq finalized[n]

IInv ==
    /\ TypeOK
    /\ \A block \in proposed : block.headers # <<>>
    /\ \A i \in 1 .. Len(decided) : decided[i].headers # <<>>
    /\ \A n \in Node : NodeInv(n)

\* The part of it that holds without the hypothesis, whatever the write tasks
\* finalize and drop.
BaseNode(n) ==
    /\ ViewOK(finalized[n], finalized_tip[n], chain_set[n])
    /\ Len(bft_blocks[n]) <= Len(decided)
    /\ \A i \in 1 .. Len(bft_blocks[n]) : bft_blocks[n][i] = decided[i]
    /\ deciding[n] => latest_final_block[n] \in Block

BaseInv ==
    /\ TypeOK
    /\ \A block \in proposed : block.headers # <<>>
    /\ \A i \in 1 .. Len(decided) : decided[i].headers # <<>>
    /\ \A n \in Node : BaseNode(n)

-----------------------------------------------------------------------------
\* The invariant contains its unconditional part.
LEMMA IInvBase == IInv => BaseInv
<1> SUFFICES ASSUME IInv, NEW n \in Node PROVE BaseNode(n)
  BY Zenon DEF IInv, BaseInv
<1>1. TypeOK /\ NodeInv(n)
  BY Zenon DEF IInv
<1>2. UNION chain_set[n] \subseteq Block /\ finalized[n] \subseteq Block
  BY <1>1, Zenon DEF TypeOK
<1> QED BY <1>1, <1>2, Zenon DEF NodeInv, BaseNode, Known

\* Nodes start at genesis with nothing decided.
LEMMA InitIInv == Init => IInv
<1> SUFFICES ASSUME Init PROVE IInv
  BY Zenon
<1>1. Genesis \in Block /\ Height[Genesis] \in Nat /\ Height[Genesis] <= Height[Genesis]
  BY TreeAssumption
<1>2. TypeOK
  BY <1>1, CrosslinkAssumption DEF Init, TypeOK, Idle
<1>3. ASSUME NEW n \in Node PROVE NodeInv(n)
  <2>1. /\ finalized[n] = {Genesis} /\ finalized_tip[n] = Genesis /\ chain_set[n] = {}
        /\ bft_blocks[n] = <<>> /\ passed[n] = {} /\ ~deciding[n] /\ decided = <<>>
    BY Zenon DEF Init
  <2>2. ViewOK({Genesis}, Genesis, {})
    BY <1>1, FS_EmptySet, Zenon DEF ViewOK, ExtendsBlock, ChainsOK
  <2>3. Len(bft_blocks[n]) = 0 /\ Len(decided) = 0 /\ Applied(n) = 0
    BY <2>1, Zenon DEF Applied
  <2>4. DecidedFinals(Applied(n)) = {}
    BY <2>3 DEF DecidedFinals
  <2> QED BY <2>1, <2>2, <2>3, <2>4 DEF NodeInv
<1>4. proposed = {} /\ Len(decided) = 0
  BY Zenon DEF Init
<1> QED BY <1>2, <1>3, <1>4 DEF IInv

\* A step that changes nothing of a node keeps its invariant.
LEMMA SameNode ==
    ASSUME NEW n \in Node, NodeInv(n), decided' = decided,
           finalized'[n] = finalized[n], finalized_tip'[n] = finalized_tip[n],
           chain_set'[n] = chain_set[n], bft_blocks'[n] = bft_blocks[n],
           passed'[n] = passed[n], deciding'[n] = deciding[n],
           deciding[n] => latest_final_block'[n] = latest_final_block[n]
    PROVE  NodeInv(n)'
<1>1. Applied(n)' = Applied(n) /\ DecidedFinals(Applied(n))' = DecidedFinals(Applied(n))
  BY Zenon DEF Applied, DecidedFinals
<1> QED BY <1>1, Zenon DEF NodeInv, Known

\* How many decisions a node may have applied.
LEMMA Counts ==
    ASSUME IInv, NEW n \in Node
    PROVE  /\ Len(bft_blocks[n]) \in Nat /\ Len(decided) \in Nat /\ decided \in Seq(BftBlock)
           /\ bft_blocks[n] \in Seq(BftBlock) /\ deciding[n] \in BOOLEAN
           /\ Len(bft_blocks[n]) <= Len(decided)
           /\ deciding[n] => Len(bft_blocks[n]) > 0
           /\ Applied(n) \in 0 .. Len(decided)
<1>1. TypeOK /\ NodeInv(n)
  BY Zenon DEF IInv
<1>2. /\ bft_blocks[n] \in Seq(BftBlock) /\ decided \in Seq(BftBlock) /\ deciding[n] \in BOOLEAN
  BY <1>1, Zenon DEF TypeOK
<1>3. Len(bft_blocks[n]) \in Nat /\ Len(decided) \in Nat
  BY <1>2
<1>4. Len(bft_blocks[n]) <= Len(decided) /\ (deciding[n] => Len(bft_blocks[n]) > 0)
  BY <1>1, Zenon DEF NodeInv
<1>5. Applied(n) \in 0 .. Len(decided)
  BY <1>3, <1>4 DEF Applied
<1> QED BY <1>2, <1>3, <1>4, <1>5, Zenon

\* A function on the first naturals is a sequence.
LEMMA FunctionIsSequence ==
    ASSUME NEW S, NEW n \in Nat, NEW f \in [1 .. n -> S]
    PROVE  f \in Seq(S)
OBVIOUS

\* The blocks between two heights of a main chain are a sequence of blocks.
LEMMA BlocksBetweenType ==
    ASSUME NEW fin, NEW tip, NEW cs, ViewOK(fin, tip, cs), NEW main,
           main = fin \cup BestChain(cs), NEW lo \in Nat, NEW hi \in 0 .. Height[Tip(main)]
    PROVE  BlocksBetween(main, lo, hi) \in Seq(Block)
<1>1. /\ main \in SUBSET Block /\ Height[Tip(main)] \in Nat
      /\ \A h \in 0 .. Height[Tip(main)] : HashByHeight(main, h) \in main
  BY MainIsChain, MainHasHeights, Zenon
<1>2. \A i \in 1 .. (hi + 1 - lo) : lo + i - 1 \in 0 .. Height[Tip(main)]
  BY <1>1
<1>3. BlocksBetween(main, lo, hi) \in [1 .. (hi + 1 - lo) -> Block]
  BY <1>1, <1>2, Zenon DEF BlocksBetween
<1>4. CASE hi + 1 - lo \in Nat
  BY <1>3, <1>4, FunctionIsSequence, Zenon
<1>5. CASE hi + 1 - lo \notin Nat
  <2>1. 1 .. (hi + 1 - lo) = {} /\ 1 .. 0 = {}
    BY <1>1, <1>5
  <2>2. BlocksBetween(main, lo, hi) \in [1 .. 0 -> Block]
    BY <1>3, <2>1, Zenon
  <2> QED BY <2>2
<1> QED BY <1>4, <1>5, Zenon

\* Finalizing past the reorg limit takes the lowest blocks of the best chain, like a
\* decision for the highest of them.
LEMMA ReorgLimitKeepsView ==
    ASSUME NEW fin, NEW tip, NEW cs, ViewOK(fin, tip, cs), NEW low,
           low = BlocksPastReorgLimit(cs)
    PROVE  ViewOK(fin \cup low, TipAbove(tip, low), Remaining(cs, low))
<1>1. /\ tip \in Block /\ ChainsOK(cs, tip) /\ {} \notin cs
      /\ \A c \in cs : c \in SUBSET Block /\ ExtendsBlock(c, tip) /\ Bounded(c)
  BY Zenon DEF ViewOK, ChainsOK
<1>2. \A x \in Block : Height[x] \in Nat
  BY TreeAssumption, Zenon
<1>3. SUFFICES \E final \in Block : low = LowBlocks(cs, final)
  BY FinalizeKeepsView, Zenon
<1>4. CASE low = {}
  <2>1. ASSUME NEW c \in cs PROVE tip \notin c
    BY <1>1, <1>2 DEF ExtendsBlock
  <2>2. LowBlocks(cs, tip) = {}
    BY <2>1, Zenon DEF LowBlocks, ChainsContaining
  <2> QED BY <1>1, <1>4, <2>2, Zenon
<1>5. CASE low # {}
  <2> DEFINE best == BestChain(cs)
             top == NonFinalizedTip(low)
             above(x) == {y \in best : Height[y] >= Height[x]}
  <2>1. low = {x \in best : Cardinality(above(x)) > MAX_BLOCK_REORG_HEIGHT}
    BY Zenon DEF BlocksPastReorgLimit
  <2>2. best \in cs
    <3>1. best \in cs \cup {{}}
      BY MainIsChain, Zenon
    <3> QED BY <1>5, <2>1, <3>1, Zenon
  <2> HIDE DEF best
  <2>3. best \in SUBSET Block /\ ExtendsBlock(best, tip) /\ Bounded(best) /\ IsFiniteSet(best)
    BY <1>1, <2>2, ChainIsFinite, Zenon
  <2>4. low \subseteq best /\ low \in SUBSET Block /\ Bounded(low)
    BY <2>1, <2>3, BoundedSubset, Zenon
  <2>5. top \in low /\ \A x \in low : Height[x] <= Height[top]
    BY <1>5, <2>4, TipIsHighest, Zenon
  <2> HIDE DEF top
  <2>6. ASSUME NEW y \in best, Height[y] <= Height[top] PROVE y \in low
    <3>1. above(top) \subseteq above(y)
      <4>1. Height[y] \in Nat /\ Height[top] \in Nat /\ \A z \in best : Height[z] \in Nat
        BY <1>2, <2>3, <2>4, <2>5, Zenon
      <4> QED BY <2>6, <4>1
    <3>2. IsFiniteSet(above(y)) /\ IsFiniteSet(above(top))
      BY <2>3, FS_Subset, Zenon
    <3>3. Cardinality(above(top)) > MAX_BLOCK_REORG_HEIGHT
      BY <2>1, <2>5, Zenon
    <3> HIDE DEF above
    <3>4. /\ Cardinality(above(top)) <= Cardinality(above(y))
          /\ Cardinality(above(y)) \in Nat /\ Cardinality(above(top)) \in Nat
      BY <3>1, <3>2, FS_Subset, FS_CardinalityType, Zenon
    <3>5. Cardinality(above(y)) > MAX_BLOCK_REORG_HEIGHT
      BY <3>3, <3>4, CrosslinkAssumption
    <3> QED BY <2>1, <3>5, Zenon
  <2>7. low = Fork(best, top)
    BY <2>4, <2>5, <2>6, Zenon DEF Fork
  <2>8. ASSUME NEW d \in cs, top \in d PROVE Fork(d, top) = Fork(best, top)
    <3>1. top \in best
      BY <2>4, <2>5, Zenon
    <3>2. \A y \in best : Height[y] <= Height[top] => y \in d
      BY <1>1, <2>2, <2>8, <3>1, PathsAgree, Zenon
    <3>3. \A y \in d : Height[y] <= Height[top] => y \in best
      BY <1>1, <2>2, <2>8, <3>1, PathsAgree, Zenon
    <3> QED BY <3>2, <3>3, Zenon DEF Fork
  <2>9. low = LowBlocks(cs, top) /\ top \in Block
    BY <2>2, <2>4, <2>5, <2>7, <2>8, Zenon DEF LowBlocks, ChainsContaining
  <2> QED BY <2>9, Zenon
<1> QED BY <1>4, <1>5, Zenon

\* Committing a block keeps the view of the node, also where it finalizes past the
\* reorg limit or drops a fork.
LEMMA CommitView ==
    ASSUME TypeOK, NEW n \in Node, NEW b \in Block, CommitBlock(n, b),
           ViewOK(finalized[n], finalized_tip[n], chain_set[n])
    PROVE  ViewOK(finalized'[n], finalized_tip'[n], chain_set'[n])
<1>1. PICK c : \E low :
        /\ IF Parent[b] = finalized_tip[n] THEN c = {}
           ELSE IsParentChain(c, chain_set[n], Parent[b])
        /\ low = BlocksPastReorgLimit(InsertAbove(chain_set[n], Push(c, b), Parent[b]))
        /\ FinalizeBlocks(n, InsertAbove(chain_set[n], Push(c, b), Parent[b]), low)
  BY Zenon DEF CommitBlock
<1> DEFINE new == InsertAbove(chain_set[n], Push(c, b), Parent[b])
<1>2. PICK low : low = BlocksPastReorgLimit(new) /\ FinalizeBlocks(n, new, low)
  BY <1>1, Zenon
<1>3. ViewOK(finalized[n], finalized_tip[n], new)
  <2>1. Height[b] > Height[finalized_tip[n]] /\ {} \in SUBSET finalized[n]
    BY Zenon DEF CommitBlock
  <2>2. ViewOK(finalized[n], finalized_tip[n], Remaining(new, {}))
    BY <1>1, <2>1, CommitKeepsView, Zenon
  <2>3. {} \notin new
    <3>1. {} \notin chain_set[n] /\ Push(c, b) # {}
      BY Zenon DEF ViewOK, Push
    <3>2. new \subseteq chain_set[n] \cup {Push(c, b)}
      BY InsertAddsOne, Zenon
    <3> HIDE DEF new
    <3> QED BY <3>1, <3>2, Zenon
  <2> HIDE DEF new
  <2>4. Remaining(new, {}) = new
    <3>1. ASSUME NEW d PROVE d \ {} = d /\ {} \subseteq d
      BY Zenon
    <3>2. {e \in new : {} \subseteq e} = new
      BY <3>1, Zenon
    <3>3. {d \ {} : d \in new} = new
      BY <3>1, ZenonT(60)
    <3> QED BY <2>3, <3>2, <3>3, Zenon DEF Remaining
  <2> QED BY <2>2, <2>4, Zenon
<1> HIDE DEF new
<1>4. ViewOK(finalized[n] \cup low, TipAbove(finalized_tip[n], low), Remaining(new, low))
  BY <1>2, <1>3, ReorgLimitKeepsView, Zenon
<1>5. /\ chain_set'[n] = Remaining(new, low) /\ finalized'[n] = finalized[n] \cup low
      /\ finalized_tip'[n] = TipAbove(finalized_tip[n], low)
  BY <1>2, Zenon DEF FinalizeBlocks, Remaining, TipAbove, TypeOK
<1> QED BY <1>4, <1>5, Zenon

\* What a node reads.
LEMMA ReadsAreBlocks ==
    ASSUME BaseInv, NEW n \in Node
    PROVE  LET main == MainChain(n)
           IN  /\ main \in SUBSET Block /\ Tip(main) \in main /\ Height[Tip(main)] \in Nat
               /\ \A h \in 0 .. Height[Tip(main)] :
                    HashByHeight(main, h) \in main /\ Height[HashByHeight(main, h)] = h
               /\ \A x, y \in main : Height[x] = Height[y] => x = y
               /\ Genesis \in main
               /\ \A b : FindBlockHeaders(main, b) \in Seq(Block)
<1> DEFINE main == MainChain(n)
<1>1. ViewOK(finalized[n], finalized_tip[n], chain_set[n])
  BY Zenon DEF BaseInv, BaseNode
<1>2. main = finalized[n] \cup BestChain(chain_set[n])
  BY Zenon DEF MainChain
<1> HIDE DEF main
<1>3. /\ main \in SUBSET Block /\ Tip(main) \in main /\ Height[Tip(main)] \in Nat
      /\ \A h \in 0 .. Height[Tip(main)] :
            HashByHeight(main, h) \in main /\ Height[HashByHeight(main, h)] = h
      /\ \A x, y \in main : Height[x] = Height[y] => x = y
      /\ Genesis \in main
  <2>1. /\ main \in SUBSET Block /\ Genesis \in main /\ Bounded(main)
        /\ ExtendsBlock(main \ {Genesis}, Genesis)
    BY <1>1, <1>2, MainIsChain, Zenon
  <2> QED BY <2>1, MainHasHeights, Zenon
<1>4. ASSUME NEW b PROVE FindBlockHeaders(main, b) \in Seq(Block)
  <2>1. (IF b \in main THEN Height[b] + 1 ELSE 0) \in Nat
    BY <1>3, TreeAssumption
  <2>2. Height[Tip(main)] \in 0 .. Height[Tip(main)]
    BY <1>3
  <2> QED BY <1>1, <1>2, <2>1, <2>2, BlocksBetweenType, Zenon DEF FindBlockHeaders
<1> QED BY <1>3, <1>4, Zenon DEF main

-----------------------------------------------------------------------------
\* Every step keeps the types.
LEMMA NextTypeOK == ASSUME BaseInv, Next PROVE TypeOK'
<1>1. TypeOK
  BY Zenon DEF BaseInv
<1> USE DEF TypeOK
<1>2. ASSUME NEW n \in Node, NEW cs \in SUBSET SUBSET Block, NEW low \in SUBSET Block,
             low # {} => NonFinalizedTip(low) \in Block, FinalizeBlocks(n, cs, low)
      PROVE  /\ chain_set' \in [Node -> SUBSET SUBSET Block]
             /\ finalized' \in [Node -> SUBSET Block] /\ finalized_tip' \in [Node -> Block]
  <2>1. {c \ low : c \in {d \in cs : low \subseteq d}} \ {{}} \in SUBSET SUBSET Block
    OBVIOUS
  <2>2. chain_set' \in [Node -> SUBSET SUBSET Block]
    BY <1>1, <1>2, <2>1, Zenon DEF FinalizeBlocks
  <2> QED BY <1>1, <1>2, <2>2 DEF FinalizeBlocks
<1>3. ASSUME NEW n \in Node, NEW b \in Block, CommitBlock(n, b) PROVE TypeOK'
  <2>1. ViewOK(finalized'[n], finalized_tip'[n], chain_set'[n])
    <3> HIDE DEF TypeOK
    <3>1. ViewOK(finalized[n], finalized_tip[n], chain_set[n])
      BY Zenon DEF BaseInv, BaseNode
    <3> QED BY <1>1, <1>3, <3>1, CommitView, Zenon
  <2>2. /\ finalized'[n] \in SUBSET Block /\ finalized_tip'[n] \in Block
        /\ chain_set'[n] \in SUBSET SUBSET Block
    BY <2>1, Zenon DEF ViewOK, ChainsOK
  <2>3. PICK cs, low : FinalizeBlocks(n, cs, low)
    BY <1>3, Zenon DEF CommitBlock
  <2>4. /\ chain_set' = [chain_set EXCEPT ![n] = chain_set'[n]]
        /\ finalized' = [finalized EXCEPT ![n] = finalized'[n]]
        /\ finalized_tip' = [finalized_tip EXCEPT ![n] = finalized_tip'[n]]
    BY <1>1, <2>3, Zenon DEF FinalizeBlocks
  <2>5. /\ chain_set' \in [Node -> SUBSET SUBSET Block]
        /\ finalized' \in [Node -> SUBSET Block] /\ finalized_tip' \in [Node -> Block]
    BY <1>1, <2>2, <2>4, Zenon
  <2> QED BY <1>1, <1>3, <2>5, Zenon DEF CommitBlock, tfl, engine
<1>4. ASSUME NEW n \in Node, FinalizeDecided(n) PROVE TypeOK'
  <2> DEFINE final == latest_final_block[n]
             prev == current_bc_final[n]
             start == IF prev = NONE THEN final ELSE prev
  <2>1. /\ ViewOK(finalized[n], finalized_tip[n], chain_set[n]) /\ final \in Block
        /\ deciding[n]
    BY <1>4, Zenon DEF BaseInv, BaseNode, FinalizeDecided
  <2>2. PICK low : low = DecidedBlocks(n, final) /\ FinalizeBlocks(n, chain_set[n], low)
    BY <1>4, Zenon DEF FinalizeDecided
  <2>3. low \in SUBSET Block
    BY <1>1, <2>2 DEF DecidedBlocks, Fork, ChainsContaining
  <2>4. /\ finalized'[n] = finalized[n] \cup low
        /\ chain_set'[n] = Remaining(chain_set[n], low)
        /\ finalized_tip'[n] = IF low = {} THEN finalized_tip[n] ELSE NonFinalizedTip(low)
    BY <1>1, <2>2, Zenon DEF FinalizeBlocks, Remaining
  <2>5. ViewOK(finalized'[n], finalized_tip'[n], chain_set'[n])
    <3>1. low = LowBlocks(chain_set[n], final)
      BY <2>2, Zenon DEF DecidedBlocks, LowBlocks
    <3> HIDE DEF final
    <3>2. ViewOK(finalized[n] \cup low, TipAbove(finalized_tip[n], low),
                 Remaining(chain_set[n], low))
      BY <2>1, <3>1, FinalizeKeepsView, Zenon
    <3> QED BY <2>4, <3>2, Zenon DEF TipAbove
  <2>6. low # {} => NonFinalizedTip(low) \in Block
    BY <2>4, <2>5, Zenon DEF ViewOK
  <2>7. /\ chain_set' \in [Node -> SUBSET SUBSET Block]
        /\ finalized' \in [Node -> SUBSET Block] /\ finalized_tip' \in [Node -> Block]
    BY <1>1, <1>2, <2>2, <2>3, <2>6, Zenon
  <2> DEFINE main == finalized'[n] \cup BestChain(chain_set'[n])
             seq == BlockSequence(main, start, final)
  <2>8. seq \in Seq(Block)
    <3> HIDE DEF main, final, start
    <3>1. main \in SUBSET Block /\ Tip(main) \in main
             /\ Height[Tip(main)] \in Nat /\ \A x \in main : Height[x] \in 0 .. Height[Tip(main)]
      <4>1. /\ main \in SUBSET Block /\ Genesis \in main /\ Bounded(main)
            /\ ExtendsBlock(main \ {Genesis}, Genesis)
        BY <2>5, MainIsChain, Zenon DEF main
      <4> QED BY <4>1, MainHasHeights, Zenon
    <3>2. CASE start \notin main \/ Height[final] < Height[start]
      BY <3>2 DEF BlockSequence
    <3>3. CASE ~(start \notin main \/ Height[final] < Height[start])
      <4>1. Height[start] \in Nat
        BY <3>1, <3>3
      <4>2. Height[IF final \in main THEN final ELSE Tip(main)] \in 0 .. Height[Tip(main)]
        BY <3>1, Zenon
      <4>3. BlocksBetween(main, Height[start],
                Height[IF final \in main THEN final ELSE Tip(main)]) \in Seq(Block)
        BY <2>5, <4>1, <4>2, BlocksBetweenType, Zenon DEF main
      <4> QED BY <3>3, <4>3, Zenon DEF BlockSequence
    <3> QED BY <3>2, <3>3, Zenon
  <2>9. NewlyFinal(seq, prev) \in Seq(Block)
    <3> HIDE DEF seq
    <3>1. seq # <<>> => Tail(seq) \in Seq(Block)
      BY <2>8
    <3> QED BY <2>8, <3>1, Zenon DEF NewlyFinal
  <2>10. final_changes' \in [Node -> Seq(Block)]
    <3>1. final_changes' = [final_changes EXCEPT ![n] = @ \o NewlyFinal(seq, prev)]
      BY <1>4, Zenon DEF FinalizeDecided
    <3>2. final_changes[n] \o NewlyFinal(seq, prev) \in Seq(Block)
      <4> HIDE DEF seq, prev
      <4> QED BY <1>1, <2>9
    <3> HIDE DEF seq, prev
    <3> QED BY <1>1, <3>1, <3>2, Zenon
  <2>11. current_bc_final' \in [Node -> Block \cup {NONE}] /\ deciding' \in [Node -> BOOLEAN]
    BY <1>1, <1>4, <2>1, Zenon DEF FinalizeDecided
  <2> QED BY <1>1, <1>4, <2>7, <2>10, <2>11, Zenon DEF FinalizeDecided, engine
<1>5. ASSUME NEW n \in Node, ProposeTip(n) PROVE TypeOK'
  <2>1. PICK height : /\ height = CandidateHeight(MainChain(n)) /\ height >= 0
                      /\ proposing' = [proposing EXCEPT ![n] =
                            [step |-> "header", height |-> height, hash |-> NONE]]
    BY <1>5, Zenon DEF ProposeTip
  <2>2. height \in Nat
    <3>1. Height[Tip(MainChain(n))] \in Nat
      BY ReadsAreBlocks, Zenon
    <3> QED BY <2>1, <3>1, CrosslinkAssumption DEF CandidateHeight
  <2>3. proposing' \in [Node -> [step : {"idle", "header", "headers"}, height : Nat,
                                 hash : Block \cup {NONE}]]
    BY <1>1, <2>1, <2>2, Zenon
  <2> QED BY <1>1, <1>5, <2>3, Zenon DEF ProposeTip, pow, tfl, engine
<1>6. ASSUME NEW n \in Node, ProposeHeader(n) PROVE TypeOK'
  <2>1. HashByHeight(MainChain(n), proposing[n].height) \in Block
            \/ proposing[n].height > Height[Tip(MainChain(n))]
    <3>1. /\ proposing[n].height \in Nat /\ Height[Tip(MainChain(n))] \in Nat
          /\ MainChain(n) \in SUBSET Block
          /\ \A h \in 0 .. Height[Tip(MainChain(n))] : HashByHeight(MainChain(n), h) \in MainChain(n)
      BY <1>1, ReadsAreBlocks, Zenon
    <3>2. CASE proposing[n].height \in 0 .. Height[Tip(MainChain(n))]
      BY <3>1, <3>2, Zenon
    <3>3. CASE proposing[n].height \notin 0 .. Height[Tip(MainChain(n))]
      BY <3>1, <3>3
    <3> QED BY <3>2, <3>3, Zenon
  <2>2. CASE proposing[n].height <= Height[Tip(MainChain(n))]
    <3>1. HashByHeight(MainChain(n), proposing[n].height) \in Block
      BY <1>1, <2>1, <2>2, ReadsAreBlocks
    <3>2. /\ panicked' = panicked
          /\ proposing' = [proposing EXCEPT ![n].step = "headers",
                              ![n].hash = HashByHeight(MainChain(n), proposing[n].height)]
      BY <1>6, <2>2, Zenon DEF ProposeHeader
    <3>3. proposing' \in [Node -> [step : {"idle", "header", "headers"}, height : Nat,
                                   hash : Block \cup {NONE}]]
      <4> DEFINE P == [step : {"idle", "header", "headers"}, height : Nat,
                       hash : Block \cup {NONE}]
      <4>1. proposing \in [Node -> P]
        BY <1>1, Zenon
      <4>2. [proposing[n] EXCEPT !.step = "headers",
                !.hash = HashByHeight(MainChain(n), proposing[n].height)] \in P
        BY <3>1, <4>1, Zenon
      <4>3. proposing' = [proposing EXCEPT ![n] = [proposing[n] EXCEPT !.step = "headers",
                !.hash = HashByHeight(MainChain(n), proposing[n].height)]]
        BY <3>2, <4>1, Zenon
      <4> HIDE DEF P
      <4>4. proposing' \in [Node -> P]
        BY <4>1, <4>2, <4>3, Zenon
      <4> QED BY <4>4, Zenon DEF P
    <3> QED BY <1>1, <1>6, <3>2, <3>3, Zenon DEF ProposeHeader, pow, tfl, engine
  <2>3. CASE ~(proposing[n].height <= Height[Tip(MainChain(n))])
    <3>1. panicked' = panicked \cup {n} /\ proposing' = [proposing EXCEPT ![n] = Idle]
      BY <1>6, <2>3, Zenon DEF ProposeHeader
    <3> QED BY <1>1, <1>6, <3>1, Zenon DEF ProposeHeader, pow, tfl, engine, Idle
  <2> QED BY <2>2, <2>3, Zenon
<1>7. ASSUME NEW n \in Node, ProposeHeaders(n) PROVE TypeOK'
  <2> DEFINE block == [height |-> Len(bft_blocks[n]) + 1,
                       previous_block |-> Len(bft_blocks[n]),
                       headers |-> FindBlockHeaders(MainChain(n), proposing[n].hash)]
  <2>1. Len(bft_blocks[n]) \in Nat /\ FindBlockHeaders(MainChain(n), proposing[n].hash) \in Seq(Block)
    BY <1>1, ReadsAreBlocks
  <2>2. block \in BftBlock
    <3>1. Len(bft_blocks[n]) + 1 \in Nat
      BY <2>1
    <3> HIDE DEF TypeOK
    <3> QED BY <2>1, <3>1, Zenon DEF BftBlock
  <2>3. proposed' \subseteq proposed \cup {block}
    BY <1>7, Zenon DEF ProposeHeaders
  <2>4. proposed' \subseteq BftBlock
    <3> HIDE DEF block
    <3> QED BY <1>1, <2>2, <2>3, Zenon
  <2>5. proposing' = [proposing EXCEPT ![n] = Idle]
    BY <1>7, Zenon DEF ProposeHeaders
  <2> QED BY <1>1, <1>7, <2>4, <2>5 DEF ProposeHeaders, pow, tfl, Idle
<1>8. ASSUME NEW n \in Node, NEW block \in Pending(n), Validate(n, block) PROVE TypeOK'
  <2>1. block \in BftBlock
    <3>1. \A i \in DOMAIN decided : decided[i] \in BftBlock
      BY <1>1
    <3> QED BY <1>1, <3>1, Zenon DEF Pending
  <2> QED BY <1>1, <1>8, <2>1, Zenon DEF Validate, pow, tfl
<1>9. ASSUME NEW block \in proposed, Decide(block) PROVE TypeOK'
  BY <1>1, <1>9 DEF Decide, pow, tfl
<1>10. ASSUME NEW n \in Node, NewDecided(n) PROVE TypeOK'
  <2> DEFINE i == Len(bft_blocks[n]) + 1
  <2>1. /\ i \in DOMAIN decided /\ decided[i] \in passed[n]
        /\ passed' = [passed EXCEPT ![n] = {}]
        /\ UNCHANGED <<pow, current_bc_final, tip_is_active, tfl_is_activated, final_changes,
                       proposing, proposed, decided, requests>>
    BY <1>10, Zenon DEF NewDecided
  <2>2. decided[i] \in BftBlock
    BY <1>1, <2>1, Zenon
  <2>3. CASE Validates(n, decided[i])
    <3>1. /\ bft_blocks' = [bft_blocks EXCEPT ![n] = Append(@, decided[i])]
          /\ latest_final_block' = [latest_final_block EXCEPT ![n] = Head(decided[i].headers)]
          /\ deciding' = [deciding EXCEPT ![n] = TRUE] /\ panicked' = panicked
      BY <1>10, <2>3, Zenon DEF NewDecided
    <3>2. Head(decided[i].headers) \in Block
      <4>1. decided[i].headers # <<>> /\ decided[i].headers \in Seq(Block)
        <5>1. i \in 1 .. Len(decided)
          BY <1>1, <2>1
        <5> QED BY <2>2, <5>1, Zenon DEF BaseInv, BftBlock
      <4> QED BY <4>1
    <3> HIDE DEF i
    <3>3. Append(bft_blocks[n], decided[i]) \in Seq(BftBlock)
      BY <1>1, <2>2
    <3>4. bft_blocks' \in [Node -> Seq(BftBlock)]
      BY <1>1, <3>1, <3>3, Zenon
    <3>5. latest_final_block' \in [Node -> Block \cup {NONE}]
      BY <1>1, <3>1, <3>2, Zenon
    <3> QED BY <1>1, <2>1, <3>1, <3>4, <3>5, Zenon DEF pow
  <2>4. CASE ~Validates(n, decided[i])
    <3>1. /\ panicked' = panicked \cup {n}
          /\ UNCHANGED <<bft_blocks, latest_final_block, deciding>>
      BY <1>10, <2>4, Zenon DEF NewDecided
    <3> HIDE DEF i
    <3> QED BY <1>1, <2>1, <3>1, Zenon DEF pow
  <2> QED BY <2>3, <2>4, Zenon
<1>11. ASSUME NEW n \in Node, ReadTip(n) \/ Activate(n) PROVE TypeOK'
  BY <1>1, <1>11, Zenon DEF ReadTip, Activate, pow, engine
<1>12. ASSUME NEW n \in Node, NEW b \in Block, SetFinality(n, b) PROVE TypeOK'
  BY <1>1, <1>12 DEF SetFinality, pow, engine
<1> HIDE DEF TypeOK
<1> QED BY <1>3, <1>4, <1>5, <1>6, <1>7, <1>8, <1>9, <1>10, <1>11, <1>12, Zenon DEF Next

-----------------------------------------------------------------------------
\* Committing keeps the invariant of the node: what it knows, it still knows.
LEMMA CommitNode ==
    ASSUME IInv, AllCommitsAdd, NEW n \in Node, NEW b \in Block, CommitBlock(n, b)
    PROVE  NodeInv(n)'
<1>1. /\ TypeOK /\ NodeInv(n) /\ CommitAdds(n, b)
      /\ ViewOK(finalized[n], finalized_tip[n], chain_set[n])
  BY Zenon DEF IInv, NodeInv, AllCommitsAdd
<1>2. /\ finalized'[n] = finalized[n] /\ finalized_tip'[n] = finalized_tip[n]
      /\ UNION chain_set[n] \subseteq UNION chain_set'[n]
  BY <1>1, Zenon DEF CommitAdds
<1>3. ViewOK(finalized'[n], finalized_tip'[n], chain_set'[n])
  BY <1>1, CommitView, Zenon
<1>4. UNCHANGED <<latest_final_block, bft_blocks, deciding, passed, decided>>
  BY Zenon DEF CommitBlock, tfl, engine
<1>5. \A x : Known(n, x) => Known(n, x)'
  BY <1>2, Zenon DEF Known
<1>6. Applied(n)' = Applied(n) /\ DecidedFinals(Applied(n))' = DecidedFinals(Applied(n))
  BY <1>4, Zenon DEF Applied, DecidedFinals
<1> QED BY <1>1, <1>2, <1>3, <1>4, <1>5, <1>6, Zenon DEF NodeInv, Known

\* A decided block that the node has validated is known when it is applied.
LEMMA NewDecidedNode ==
    ASSUME IInv, NEW n \in Node, NewDecided(n)
    PROVE  /\ NodeInv(n)' /\ Applied(n)' = Applied(n)
           /\ DecidedFinals(Applied(n))' = DecidedFinals(Applied(n))
<1> DEFINE i == Len(bft_blocks[n]) + 1
<1>1. TypeOK /\ NodeInv(n) /\ ~deciding[n]
  BY Zenon DEF IInv, NewDecided, EngineFree
<1>2. /\ i \in DOMAIN decided /\ decided[i] \in passed[n] /\ Len(bft_blocks[n]) \in Nat
      /\ passed' = [passed EXCEPT ![n] = {}]
      /\ UNCHANGED <<chain_set, finalized, finalized_tip, decided>>
  BY <1>1 DEF NewDecided, pow, TypeOK
<1>3. passed'[n] = {}
  BY <1>1, <1>2, Zenon DEF TypeOK
<1>4. Validates(n, decided[i])
  BY <1>1, <1>2, Zenon DEF NodeInv, Validates, FinalOf
<1>5. /\ bft_blocks' = [bft_blocks EXCEPT ![n] = Append(@, decided[i])]
      /\ latest_final_block' = [latest_final_block EXCEPT ![n] = Head(decided[i].headers)]
      /\ deciding' = [deciding EXCEPT ![n] = TRUE]
  BY <1>4, Zenon DEF NewDecided
<1>6. /\ bft_blocks'[n] = Append(bft_blocks[n], decided[i]) /\ bft_blocks[n] \in Seq(BftBlock)
      /\ latest_final_block'[n] = FinalOf(decided[i]) /\ deciding'[n]
  BY <1>1, <1>5, Zenon DEF TypeOK, FinalOf
<1>7. /\ Len(bft_blocks'[n]) = i /\ i <= Len(decided) /\ i \in Nat
      /\ \A j \in 1 .. i : bft_blocks'[n][j] = decided[j]
  <2>1. Len(bft_blocks'[n]) = i
    BY <1>6
  <2>2. i <= Len(decided)
    BY <1>1, <1>2 DEF TypeOK
  <2>3. ASSUME NEW j \in 1 .. i PROVE bft_blocks'[n][j] = decided[j]
    <3>1. CASE j = i
      BY <1>6, <3>1
    <3>2. CASE j # i
      <4>1. j \in 1 .. Len(bft_blocks[n])
        BY <1>2, <3>2
      <4>2. bft_blocks'[n][j] = bft_blocks[n][j]
        BY <1>6, <4>1
      <4> QED BY <1>1, <4>1, <4>2, Zenon DEF NodeInv
    <3> QED BY <3>1, <3>2, Zenon
  <2> QED BY <1>2, <2>1, <2>2, <2>3
<1>8. Applied(n)' = Applied(n) /\ DecidedFinals(Applied(n))' = DecidedFinals(Applied(n))
  <2>1. Applied(n)' = Applied(n)
    BY <1>1, <1>2, <1>6, <1>7 DEF Applied
  <2> QED BY <1>2, <2>1, Zenon DEF DecidedFinals
<1>9. Known(n, latest_final_block[n])'
  <2>1. Known(n, FinalOf(decided[i]))
    BY <1>1, <1>2, Zenon DEF NodeInv
  <2> QED BY <1>2, <1>6, <2>1, Zenon DEF Known
<1> HIDE DEF i
<1>10. ViewOK(finalized[n], finalized_tip[n], chain_set[n])'
  BY <1>1, <1>2, Zenon DEF NodeInv
<1>11. i > 0 /\ decided' = decided
  BY <1>2 DEF i
<1> QED BY <1>1, <1>2, <1>3, <1>6, <1>7, <1>8, <1>9, <1>10, <1>11, Zenon DEF NodeInv

\* A decision that one node applies changes nothing on the others.
LEMMA NewDecidedOthers ==
    ASSUME TypeOK, NEW n \in Node, NewDecided(n), NEW m \in Node, m # n
    PROVE  /\ passed'[m] = passed[m] /\ bft_blocks'[m] = bft_blocks[m]
           /\ deciding'[m] = deciding[m] /\ latest_final_block'[m] = latest_final_block[m]
<1>1. /\ passed \in [Node -> SUBSET BftBlock] /\ bft_blocks \in [Node -> Seq(BftBlock)]
      /\ deciding \in [Node -> BOOLEAN] /\ latest_final_block \in [Node -> Block \cup {NONE}]
  BY Zenon DEF TypeOK
<1> DEFINE block == decided[Len(bft_blocks[n]) + 1]
<1>2. /\ passed' = [passed EXCEPT ![n] = {}]
      /\ \/ /\ bft_blocks' = [bft_blocks EXCEPT ![n] = Append(@, block)]
            /\ latest_final_block' = [latest_final_block EXCEPT ![n] = Head(block.headers)]
            /\ deciding' = [deciding EXCEPT ![n] = TRUE]
         \/ UNCHANGED <<bft_blocks, latest_final_block, deciding>>
  BY Zenon DEF NewDecided
<1> HIDE DEF block
<1> QED BY <1>1, <1>2, Zenon

\* Applying a decision puts its block into the database, which then ends in the
\* same block as before or in this one.
LEMMA FinalizeDecidedNode ==
    ASSUME IInv, NEW n \in Node, FinalizeDecided(n)
    PROVE  NodeInv(n)'
<1> DEFINE final == latest_final_block[n]
           low == LowBlocks(chain_set[n], final)
           k == Len(bft_blocks[n])
<1>1. /\ TypeOK /\ NodeInv(n) /\ deciding[n]
      /\ ViewOK(finalized[n], finalized_tip[n], chain_set[n])
  BY Zenon DEF IInv, FinalizeDecided, NodeInv
<1>2. /\ FinalizeBlocks(n, chain_set[n], low)
      /\ deciding' = [deciding EXCEPT ![n] = FALSE]
      /\ UNCHANGED <<latest_final_block, bft_blocks, passed, decided>>
  BY Zenon DEF FinalizeDecided, DecidedBlocks, LowBlocks, engine
<1>3. /\ finalized'[n] = finalized[n] \cup low
      /\ chain_set'[n] = Remaining(chain_set[n], low)
      /\ finalized_tip'[n] = IF low = {} THEN finalized_tip[n] ELSE NonFinalizedTip(low)
      /\ ~deciding'[n]
  <2> HIDE DEF low
  <2> QED BY <1>1, <1>2, Zenon DEF FinalizeBlocks, Remaining, TypeOK
<1>4. /\ k \in Nat /\ k > 0 /\ passed[n] = {} /\ final = FinalOf(decided[k])
      /\ final \in finalized[n] \cup UNION chain_set[n]
  <2>1. k \in Nat
    BY Counts, Zenon
  <2> QED BY <1>1, <2>1, Zenon DEF NodeInv, Known
<1>5. final \in Block
  <2>1. finalized[n] \subseteq Block /\ UNION chain_set[n] \subseteq Block
    BY <1>1, Zenon DEF TypeOK
  <2> QED BY <1>4, <2>1, Zenon
<1> HIDE DEF final
<1>6. /\ ViewOK(finalized'[n], finalized_tip'[n], chain_set'[n])
      /\ finalized_tip'[n] \in {finalized_tip[n], final}
      /\ final \in finalized'[n]
  <2>1. low = LowBlocks(chain_set[n], final)
    BY Zenon
  <2> HIDE DEF low
  <2>2. /\ ViewOK(finalized[n] \cup low, TipAbove(finalized_tip[n], low),
                  Remaining(chain_set[n], low))
        /\ TipAbove(finalized_tip[n], low) \in {finalized_tip[n], final}
        /\ final \in finalized[n] \cup UNION chain_set[n] => final \in finalized[n] \cup low
    BY <1>1, <1>5, <2>1, FinalizeKeepsView
  <2> QED BY <1>3, <1>4, <2>2, Zenon DEF TipAbove
<1> HIDE DEF low
<1>7. Applied(n) = k - 1 /\ Applied(n)' = k
  BY <1>1, <1>2, <1>3, Zenon DEF Applied
<1>8. DecidedFinals(k)' = DecidedFinals(k - 1) \cup {final}
  <2>1. DecidedFinals(k)' = DecidedFinals(k)
    BY <1>2, Zenon DEF DecidedFinals
  <2>2. 1 .. k = (1 .. (k - 1)) \cup {k}
    BY <1>4
  <2>3. DecidedFinals(k) = DecidedFinals(k - 1) \cup {FinalOf(decided[k])}
    BY <2>2, Zenon DEF DecidedFinals
  <2> QED BY <1>4, <2>1, <2>3, Zenon
<1>9. /\ finalized_tip[n] \in {Genesis} \cup DecidedFinals(k - 1)
      /\ DecidedFinals(k - 1) \subseteq finalized[n]
  BY <1>1, <1>7, Zenon DEF NodeInv
<1>10. /\ finalized_tip'[n] \in {Genesis} \cup DecidedFinals(k)'
       /\ DecidedFinals(k)' \subseteq finalized'[n]
  BY <1>3, <1>6, <1>8, <1>9, Zenon
<1>11. /\ Len(bft_blocks'[n]) <= Len(decided') /\ passed'[n] = {}
       /\ \A i \in 1 .. Len(bft_blocks'[n]) : bft_blocks'[n][i] = decided'[i]
  BY <1>1, <1>2, <1>4, Zenon DEF NodeInv
<1> QED BY <1>2, <1>3, <1>6, <1>7, <1>10, <1>11, Zenon DEF NodeInv

-----------------------------------------------------------------------------
\* The blocks of the engine always show the headers they are about.
LEMMA NextBlocks ==
    ASSUME BaseInv, Next
    PROVE  /\ \A block \in proposed' : block.headers # <<>>
           /\ \A i \in 1 .. Len(decided') : decided'[i].headers # <<>>
<1>1. /\ TypeOK /\ \A block \in proposed : block.headers # <<>>
      /\ \A i \in 1 .. Len(decided) : decided[i].headers # <<>>
  BY Zenon DEF BaseInv
<1>2. ASSUME NEW block \in proposed, Decide(block)
      PROVE  /\ proposed' = {} /\ \A i \in 1 .. Len(decided') : decided'[i].headers # <<>>
  <2>1. decided' = Append(decided, block) /\ decided \in Seq(BftBlock) /\ proposed' = {}
    BY <1>1, <1>2, Zenon DEF Decide, TypeOK
  <2>2. ASSUME NEW i \in 1 .. Len(decided') PROVE decided'[i].headers # <<>>
    <3>1. CASE i = Len(decided) + 1
      BY <1>1, <2>1, <3>1
    <3>2. CASE i # Len(decided) + 1
      <4>1. i \in 1 .. Len(decided) /\ decided'[i] = decided[i]
        BY <2>1, <3>2
      <4> QED BY <1>1, <4>1, Zenon
    <3> QED BY <3>1, <3>2, Zenon
  <2> QED BY <2>1, <2>2, Zenon
<1>3. ASSUME NEW n \in Node, ProposeHeaders(n)
      PROVE  decided' = decided /\ \A block \in proposed' : block.headers # <<>>
  <2> DEFINE new == [height |-> Len(bft_blocks[n]) + 1,
                     previous_block |-> Len(bft_blocks[n]),
                     headers |-> FindBlockHeaders(MainChain(n), proposing[n].hash)]
  <2>1. /\ decided' = decided
        /\ proposed' = IF /\ Len(new.headers) = bc_confirmation_depth_sigma
                          /\ new.previous_block = Len(decided)
                       THEN proposed \cup {new} ELSE proposed
    BY <1>3, Zenon DEF ProposeHeaders
  <2>2. Len(new.headers) = bc_confirmation_depth_sigma => new.headers # <<>>
    <3> HIDE DEF new
    <3> QED BY CrosslinkAssumption, Zenon
  <2> HIDE DEF new
  <2> QED BY <1>1, <2>1, <2>2, Zenon
<1>4. ASSUME NEW n \in Node, NEW b \in Block,
             CommitBlock(n, b) \/ SetFinality(n, b) \/ ReadTip(n) \/ Activate(n)
                \/ ProposeTip(n) \/ ProposeHeader(n) \/ NewDecided(n) \/ FinalizeDecided(n)
      PROVE  UNCHANGED <<proposed, decided>>
  BY <1>4, Zenon DEF CommitBlock, SetFinality, ReadTip, Activate, ProposeTip, ProposeHeader,
              NewDecided, FinalizeDecided, engine
<1>5. ASSUME NEW n \in Node, NEW block \in Pending(n), Validate(n, block)
      PROVE  UNCHANGED <<proposed, decided>>
  BY <1>5, Zenon DEF Validate
<1>6. Genesis \in Block
  BY TreeAssumption, Zenon
<1> QED BY <1>1, <1>2, <1>3, <1>4, <1>5, <1>6, Zenon DEF Next

\* A step that changes nothing of a node keeps the unconditional part, too.
LEMMA SameBase ==
    ASSUME NEW n \in Node, BaseNode(n), decided' = decided,
           finalized'[n] = finalized[n], finalized_tip'[n] = finalized_tip[n],
           chain_set'[n] = chain_set[n], bft_blocks'[n] = bft_blocks[n],
           deciding'[n] = deciding[n],
           deciding[n] => latest_final_block'[n] = latest_final_block[n]
    PROVE  BaseNode(n)'
BY Zenon DEF BaseNode

\* A node that takes a decision has taken the first ones, in their order.
LEMMA NewDecidedBase ==
    ASSUME BaseInv, NEW n \in Node, NewDecided(n)
    PROVE  BaseNode(n)'
<1> DEFINE i == Len(bft_blocks[n]) + 1
<1>1. TypeOK /\ BaseNode(n)
  BY Zenon DEF BaseInv
<1>2. /\ i \in DOMAIN decided /\ UNCHANGED <<chain_set, finalized, finalized_tip, decided>>
      /\ \/ /\ bft_blocks' = [bft_blocks EXCEPT ![n] = Append(@, decided[i])]
            /\ latest_final_block' = [latest_final_block EXCEPT ![n] = Head(decided[i].headers)]
         \/ UNCHANGED <<bft_blocks, latest_final_block, deciding>>
  BY Zenon DEF NewDecided, pow
<1>3. /\ bft_blocks[n] \in Seq(BftBlock) /\ decided \in Seq(BftBlock)
      /\ Len(bft_blocks[n]) \in Nat /\ Len(decided) \in Nat
  <2>1. bft_blocks[n] \in Seq(BftBlock) /\ decided \in Seq(BftBlock)
    BY <1>1, Zenon DEF TypeOK
  <2> QED BY <2>1
<1>4. i \in 1 .. Len(decided) /\ decided[i] \in BftBlock
  BY <1>2, <1>3
<1>5. CASE UNCHANGED <<bft_blocks, latest_final_block, deciding>>
  BY <1>1, <1>2, <1>5, SameBase, Zenon
<1>6. CASE /\ bft_blocks' = [bft_blocks EXCEPT ![n] = Append(@, decided[i])]
           /\ latest_final_block' = [latest_final_block EXCEPT ![n] = Head(decided[i].headers)]
  <2>1. /\ bft_blocks'[n] = Append(bft_blocks[n], decided[i])
        /\ latest_final_block'[n] = Head(decided[i].headers)
    BY <1>1, <1>6, Zenon DEF TypeOK
  <2>2. Head(decided[i].headers) \in Block
    <3>1. decided[i].headers \in Seq(Block) /\ decided[i].headers # <<>>
      BY <1>4, Zenon DEF BaseInv, BftBlock
    <3> QED BY <3>1
  <2>3. Len(bft_blocks'[n]) = i
    BY <1>3, <2>1
  <2>4. ASSUME NEW j \in 1 .. i PROVE bft_blocks'[n][j] = decided[j]
    <3>1. CASE j = i
      BY <1>3, <2>1, <3>1
    <3>2. CASE j # i
      <4>1. j \in 1 .. Len(bft_blocks[n])
        BY <1>3, <3>2
      <4>2. bft_blocks'[n][j] = bft_blocks[n][j]
        BY <1>3, <2>1, <4>1
      <4> QED BY <1>1, <4>1, <4>2, Zenon DEF BaseNode
    <3> QED BY <3>1, <3>2, Zenon
  <2>5. i <= Len(decided)
    BY <1>4
  <2> HIDE DEF i
  <2> QED BY <1>1, <1>2, <2>1, <2>2, <2>3, <2>4, <2>5, Zenon DEF BaseNode
<1> QED BY <1>2, <1>5, <1>6, Zenon

\* Every step, of the node itself or of another one, keeps it.
LEMMA NextBaseNode ==
    ASSUME BaseInv, Next, NEW m \in Node
    PROVE  BaseNode(m)'
<1>1. TypeOK /\ BaseNode(m)
  BY Zenon DEF BaseInv
<1>2. ASSUME NEW n \in Node, NEW b \in Block, CommitBlock(n, b) PROVE BaseNode(m)'
  <2>1. UNCHANGED <<bft_blocks, latest_final_block, deciding, decided>>
    BY <1>2, Zenon DEF CommitBlock, tfl, engine
  <2>2. CASE m = n
    <3>1. ViewOK(finalized'[m], finalized_tip'[m], chain_set'[m])
      BY <1>1, <1>2, <2>2, CommitView, Zenon DEF BaseNode
    <3> QED BY <1>1, <2>1, <3>1, Zenon DEF BaseNode
  <2>3. CASE m # n
    BY <1>1, <1>2, <2>1, <2>3, SameBase, Zenon DEF CommitBlock, FinalizeBlocks, TypeOK
  <2> QED BY <2>2, <2>3, Zenon
<1>3. ASSUME NEW n \in Node, NEW b \in Block, SetFinality(n, b) PROVE BaseNode(m)'
  BY <1>1, <1>3, SameBase, Zenon DEF SetFinality, TypeOK, pow, engine
<1>4. ASSUME NEW n \in Node, ReadTip(n) \/ Activate(n) PROVE BaseNode(m)'
  BY <1>1, <1>4, SameBase, Zenon DEF ReadTip, Activate, pow, engine
<1>5. ASSUME NEW n \in Node, ProposeTip(n) \/ ProposeHeader(n) \/ ProposeHeaders(n)
      PROVE  BaseNode(m)'
  BY <1>1, <1>5, SameBase, Zenon DEF ProposeTip, ProposeHeader, ProposeHeaders, pow, tfl, engine
<1>6. ASSUME NEW n \in Node, NEW block \in Pending(n), Validate(n, block) PROVE BaseNode(m)'
  BY <1>1, <1>6, SameBase, Zenon DEF Validate, pow, tfl
<1>7. ASSUME NEW n \in Node, NewDecided(n) PROVE BaseNode(m)'
  <2>1. CASE m = n
    BY <1>7, <2>1, NewDecidedBase, Zenon
  <2>2. CASE m # n
    <3>1. /\ bft_blocks'[m] = bft_blocks[m] /\ deciding'[m] = deciding[m]
          /\ latest_final_block'[m] = latest_final_block[m]
      BY <1>1, <1>7, <2>2, NewDecidedOthers, Zenon
    <3>2. UNCHANGED <<chain_set, finalized, finalized_tip, decided>>
      BY <1>7, Zenon DEF NewDecided, pow
    <3> QED BY <1>1, <3>1, <3>2, SameBase, Zenon
  <2> QED BY <2>1, <2>2, Zenon
<1>8. ASSUME NEW n \in Node, FinalizeDecided(n) PROVE BaseNode(m)'
  <2>1. PICK low : /\ low = LowBlocks(chain_set[n], latest_final_block[n])
                   /\ FinalizeBlocks(n, chain_set[n], low)
    BY <1>8, Zenon DEF FinalizeDecided, DecidedBlocks, LowBlocks
  <2>2. /\ deciding[n] /\ deciding' = [deciding EXCEPT ![n] = FALSE]
        /\ UNCHANGED <<latest_final_block, bft_blocks, decided>>
    BY <1>8, Zenon DEF FinalizeDecided, engine
  <2>3. CASE m = n
    <3>1. latest_final_block[n] \in Block /\ ViewOK(finalized[n], finalized_tip[n], chain_set[n])
      BY <1>1, <2>2, <2>3, Zenon DEF BaseNode
    <3>2. /\ finalized'[n] = finalized[n] \cup low
          /\ chain_set'[n] = Remaining(chain_set[n], low)
          /\ finalized_tip'[n] = TipAbove(finalized_tip[n], low) /\ ~deciding'[n]
      BY <1>1, <2>1, <2>2, Zenon DEF FinalizeBlocks, Remaining, TipAbove, TypeOK
    <3>3. ViewOK(finalized'[n], finalized_tip'[n], chain_set'[n])
      <4>1. ViewOK(finalized[n] \cup low, TipAbove(finalized_tip[n], low),
                   Remaining(chain_set[n], low))
        BY <2>1, <3>1, FinalizeKeepsView, Zenon
      <4> QED BY <3>2, <4>1, Zenon
    <3> QED BY <1>1, <2>2, <2>3, <3>2, <3>3, Zenon DEF BaseNode
  <2>4. CASE m # n
    <3>1. /\ chain_set'[m] = chain_set[m] /\ finalized'[m] = finalized[m]
          /\ finalized_tip'[m] = finalized_tip[m] /\ deciding'[m] = deciding[m]
      BY <1>1, <2>1, <2>2, <2>4, Zenon DEF FinalizeBlocks, TypeOK
    <3> QED BY <1>1, <2>2, <3>1, SameBase, Zenon
  <2> QED BY <2>3, <2>4, Zenon
<1>9. ASSUME NEW block \in proposed, Decide(block) PROVE BaseNode(m)'
  <2>1. /\ decided' = Append(decided, block) /\ decided \in Seq(BftBlock)
        /\ bft_blocks[m] \in Seq(BftBlock)
        /\ UNCHANGED <<chain_set, finalized, finalized_tip, latest_final_block, bft_blocks,
                       deciding>>
    BY <1>1, <1>9, Zenon DEF Decide, TypeOK, pow, tfl
  <2>2. Len(bft_blocks[m]) <= Len(decided)
    BY <1>1, Zenon DEF BaseNode
  <2>3. Len(bft_blocks[m]) <= Len(decided')
    BY <2>1, <2>2
  <2>4. \A i \in 1 .. Len(bft_blocks[m]) : decided'[i] = decided[i]
    BY <2>1, <2>2
  <2> QED BY <1>1, <2>1, <2>3, <2>4, Zenon DEF BaseNode
<1> QED BY <1>2, <1>3, <1>4, <1>5, <1>6, <1>7, <1>8, <1>9, Zenon DEF Next

\* The unconditional part is inductive by itself.
LEMMA NextBase == BaseInv /\ [Next]_vars => BaseInv'
<1> SUFFICES ASSUME BaseInv, [Next]_vars PROVE BaseInv'
  BY Zenon
<1>1. CASE Next
  BY <1>1, NextTypeOK, NextBlocks, NextBaseNode, Zenon DEF BaseInv
<1>2. CASE UNCHANGED vars
  <2>1. /\ TypeOK' /\ \A block \in proposed' : block.headers # <<>>
        /\ \A i \in 1 .. Len(decided') : decided'[i].headers # <<>>
    BY <1>2, Zenon DEF BaseInv, TypeOK, vars, pow, tfl, engine
  <2>2. ASSUME NEW n \in Node PROVE BaseNode(n)'
    BY <1>2, SameBase, Zenon DEF BaseInv, vars, pow, tfl, engine
  <2> QED BY <2>1, <2>2, Zenon DEF BaseInv
<1> QED BY <1>1, <1>2, Zenon

-----------------------------------------------------------------------------
(* Finality moves forward, whatever the write tasks finalize and drop.      *)

\* A BFT block that finalizes a block above the one of the decision before it.
Above(block, k) ==
    k > 0 /\ FinalOf(block) # Genesis => Height[FinalOf(block)] > Height[FinalOf(decided[k])]

\* A node compares with its last decision, and keeps to the height that it compared.
ForwardNode(n) ==
    LET k == Len(bft_blocks[n])
    IN  /\ k > 0 => latest_final_block[n] = FinalOf(decided[k])
        /\ proposing[n].step # "idle" /\ k > 0 =>
            proposing[n].height > Height[FinalOf(decided[k])]
        /\ proposing[n].step = "headers" => Height[proposing[n].hash] = proposing[n].height

ForwardInv ==
    requests = 0 =>
        /\ \A n \in Node : ForwardNode(n)
        /\ \A block \in proposed : Above(block, Len(decided))
        /\ \A i \in 2 .. Len(decided) : Above(decided[i], i - 1)

\* The headers of a proposal start above the candidate, or at the genesis block when
\* the candidate has left the best chain.
LEMMA ProposalStart ==
    ASSUME BaseInv, NEW n \in Node, NEW b,
           Len(FindBlockHeaders(MainChain(n), b)) = bc_confirmation_depth_sigma
    PROVE  LET first == Head(FindBlockHeaders(MainChain(n), b))
           IN  first = Genesis \/ (b \in Block /\ Height[first] = Height[b] + 1)
<1> DEFINE main == MainChain(n)
           lo == IF b \in main THEN Height[b] + 1 ELSE 0
           hi == Height[Tip(main)]
           headers == FindBlockHeaders(main, b)
<1>1. /\ main \in SUBSET Block /\ hi \in Nat /\ Genesis \in main /\ headers \in Seq(Block)
      /\ \A h \in 0 .. hi : HashByHeight(main, h) \in main /\ Height[HashByHeight(main, h)] = h
      /\ \A x, y \in main : Height[x] = Height[y] => x = y
  BY ReadsAreBlocks, Zenon
<1>2. lo \in Nat
  BY <1>1, TreeAssumption
<1>3. headers = [i \in 1 .. (hi + 1 - lo) |-> HashByHeight(main, lo + i - 1)]
  BY Zenon DEF FindBlockHeaders, BlocksBetween
<1>4. Len(headers) = bc_confirmation_depth_sigma /\ bc_confirmation_depth_sigma \in Nat \ {0}
  BY CrosslinkAssumption, Zenon
<1> HIDE DEF lo, hi, headers, main
<1>5. 1 \in DOMAIN headers /\ Head(headers) = headers[1]
  BY <1>1, <1>4
<1>6. 1 \in 1 .. (hi + 1 - lo)
  BY <1>3, <1>5, Zenon
<1>7. lo \in 0 .. hi /\ lo + 1 - 1 = lo
  BY <1>1, <1>2, <1>6
<1>8. Head(headers) = HashByHeight(main, lo)
  BY <1>3, <1>5, <1>6, <1>7, Zenon
<1>9. Head(headers) \in main /\ Height[Head(headers)] = lo
  BY <1>1, <1>7, <1>8, Zenon
<1>10. CASE b \in main
  BY <1>1, <1>9, <1>10, Zenon DEF lo, headers, main
<1>11. CASE b \notin main
  <2>1. Height[Head(headers)] = Height[Genesis]
    BY <1>9, <1>11, TreeAssumption, Zenon DEF lo
  <2> QED BY <1>1, <1>9, <2>1, Zenon DEF headers, main
<1> QED BY <1>10, <1>11, Zenon

\* A step that changes nothing of the decisions of a node, nor of its proposal, keeps
\* what is known of them.
LEMMA SameForward ==
    ASSUME NEW n \in Node, ForwardNode(n), decided' = decided,
           bft_blocks'[n] = bft_blocks[n], latest_final_block'[n] = latest_final_block[n],
           proposing'[n] = proposing[n]
    PROVE  ForwardNode(n)'
BY Zenon DEF ForwardNode, FinalOf

\* The block that a decision of a node finalizes is a block of the tree.
LEMMA FinalIsBlock ==
    ASSUME BaseInv, NEW i \in 1 .. Len(decided)
    PROVE  FinalOf(decided[i]) \in Block /\ Height[FinalOf(decided[i])] \in Nat
<1>1. decided[i] \in BftBlock /\ decided[i].headers # <<>>
  <2>1. decided \in Seq(BftBlock)
    BY Zenon DEF BaseInv, TypeOK
  <2>2. decided[i] \in BftBlock
    BY <2>1
  <2> QED BY <2>2, Zenon DEF BaseInv
<1>2. decided[i].headers \in Seq(Block)
  BY <1>1, Zenon DEF BftBlock
<1>3. Head(decided[i].headers) \in Block
  BY <1>1, <1>2
<1> QED BY <1>3, TreeAssumption, Zenon DEF FinalOf

\* The steps of a proposal: the candidate is compared with the last decision, and the
\* block that is read later is at the height that was compared.
LEMMA ProposeForward ==
    ASSUME BaseInv, NEW n \in Node, ForwardNode(n),
           ProposeTip(n) \/ ProposeHeader(n) \/ ProposeHeaders(n)
    PROVE  ForwardNode(n)'
<1> DEFINE k == Len(bft_blocks[n])
<1>1. /\ TypeOK /\ BaseNode(n) /\ UNCHANGED <<decided, bft_blocks, latest_final_block>>
      /\ proposing[n] \in [step : {"idle", "header", "headers"}, height : Nat,
                            hash : Block \cup {NONE}]
  BY Zenon DEF BaseInv, TypeOK, ProposeTip, ProposeHeader, ProposeHeaders, tfl, engine
<1>2. k > 0 => k \in 1 .. Len(decided)
  BY <1>1 DEF BaseNode, TypeOK
<1>3. SUFFICES
        /\ proposing'[n].step # "idle" /\ k > 0 =>
            proposing'[n].height > Height[FinalOf(decided[k])]
        /\ proposing'[n].step = "headers" => Height[proposing'[n].hash] = proposing'[n].height
  <2> HIDE DEF k
  <2>1. Len(bft_blocks'[n]) = k /\ Len(bft_blocks[n]) = k
    BY <1>1, Zenon DEF k
  <2> QED BY <1>1, <1>3, <2>1, Zenon DEF ForwardNode, FinalOf
<1>4. CASE ProposeTip(n)
  <2>1. PICK height : /\ IsImprovedFinal(n, height)
                      /\ proposing' = [proposing EXCEPT ![n] =
                            [step |-> "header", height |-> height, hash |-> NONE]]
    BY <1>4, Zenon DEF ProposeTip
  <2>2. proposing'[n] = [step |-> "header", height |-> height, hash |-> NONE]
    BY <1>1, <2>1, Zenon DEF TypeOK
  <2>3. ASSUME k > 0 PROVE height > Height[FinalOf(decided[k])]
    <3>1. latest_final_block[n] = FinalOf(decided[k])
      BY <2>3, Zenon DEF ForwardNode
    <3>2. FinalOf(decided[k]) # NONE
      BY <1>2, <2>3, FinalIsBlock, CrosslinkAssumption, Zenon
    <3> QED BY <2>1, <3>1, <3>2, Zenon DEF IsImprovedFinal
  <2>4. proposing'[n].step = "header" /\ proposing'[n].height = height
    BY <2>2
  <2>5. proposing'[n].step # "headers"
    BY <2>4
  <2> QED BY <2>3, <2>4, <2>5, Zenon
<1>5. CASE ProposeHeader(n)
  <2> DEFINE h == proposing[n].height
             hash == HashByHeight(MainChain(n), h)
  <2>1. CASE h <= Height[Tip(MainChain(n))]
    <3>1. proposing' = [proposing EXCEPT ![n].step = "headers", ![n].hash = hash]
      BY <1>5, <2>1, Zenon DEF ProposeHeader
    <3>2. Height[hash] = h
      <4>1. h \in 0 .. Height[Tip(MainChain(n))]
        BY <1>1, <2>1, ReadsAreBlocks
      <4> QED BY <4>1, ReadsAreBlocks, Zenon
    <3> HIDE DEF hash
    <3>3. proposing'[n] = [proposing[n] EXCEPT !.step = "headers", !.hash = hash]
      BY <1>1, <3>1, Zenon DEF TypeOK
    <3>4. /\ proposing'[n].height = h /\ proposing'[n].hash = hash
      BY <1>1, <3>3
    <3>5. proposing[n].step # "idle"
      BY <1>5 DEF ProposeHeader
    <3>6. k > 0 => h > Height[FinalOf(decided[k])]
      BY <3>5, Zenon DEF ForwardNode
    <3> QED BY <3>2, <3>4, <3>6, Zenon
  <2>2. CASE ~(h <= Height[Tip(MainChain(n))])
    <3>1. proposing'[n] = Idle
      BY <1>1, <1>5, <2>2, Zenon DEF ProposeHeader, TypeOK
    <3> QED BY <3>1 DEF Idle
  <2> QED BY <2>1, <2>2, Zenon
<1>6. CASE ProposeHeaders(n)
  <2>1. proposing'[n] = Idle
    BY <1>1, <1>6, Zenon DEF ProposeHeaders, TypeOK
  <2> QED BY <2>1 DEF Idle
<1> QED BY <1>4, <1>5, <1>6, Zenon

\* A node that takes a decision is not proposing, and compares with this decision
\* from then on.
LEMMA NewDecidedForward ==
    ASSUME BaseInv, NEW n \in Node, ForwardNode(n), NewDecided(n)
    PROVE  ForwardNode(n)'
<1> DEFINE i == Len(bft_blocks[n]) + 1
<1>1. /\ TypeOK /\ proposing[n] = Idle /\ UNCHANGED <<proposing, decided>>
      /\ \/ /\ bft_blocks' = [bft_blocks EXCEPT ![n] = Append(@, decided[i])]
            /\ latest_final_block' = [latest_final_block EXCEPT ![n] = Head(decided[i].headers)]
         \/ UNCHANGED <<bft_blocks, latest_final_block>>
  BY Zenon DEF BaseInv, NewDecided, EngineFree
<1>2. CASE UNCHANGED <<bft_blocks, latest_final_block>>
  BY <1>1, <1>2, SameForward, Zenon
<1>3. CASE /\ bft_blocks' = [bft_blocks EXCEPT ![n] = Append(@, decided[i])]
           /\ latest_final_block' = [latest_final_block EXCEPT ![n] = Head(decided[i].headers)]
  <2>1. /\ bft_blocks'[n] = Append(bft_blocks[n], decided[i]) /\ bft_blocks[n] \in Seq(BftBlock)
        /\ latest_final_block'[n] = FinalOf(decided[i])
    BY <1>1, <1>3, Zenon DEF TypeOK, FinalOf
  <2>2. Len(bft_blocks'[n]) = i
    BY <2>1
  <2>3. proposing'[n].step = "idle" /\ proposing'[n].step # "headers"
    BY <1>1 DEF Idle
  <2> HIDE DEF i
  <2>4. latest_final_block'[n] = FinalOf(decided'[Len(bft_blocks'[n])])
    BY <1>1, <2>1, <2>2, Zenon
  <2> QED BY <2>3, <2>4, Zenon DEF ForwardNode, FinalOf
<1> QED BY <1>1, <1>2, <1>3, Zenon

\* Until an operator sets finality, every step keeps what is known of each node.
LEMMA NextForwardNode ==
    ASSUME BaseInv, Next, requests' = 0, requests = 0, NEW m \in Node, ForwardNode(m)
    PROVE  ForwardNode(m)'
<1>1. TypeOK /\ BaseNode(m)
  BY Zenon DEF BaseInv
<1>2. ASSUME NEW n \in Node, NEW b \in Block, CommitBlock(n, b) PROVE ForwardNode(m)'
  BY <1>2, SameForward, Zenon DEF CommitBlock, tfl, engine
<1>3. ASSUME NEW n \in Node, NEW b \in Block, SetFinality(n, b) PROVE FALSE
  BY <1>3 DEF SetFinality
<1>4. ASSUME NEW n \in Node, ReadTip(n) \/ Activate(n) \/ FinalizeDecided(n)
      PROVE  ForwardNode(m)'
  BY <1>4, SameForward, Zenon DEF ReadTip, Activate, FinalizeDecided, engine
<1>5. ASSUME NEW n \in Node, ProposeTip(n) \/ ProposeHeader(n) \/ ProposeHeaders(n)
      PROVE  ForwardNode(m)'
  <2>1. CASE m = n
    BY <1>5, <2>1, ProposeForward, Zenon
  <2>2. CASE m # n
    <3>1. UNCHANGED <<decided, bft_blocks, latest_final_block>> /\ proposing'[m] = proposing[m]
      BY <1>1, <1>5, <2>2, Zenon DEF ProposeTip, ProposeHeader, ProposeHeaders, TypeOK, tfl, engine
    <3> QED BY <3>1, SameForward, Zenon
  <2> QED BY <2>1, <2>2, Zenon
<1>6. ASSUME NEW n \in Node, NEW block \in Pending(n), Validate(n, block) PROVE ForwardNode(m)'
  BY <1>6, SameForward, Zenon DEF Validate, tfl
<1>7. ASSUME NEW n \in Node, NewDecided(n) PROVE ForwardNode(m)'
  <2>1. CASE m = n
    BY <1>7, <2>1, NewDecidedForward, Zenon
  <2>2. CASE m # n
    <3>1. bft_blocks'[m] = bft_blocks[m] /\ latest_final_block'[m] = latest_final_block[m]
      BY <1>1, <1>7, <2>2, NewDecidedOthers, Zenon
    <3>2. UNCHANGED <<decided, proposing>>
      BY <1>7, Zenon DEF NewDecided
    <3> QED BY <3>1, <3>2, SameForward, Zenon
  <2> QED BY <2>1, <2>2, Zenon
<1>8. ASSUME NEW block \in proposed, Decide(block) PROVE ForwardNode(m)'
  <2> DEFINE k == Len(bft_blocks[m])
  <2>1. /\ decided' = Append(decided, block) /\ decided \in Seq(BftBlock)
        /\ bft_blocks[m] \in Seq(BftBlock) /\ k <= Len(decided)
        /\ UNCHANGED <<latest_final_block, bft_blocks, proposing>>
    BY <1>1, <1>8, Zenon DEF Decide, BaseNode, TypeOK, tfl
  <2>2. k > 0 => decided'[k] = decided[k]
    BY <2>1
  <2> QED BY <2>1, <2>2, Zenon DEF ForwardNode, FinalOf
<1> QED BY <1>2, <1>3, <1>4, <1>5, <1>6, <1>7, <1>8, Zenon DEF Next

\* Until an operator sets finality, every step keeps the invariant.
LEMMA NextForward == BaseInv /\ ForwardInv /\ [Next]_vars => ForwardInv'
<1> SUFFICES ASSUME BaseInv, ForwardInv, [Next]_vars, requests' = 0
             PROVE  /\ \A n \in Node : ForwardNode(n)'
                    /\ \A block \in proposed' : Above(block, Len(decided))'
                    /\ \A i \in 2 .. Len(decided') : Above(decided[i], i - 1)'
  BY Zenon DEF ForwardInv
<1>1. TypeOK /\ decided \in Seq(BftBlock) /\ requests \in Nat
  BY Zenon DEF BaseInv, TypeOK
<1>2. requests = 0
  <2>1. ASSUME NEW n \in Node, NEW b \in Block, SetFinality(n, b) PROVE FALSE
    BY <1>1, <2>1 DEF SetFinality
  <2>2. Genesis \in Block
    BY TreeAssumption, Zenon
  <2>3. requests' = requests
    BY <2>1, <2>2, Zenon DEF Next, CommitBlock, ReadTip, Activate, ProposeTip, ProposeHeader,
              ProposeHeaders, Validate, NewDecided, FinalizeDecided, Decide, vars
  <2> QED BY <2>3, Zenon
<1>3. /\ \A n \in Node : ForwardNode(n)
      /\ \A block \in proposed : Above(block, Len(decided))
      /\ \A i \in 2 .. Len(decided) : Above(decided[i], i - 1)
  BY <1>2, Zenon DEF ForwardInv
<1>4. ASSUME NEW n \in Node PROVE ForwardNode(n)'
  <2>1. CASE UNCHANGED vars
    BY <1>3, <2>1, SameForward, Zenon DEF vars, tfl, engine
  <2>2. CASE Next
    BY <1>2, <1>3, <2>2, NextForwardNode, Zenon
  <2> QED BY <2>1, <2>2, Zenon
<1>5. ASSUME decided' = decided, NEW block, Above(block, Len(decided))
      PROVE  Above(block, Len(decided))'
  BY <1>5, Zenon DEF Above, FinalOf
<1>6. ASSUME decided' = decided PROVE \A i \in 2 .. Len(decided') : Above(decided[i], i - 1)'
  BY <1>3, <1>6, Zenon DEF Above, FinalOf
<1>7. ASSUME NEW n \in Node, ProposeHeaders(n)
      PROVE  decided' = decided /\ \A block \in proposed' : Above(block, Len(decided))
  <2> DEFINE k == Len(bft_blocks[n])
             headers == FindBlockHeaders(MainChain(n), proposing[n].hash)
             new == [height |-> k + 1, previous_block |-> k, headers |-> headers]
  <2>1. /\ decided' = decided /\ proposing[n].step = "headers"
        /\ proposed' = IF /\ Len(new.headers) = bc_confirmation_depth_sigma
                          /\ new.previous_block = Len(decided)
                       THEN proposed \cup {new} ELSE proposed
    BY <1>7, Zenon DEF ProposeHeaders
  <2>2. new.headers = headers /\ new.previous_block = k
    <3> HIDE DEF headers, k
    <3> QED OBVIOUS
  <2>3. ASSUME Len(headers) = bc_confirmation_depth_sigma, k = Len(decided)
        PROVE  Above(new, Len(decided))
    <3>1. SUFFICES ASSUME k > 0, Head(headers) # Genesis
                   PROVE  Height[Head(headers)] > Height[FinalOf(decided[k])]
      <4> HIDE DEF headers, k, new
      <4> QED BY <2>2, <2>3, <3>1, Zenon DEF Above, FinalOf
    <3>2. proposing[n].step # "idle"
      BY <2>1
    <3>3. /\ proposing[n].height > Height[FinalOf(decided[k])]
          /\ Height[proposing[n].hash] = proposing[n].height
      BY <1>3, <2>1, <3>1, <3>2, Zenon DEF ForwardNode
    <3>4. Height[Head(headers)] = Height[proposing[n].hash] + 1
      BY <2>3, <3>1, ProposalStart, Zenon
    <3>5. k \in 1 .. Len(decided)
      BY <1>1, <2>3, <3>1
    <3>6. Height[FinalOf(decided[k])] \in Nat /\ proposing[n].height \in Nat
      BY <1>1, <3>5, FinalIsBlock, Zenon DEF TypeOK
    <3> QED BY <3>3, <3>4, <3>6
  <2> HIDE DEF headers, k, new
  <2> QED BY <1>3, <2>1, <2>2, <2>3, Zenon
<1>8. ASSUME NEW block \in proposed, Decide(block)
      PROVE  /\ proposed' = {} /\ \A i \in 2 .. Len(decided') : Above(decided[i], i - 1)'
  <2>1. decided' = Append(decided, block) /\ proposed' = {}
    BY <1>8, Zenon DEF Decide
  <2>2. /\ Len(decided') = Len(decided) + 1 /\ decided'[Len(decided) + 1] = block
        /\ \A j \in 1 .. Len(decided) : decided'[j] = decided[j]
        /\ Len(decided) \in Nat
    BY <1>1, <2>1
  <2>3. ASSUME NEW i \in 2 .. Len(decided') PROVE Above(decided[i], i - 1)'
    <3>1. i - 1 \in 1 .. Len(decided)
      BY <2>2
    <3>2. decided'[i - 1] = decided[i - 1]
      BY <2>2, <3>1, Zenon
    <3>3. Above(decided'[i], i - 1)
      <4>1. CASE i = Len(decided) + 1
        <5>1. i - 1 = Len(decided) /\ decided'[i] = block
          BY <2>2, <4>1
        <5> QED BY <1>3, <5>1, Zenon
      <4>2. CASE i # Len(decided) + 1
        <5>1. i \in 1 .. Len(decided) /\ i \in 2 .. Len(decided)
          BY <2>2, <4>2
        <5> QED BY <1>3, <2>2, <5>1, Zenon
      <4> QED BY <4>1, <4>2, Zenon
    <3> QED BY <3>2, <3>3, Zenon DEF Above, FinalOf
  <2> QED BY <2>1, <2>3, Zenon
<1>9. CASE UNCHANGED <<proposed, decided>>
  BY <1>3, <1>4, <1>5, <1>6, <1>9, Zenon
<1>10. CASE \E n \in Node : ProposeHeaders(n)
  BY <1>4, <1>5, <1>6, <1>7, <1>10, Zenon
<1>11. CASE \E block \in proposed : Decide(block)
  BY <1>4, <1>8, <1>11, Zenon
<1> QED BY <1>9, <1>10, <1>11, TreeAssumption, Zenon
        DEF Next, CommitBlock, SetFinality, ReadTip, Activate, ProposeTip, ProposeHeader,
            Validate, NewDecided, FinalizeDecided, vars, engine

\* At the start nothing is proposed or decided.
LEMMA InitForward == Init => ForwardInv
<1> SUFFICES ASSUME Init PROVE ForwardInv
  BY Zenon
<1>1. /\ proposed = {} /\ decided = <<>> /\ Len(decided) = 0
      /\ \A n \in Node : Len(bft_blocks[n]) = 0 /\ proposing[n].step = "idle"
  BY DEF Init, Idle
<1>2. \A n \in Node : ForwardNode(n)
  BY <1>1 DEF ForwardNode
<1> QED BY <1>1, <1>2 DEF ForwardInv

\* Each decision finalizes a higher block than the one before, as long as no operator
\* sets finality and but for proposals that start at the genesis block
\* (FinalityMovesForward): for any nodes, tree of blocks and sigma, whatever changes
\* between the reads of propose_new_bft_block, and also where a write task finalizes
\* past the reorg limit or drops a fork.
THEOREM FinalityIsMonotonic == Spec => []FinalityMovesForward
<1>1. Init => BaseInv /\ ForwardInv
  BY InitIInv, IInvBase, InitForward, Zenon
<1>2. BaseInv /\ ForwardInv /\ [Next]_vars => (BaseInv /\ ForwardInv)'
  BY NextBase, NextForward, Zenon
<1>3. BaseInv /\ ForwardInv => FinalityMovesForward
  <2> SUFFICES ASSUME BaseInv, ForwardInv, requests = 0, NEW i \in 2 .. Len(decided),
                      FinalOf(decided[i]) # Genesis
               PROVE  Height[FinalOf(decided[i])] > Height[FinalOf(decided[i - 1])]
    BY Zenon DEF FinalityMovesForward, BaseInv, FinalOf
  <2>1. Above(decided[i], i - 1) /\ i - 1 > 0
    <3>1. i - 1 > 0
      OBVIOUS
    <3> QED BY <3>1, Zenon DEF ForwardInv
  <2> QED BY <2>1, Zenon DEF Above
<1> QED BY <1>1, <1>2, <1>3, PTL DEF Spec

-----------------------------------------------------------------------------
\* A decision changes nothing of what the nodes have applied.
LEMMA DecideNode ==
    ASSUME IInv, NEW block \in proposed, Decide(block), NEW n \in Node
    PROVE  NodeInv(n)' /\ DecidedFinals(Applied(n))' = DecidedFinals(Applied(n))
<1>1. TypeOK /\ NodeInv(n)
  BY Zenon DEF IInv
<1>2. /\ decided' = Append(decided, block) /\ decided \in Seq(BftBlock)
      /\ UNCHANGED <<chain_set, finalized, finalized_tip, latest_final_block, bft_blocks,
                     deciding, passed>>
  BY <1>1, Zenon DEF Decide, TypeOK, pow, tfl
<1>3. /\ Len(decided') = Len(decided) + 1 /\ Len(decided) \in Nat
      /\ \A i \in 1 .. Len(decided) : decided'[i] = decided[i]
  BY <1>2
<1>4. Len(bft_blocks[n]) \in Nat /\ Len(bft_blocks[n]) <= Len(decided)
  BY Counts, Zenon
<1>5. Applied(n)' = Applied(n) /\ Applied(n) \in 0 .. Len(decided)
  BY <1>2, Counts, Zenon DEF Applied
<1>6. DecidedFinals(Applied(n))' = DecidedFinals(Applied(n))
  <2>1. \A i \in 1 .. Applied(n) : decided'[i] = decided[i]
    BY <1>3, <1>5
  <2>2. DecidedFinals(Applied(n))' = {FinalOf(decided'[i]) : i \in 1 .. Applied(n)}
    BY <1>5, Zenon DEF DecidedFinals
  <2> QED BY <2>1, <2>2, Zenon DEF DecidedFinals
<1>7. \A i \in 1 .. Len(bft_blocks[n]) : bft_blocks'[n][i] = decided'[i]
  <2>1. \A i \in 1 .. Len(bft_blocks[n]) : i \in 1 .. Len(decided)
    BY <1>3, <1>4
  <2> QED BY <1>1, <1>2, <1>3, <2>1, Zenon DEF NodeInv
<1>8. deciding[n] => latest_final_block[n] = FinalOf(decided'[Len(bft_blocks[n])])
  <2>1. deciding[n] => Len(bft_blocks[n]) \in 1 .. Len(decided)
    BY <1>1, <1>3, <1>4 DEF NodeInv
  <2> QED BY <1>1, <1>3, <2>1, Zenon DEF NodeInv
<1>9. Len(bft_blocks[n]) <= Len(decided')
  BY <1>3, <1>4
<1> QED BY <1>1, <1>2, <1>5, <1>6, <1>7, <1>8, <1>9, Zenon DEF NodeInv, Known

\* What a node validates it knows.
LEMMA ValidateNode ==
    ASSUME IInv, NEW n \in Node, NEW block \in Pending(n), Validate(n, block)
    PROVE  NodeInv(n)'
<1>1. TypeOK /\ NodeInv(n) /\ ~deciding[n] /\ Validates(n, block)
  BY Zenon DEF IInv, Validate, EngineFree
<1>2. /\ passed' = [passed EXCEPT ![n] = @ \cup {block}]
      /\ UNCHANGED <<chain_set, finalized, finalized_tip, latest_final_block, bft_blocks,
                     deciding, decided>>
  BY Zenon DEF Validate, pow, tfl
<1>3. passed'[n] = passed[n] \cup {block}
  BY <1>1, <1>2, Zenon DEF TypeOK
<1>4. block.headers # <<>>
  <2>1. \A i \in DOMAIN decided : i \in 1 .. Len(decided)
    BY <1>1 DEF TypeOK
  <2> QED BY <2>1, Zenon DEF Pending, IInv
<1>5. block.previous_block = Len(bft_blocks[n]) /\ Known(n, FinalOf(block))
  BY <1>1, Zenon DEF Validates, FinalOf
<1>6. Applied(n)' = Applied(n) /\ DecidedFinals(Applied(n))' = DecidedFinals(Applied(n))
  BY <1>2, Zenon DEF Applied, DecidedFinals
<1> QED BY <1>1, <1>2, <1>3, <1>4, <1>5, <1>6, Zenon DEF NodeInv, Known

\* Every step, of the node itself or of another one, keeps the invariant of a node.
LEMMA NextNodeInv ==
    ASSUME IInv, Next, AllCommitsAdd, NEW m \in Node
    PROVE  NodeInv(m)'
<1>1. TypeOK /\ NodeInv(m)
  BY Zenon DEF IInv
<1>2. ASSUME NEW n \in Node, NEW b \in Block, CommitBlock(n, b) PROVE NodeInv(m)'
  <2>1. CASE m = n
    BY <1>2, <2>1, CommitNode, Zenon
  <2>2. CASE m # n
    BY <1>1, <1>2, <2>2, SameNode, Zenon DEF CommitBlock, FinalizeBlocks, TypeOK, tfl, engine
  <2> QED BY <2>1, <2>2, Zenon
<1>3. ASSUME NEW n \in Node, NEW b \in Block, SetFinality(n, b) PROVE NodeInv(m)'
  BY <1>1, <1>3, SameNode, Zenon DEF SetFinality, TypeOK, pow, engine
<1>4. ASSUME NEW n \in Node, ReadTip(n) \/ Activate(n) PROVE NodeInv(m)'
  BY <1>1, <1>4, SameNode, Zenon DEF ReadTip, Activate, pow, engine
<1>5. ASSUME NEW n \in Node, ProposeTip(n) \/ ProposeHeader(n) \/ ProposeHeaders(n)
      PROVE  NodeInv(m)'
  BY <1>1, <1>5, SameNode, Zenon DEF ProposeTip, ProposeHeader, ProposeHeaders, pow, tfl, engine
<1>6. ASSUME NEW n \in Node, NEW block \in Pending(n), Validate(n, block) PROVE NodeInv(m)'
  <2>1. CASE m = n
    BY <1>6, <2>1, ValidateNode, Zenon
  <2>2. CASE m # n
    BY <1>1, <1>6, <2>2, SameNode, Zenon DEF Validate, TypeOK, pow, tfl
  <2> QED BY <2>1, <2>2, Zenon
<1>7. ASSUME NEW n \in Node, NewDecided(n) PROVE NodeInv(m)'
  <2>1. CASE m = n
    BY <1>7, <2>1, NewDecidedNode, Zenon
  <2>2. CASE m # n
    <3>1. /\ passed'[m] = passed[m] /\ bft_blocks'[m] = bft_blocks[m]
          /\ deciding'[m] = deciding[m] /\ latest_final_block'[m] = latest_final_block[m]
      BY <1>1, <1>7, <2>2, NewDecidedOthers, Zenon
    <3>2. UNCHANGED <<chain_set, finalized, finalized_tip, decided>>
      BY <1>7, Zenon DEF NewDecided, pow
    <3> QED BY <1>1, <3>1, <3>2, SameNode, Zenon
  <2> QED BY <2>1, <2>2, Zenon
<1>8. ASSUME NEW n \in Node, FinalizeDecided(n) PROVE NodeInv(m)'
  <2>1. CASE m = n
    BY <1>8, <2>1, FinalizeDecidedNode, Zenon
  <2>2. CASE m # n
    <3>1. PICK low : FinalizeBlocks(n, chain_set[n], low)
      BY <1>8, Zenon DEF FinalizeDecided
    <3>2. /\ chain_set'[m] = chain_set[m] /\ finalized'[m] = finalized[m]
          /\ finalized_tip'[m] = finalized_tip[m]
      BY <1>1, <2>2, <3>1, Zenon DEF FinalizeBlocks, TypeOK
    <3>3. /\ deciding'[m] = deciding[m]
          /\ UNCHANGED <<latest_final_block, bft_blocks, passed, decided>>
      BY <1>1, <1>8, <2>2, Zenon DEF FinalizeDecided, TypeOK, engine
    <3> QED BY <1>1, <3>2, <3>3, SameNode, Zenon
  <2> QED BY <2>1, <2>2, Zenon
<1>9. ASSUME NEW block \in proposed, Decide(block) PROVE NodeInv(m)'
  BY <1>9, DecideNode, Zenon
<1> QED BY <1>2, <1>3, <1>4, <1>5, <1>6, <1>7, <1>8, <1>9, Zenon DEF Next

\* Every step keeps the invariant.
LEMMA NextIInv == IInv /\ [Next /\ AllCommitsAdd]_vars => IInv'
<1> SUFFICES ASSUME IInv, [Next /\ AllCommitsAdd]_vars PROVE IInv'
  BY Zenon
<1>1. CASE Next /\ AllCommitsAdd
  BY <1>1, IInvBase, NextTypeOK, NextBlocks, NextNodeInv, Zenon DEF IInv
<1>2. CASE UNCHANGED vars
  <2>1. /\ TypeOK' /\ \A block \in proposed' : block.headers # <<>>
        /\ \A i \in 1 .. Len(decided') : decided'[i].headers # <<>>
    BY <1>2, Zenon DEF IInv, TypeOK, vars, pow, tfl, engine
  <2>2. ASSUME NEW n \in Node PROVE NodeInv(n)'
    BY <1>2, SameNode, Zenon DEF IInv, vars, pow, tfl, engine
  <2> QED BY <2>1, <2>2, Zenon DEF IInv
<1> QED BY <1>1, <1>2, Zenon

-----------------------------------------------------------------------------
\* A node that has applied more decisions has finalized at least as much.
LEMMA DatabasesAreOrdered ==
    ASSUME IInv, NEW m \in Node, NEW n \in Node
    PROVE  finalized[m] \subseteq finalized[n] \/ finalized[n] \subseteq finalized[m]
<1>1. ASSUME NEW p \in Node, NEW q \in Node, Applied(p) <= Applied(q)
      PROVE  finalized[p] \subseteq finalized[q]
  <2>1. NodeInv(p) /\ NodeInv(q) /\ Applied(p) \in Int /\ Applied(q) \in Int
    BY DEF IInv, Applied, TypeOK
  <2>2. DecidedFinals(Applied(p)) \subseteq DecidedFinals(Applied(q))
    <3>1. 1 .. Applied(p) \subseteq 1 .. Applied(q)
      BY <1>1, <2>1
    <3> QED BY <3>1, Zenon DEF DecidedFinals
  <2>3. finalized_tip[p] \in finalized[q]
    BY <2>1, <2>2, Zenon DEF NodeInv, ViewOK
  <2> QED BY <2>1, <2>3, DatabasesNest, Zenon DEF NodeInv
<1>2. Applied(m) \in Int /\ Applied(n) \in Int
  BY DEF IInv, Applied, TypeOK
<1> QED BY <1>1, <1>2

\* The finalized blocks of a node are one chain.
LEMMA DatabaseIsChain ==
    ASSUME NEW fin, NEW tip, NEW cs, ViewOK(fin, tip, cs)
    PROVE  IsChain(fin)
<1>1. /\ fin \in SUBSET Block /\ Genesis \in fin /\ ExtendsBlock(fin \ {Genesis}, Genesis)
      /\ \A x \in fin : Height[x] <= Height[tip]
  BY Zenon DEF ViewOK
<1>2. Height[tip] \in Nat /\ \A x \in Block : Height[x] \in Nat
  BY TreeAssumption, Zenon DEF ViewOK
<1>3. Bounded(fin)
  BY <1>1, <1>2, Zenon DEF Bounded
<1>4. \A x, y \in fin : Height[x] = Height[y] => x = y
  BY <1>1, <1>3, MainHasHeights, Zenon
<1>5. \A x \in fin \ {Genesis} : Parent[x] \in fin
  BY <1>1, Zenon DEF ExtendsBlock
<1> QED BY <1>4, <1>5, Zenon DEF IsChain

\* The invariant implies that nodes agree on what is final.
LEMMA IInvAgrees == IInv => NodesAgreeOnFinality
<1> SUFFICES ASSUME IInv, NEW m \in Node, NEW n \in Node
             PROVE  IsChain(finalized[m] \cup finalized[n])
  BY Zenon DEF NodesAgreeOnFinality
<1>1. IsChain(finalized[m]) /\ IsChain(finalized[n])
  BY DatabaseIsChain, Zenon DEF IInv, NodeInv
<1>2. \/ finalized[m] \cup finalized[n] = finalized[n]
      \/ finalized[m] \cup finalized[n] = finalized[m]
  BY DatabasesAreOrdered, Zenon
<1> QED BY <1>1, <1>2, Zenon

\* The invariant implies that what was decided is finalized.
LEMMA IInvDecided == IInv => DecidedIsFinalized
<1> SUFFICES ASSUME IInv, NEW n \in Node, ~deciding[n] PROVE Finals(n) \subseteq finalized[n]
  BY Zenon DEF DecidedIsFinalized
<1>1. NodeInv(n) /\ TypeOK
  BY Zenon DEF IInv
<1>2. Finals(n) \subseteq DecidedFinals(Applied(n))
  <2>1. DOMAIN bft_blocks[n] = 1 .. Len(bft_blocks[n])
    BY <1>1 DEF TypeOK
  <2> QED BY <1>1, <2>1, Zenon DEF Finals, DecidedFinals, Applied, FinalOf, NodeInv
<1> QED BY <1>1, <1>2, Zenon DEF NodeInv

\* The invariant holds as long as commits only add blocks.
LEMMA Invariance == Spec /\ CommitsOnlyAdd => []IInv
BY InitIInv, NextIInv, PTL DEF Spec, CommitsOnlyAdd

\* The nodes never finalize conflicting blocks (NodesAgreeOnFinality), whatever
\* forks each of them knows, whoever proposes and however the decisions, the
\* commits and the requests of an operator interleave, as long as no database is
\* written by the reorg limit and no fork is dropped.
THEOREM NodesAgree == Spec /\ CommitsOnlyAdd => []NodesAgreeOnFinality
BY Invariance, IInvAgrees, PTL

\* Once a decision is applied its block is in the database (DecidedIsFinalized).
THEOREM DecisionsAreFinalized == Spec /\ CommitsOnlyAdd => []DecidedIsFinalized
BY Invariance, IInvDecided, PTL

-----------------------------------------------------------------------------
\* What the finality log calls confirmed, and all databases together.
Confirmed == [n \in Node |->
    {Head(bft_blocks[n][i].headers) :
        i \in {j \in DOMAIN bft_blocks[n] : deciding[n] => j < Len(bft_blocks[n])}}]

ConfirmedIsDecided == \A n \in Node : Confirmed[n] = DecidedFinals(Applied(n))

DatabasesAreOneChain ==
    Node # {} => Log!IsOneChain(UNION {finalized[n] : n \in Node})

\* Confirmed are the decisions a node has applied.
LEMMA ConfirmedIsApplied == IInv => ConfirmedIsDecided
<1> SUFFICES ASSUME IInv, NEW n \in Node PROVE Confirmed[n] = DecidedFinals(Applied(n))
  BY Zenon DEF ConfirmedIsDecided
<1>4. TypeOK /\ NodeInv(n)
  BY Zenon DEF IInv
<1> DEFINE J == {j \in DOMAIN bft_blocks[n] : deciding[n] => j < Len(bft_blocks[n])}
<1>1. J = 1 .. Applied(n) /\ 1 .. Applied(n) \subseteq 1 .. Len(bft_blocks[n])
  <2>1. DOMAIN bft_blocks[n] = 1 .. Len(bft_blocks[n]) /\ Len(bft_blocks[n]) \in Nat
    BY <1>4 DEF TypeOK
  <2>2. deciding[n] \in BOOLEAN
    BY <1>4, Zenon DEF TypeOK
  <2>3. CASE deciding[n]
    BY <2>1, <2>3 DEF Applied
  <2>4. CASE ~deciding[n]
    BY <2>1, <2>4, Zenon DEF Applied
  <2> QED BY <2>3, <2>4, Zenon
<1>2. \A i \in 1 .. Applied(n) : bft_blocks[n][i] = decided[i]
  BY <1>1, <1>4, Zenon DEF NodeInv
<1> HIDE DEF J
<1>3. {Head(bft_blocks[n][i].headers) : i \in J} = DecidedFinals(Applied(n))
  BY <1>1, <1>2, Zenon DEF DecidedFinals, FinalOf
<1> QED BY <1>3, Zenon DEF J, Confirmed

\* The finalized blocks of all nodes together are one chain.
LEMMA AllDatabasesAreOneChain == IInv => DatabasesAreOneChain
<1> SUFFICES ASSUME IInv, Node # {} PROVE Log!IsOneChain(UNION {finalized[n] : n \in Node})
  BY Zenon DEF DatabasesAreOneChain
<1> DEFINE bs == UNION {finalized[n] : n \in Node}
<1>1. \A n \in Node : ViewOK(finalized[n], finalized_tip[n], chain_set[n])
  BY Zenon DEF IInv, NodeInv
<1>2. Genesis \in bs /\ bs \subseteq Block
  BY <1>1, Zenon DEF ViewOK
<1>3. ASSUME NEW b \in bs \ {Genesis} PROVE Parent[b] \in bs
  <2>1. PICK n \in Node : b \in finalized[n]
    BY Zenon
  <2>2. Parent[b] \in finalized[n]
    BY <1>1, <1>3, <2>1 DEF ViewOK, ExtendsBlock
  <2> QED BY <2>2, Zenon
<1>4. ASSUME NEW a \in bs \ {Genesis}, NEW b \in bs \ {Genesis}, Parent[a] = Parent[b]
      PROVE  a = b
  <2>1. PICK m \in Node : a \in finalized[m]
    BY Zenon
  <2>2. PICK n \in Node : b \in finalized[n]
    BY Zenon
  <2>3. Height[a] = Height[b]
    BY <1>2, <1>4, TreeAssumption, Zenon
  <2>4. IsChain(finalized[m] \cup finalized[n])
    BY IInvAgrees, Zenon DEF NodesAgreeOnFinality
  <2> QED BY <2>1, <2>2, <2>3, <2>4, Zenon DEF IsChain
<1> QED BY <1>2, <1>3, <1>4, Zenon DEF Log!IsOneChain

\* The nodes together implement the finality log: each database only grows, all of
\* them stay prefixes of one chain, and a decision is confirmed only when its block
\* is stored (ImplementsFinalityLog).
THEOREM NodesImplementFinalityLog == Spec /\ CommitsOnlyAdd => ImplementsFinalityLog
<1>1. Init => Log!Init
  <2> SUFFICES ASSUME Init PROVE Log!Init
    BY Zenon
  <2>1. \A n \in Node : DOMAIN bft_blocks[n] = {}
    BY DEF Init
  <2>2. Confirmed = [n \in Node |-> {}]
    BY <2>1, Zenon DEF Confirmed
  <2> QED BY <2>2, Zenon DEF Log!Init, Init, Confirmed
<1>3. IInv' => ConfirmedIsDecided' /\ DatabasesAreOneChain'
  BY ConfirmedIsApplied, AllDatabasesAreOneChain, PTL
<1>2. ASSUME IInv, IInv', [Next /\ AllCommitsAdd]_vars
      PROVE  [Log!Next]_<<finalized, Confirmed>>
  <2>1. \A n \in Node : Confirmed[n] = DecidedFinals(Applied(n))
    BY <1>2, ConfirmedIsApplied, Zenon DEF ConfirmedIsDecided
  <2>2. \A n \in Node : Confirmed'[n] = DecidedFinals(Applied(n))'
    BY <1>2, <1>3, Zenon DEF ConfirmedIsDecided
  <2>3. Confirmed = [n \in Node |-> Confirmed[n]] /\ Confirmed' = [n \in Node |-> Confirmed'[n]]
    BY Zenon DEF Confirmed
  <2>4. ASSUME NEW n \in Node, FinalizeDecided(n) PROVE Log!Next
    <3>1. ASSUME NEW q \in Node, q # n
          PROVE  finalized'[q] = finalized[q] /\ Confirmed'[q] = Confirmed[q]
      <4>1. /\ finalized'[q] = finalized[q] /\ deciding'[q] = deciding[q]
            /\ UNCHANGED <<bft_blocks, decided>>
        BY <1>2, <2>4, <3>1 DEF FinalizeDecided, FinalizeBlocks, IInv, TypeOK, engine
      <4>2. DecidedFinals(Applied(q))' = DecidedFinals(Applied(q))
        BY <4>1, Zenon DEF DecidedFinals, Applied
      <4> QED BY <2>1, <2>2, <4>1, <4>2, Zenon
    <3>2. finalized[n] \subseteq finalized'[n]
      BY <1>2, <2>4 DEF FinalizeDecided, FinalizeBlocks, IInv, TypeOK
    <3>3. Confirmed'[n] \subseteq finalized'[n]
      BY <1>2, <2>2, Zenon DEF IInv, NodeInv
    <3>4. Confirmed[n] \subseteq Confirmed'[n]
      <4>1. /\ Len(bft_blocks[n]) \in Nat /\ deciding[n] /\ ~deciding'[n]
            /\ UNCHANGED <<bft_blocks, decided>>
        <5>1. deciding[n] /\ deciding' = [deciding EXCEPT ![n] = FALSE]
                 /\ UNCHANGED <<bft_blocks, decided>>
          BY <2>4, Zenon DEF FinalizeDecided, engine
        <5>2. deciding \in [Node -> BOOLEAN]
          BY <1>2, Zenon DEF IInv, TypeOK
        <5>3. ~deciding'[n]
          BY <5>1, <5>2, Zenon
        <5> QED BY <1>2, <5>1, <5>3, Counts, Zenon
      <4>2. /\ Applied(n) = Len(bft_blocks[n]) - 1 /\ Applied(n)' = Len(bft_blocks[n])
            /\ DecidedFinals(Applied(n))' = DecidedFinals(Len(bft_blocks[n]))
        BY <4>1, Zenon DEF Applied, DecidedFinals
      <4>3. 1 .. (Len(bft_blocks[n]) - 1) \subseteq 1 .. Len(bft_blocks[n])
        BY <4>1
      <4>4. DecidedFinals(Len(bft_blocks[n]) - 1) \subseteq DecidedFinals(Len(bft_blocks[n]))
        BY <4>3, Zenon DEF DecidedFinals
      <4> QED BY <2>1, <2>2, <4>2, <4>4, Zenon
    <3>5. Log!IsOneChain(UNION {finalized'[q] : q \in Node})
      BY <1>2, <1>3, Zenon DEF DatabasesAreOneChain
    <3>6. Log!Advance(n)
      BY <3>1, <3>2, <3>3, <3>4, <3>5, Zenon DEF Log!Advance, Confirmed
    <3> QED BY <3>6, Zenon DEF Log!Next
  <2>5. ASSUME UNCHANGED finalized, \A n \in Node : UNCHANGED DecidedFinals(Applied(n))
        PROVE  UNCHANGED <<finalized, Confirmed>>
    BY <2>1, <2>2, <2>3, <2>5, Zenon
  <2>6. ASSUME NEW n \in Node, NEW b \in Block, CommitBlock(n, b), CommitAdds(n, b)
        PROVE  UNCHANGED <<finalized, bft_blocks, deciding, decided>>
    <3>1. PICK low : finalized' = [finalized EXCEPT ![n] = @ \cup low]
      BY <2>6, Zenon DEF CommitBlock, FinalizeBlocks
    <3>2. finalized'[n] = finalized[n]
      BY <2>6, Zenon DEF CommitAdds
    <3>3. finalized' = finalized
      BY <1>2, <3>1, <3>2, Zenon DEF IInv, TypeOK
    <3> QED BY <2>6, <3>3, Zenon DEF CommitBlock, tfl, engine
  <2>7. ASSUME NEW n \in Node, NEW b \in Block,
               SetFinality(n, b) \/ ReadTip(n) \/ Activate(n) \/ ProposeTip(n)
                 \/ ProposeHeader(n) \/ ProposeHeaders(n)
        PROVE  UNCHANGED <<finalized, bft_blocks, deciding, decided>>
    BY <2>7, Zenon DEF SetFinality, ReadTip, Activate, ProposeTip, ProposeHeader, ProposeHeaders,
                pow, tfl, engine
  <2>8. ASSUME NEW n \in Node, NEW block \in Pending(n), Validate(n, block)
        PROVE  UNCHANGED <<finalized, bft_blocks, deciding, decided>>
    BY <2>8, Zenon DEF Validate, pow, tfl
  <2>9. ASSUME UNCHANGED <<finalized, bft_blocks, deciding, decided>>
        PROVE  UNCHANGED <<finalized, Confirmed>>
    BY <2>5, <2>9, Zenon DEF DecidedFinals, Applied
  <2>10. ASSUME NEW block \in proposed, Decide(block) PROVE UNCHANGED <<finalized, Confirmed>>
    <3>1. finalized' = finalized
      BY <2>10, Zenon DEF Decide, pow
    <3> QED BY <1>2, <2>5, <2>10, <3>1, DecideNode, Zenon
  <2>11. ASSUME NEW n \in Node, NewDecided(n) PROVE UNCHANGED <<finalized, Confirmed>>
    <3>1. UNCHANGED <<finalized, decided>>
      BY <2>11, Zenon DEF NewDecided, pow
    <3>2. ASSUME NEW m \in Node, m # n PROVE UNCHANGED DecidedFinals(Applied(m))
      <4>1. bft_blocks'[m] = bft_blocks[m] /\ deciding'[m] = deciding[m]
        BY <1>2, <2>11, <3>2, NewDecidedOthers, Zenon DEF IInv
      <4> QED BY <3>1, <4>1, Zenon DEF DecidedFinals, Applied
    <3> QED BY <1>2, <2>5, <2>11, <3>1, <3>2, NewDecidedNode, Zenon
  <2>12. CASE UNCHANGED vars
    BY <2>9, <2>12, Zenon DEF vars, pow, tfl, engine
  <2>13. CASE Next /\ AllCommitsAdd
    <3>1. Genesis \in Block
      BY TreeAssumption, Zenon
    <3> QED BY <2>4, <2>6, <2>7, <2>8, <2>9, <2>10, <2>11, <2>13, <3>1, ZenonT(60) DEF Next, AllCommitsAdd
  <2> QED BY <1>2, <2>12, <2>13, Zenon
<1> QED BY <1>1, <1>2, Invariance, PTL DEF Spec, CommitsOnlyAdd, ImplementsFinalityLog, Log!Spec,
  Confirmed

-----------------------------------------------------------------------------
(* The rewarded blocks are a function of the decisions alone.              *)

\* The chain from the genesis block to b.
PathTo(b) == CHOOSE p \in SUBSET Block : ViewOK(p, b, {})

\* What a node rewards and broadcasts when final follows prev.
Rewards(prev, final) ==
    NewlyFinal(BlockSequence(PathTo(final), IF prev = NONE THEN final ELSE prev, final), prev)

\* The block the decision k finalizes, if there is one.
FinalAt(k) == IF k = 0 THEN NONE ELSE FinalOf(decided[k])

\* R gives what every node has rewarded after k decisions.
IsHistory(R) ==
    /\ R = [k \in Nat |-> R[k]]
    /\ \A k \in 1 .. Len(decided) : R[k] = R[k - 1] \o Rewards(FinalAt(k - 1), FinalAt(k))
    /\ \A n \in Node : /\ final_changes[n] = R[Applied(n)]
                       /\ current_bc_final[n] = FinalAt(Applied(n))

RosterInv == \E R : IsHistory(R)

\* Whatever chain a node reads, the blocks up to a block in it are the same.
LEMMA RewardsOfMain ==
    ASSUME NEW main \in SUBSET Block, Genesis \in main, Bounded(main),
           ExtendsBlock(main \ {Genesis}, Genesis), NEW final \in main, NEW start
    PROVE  BlockSequence(main, start, final) = BlockSequence(PathTo(final), start, final)
<1> DEFINE p == {x \in main : Height[x] <= Height[final]}
           path == PathTo(final)
<1>1. (\A x \in Block : Height[x] \in Nat) /\ Height[Genesis] = 0 /\ Genesis \in Block
  BY TreeAssumption, Zenon
<1>2. /\ \A x, y \in main : Height[x] = Height[y] => x = y
      /\ \A x \in main \ {Genesis} : Height[x] > 0 /\ Parent[x] \in main
  BY <1>1, MainHasHeights, Zenon DEF ExtendsBlock
<1>3. ViewOK(p, final, {})
  <2>1. p \in SUBSET Block /\ Genesis \in p /\ final \in p
    BY <1>1
  <2>2. ASSUME NEW x \in p \ {Genesis} PROVE Height[x] > Height[Genesis] /\ Parent[x] \in p
    <3>1. Height[x] > 0 /\ Parent[x] \in main /\ Height[x] <= Height[final]
      BY <1>2, Zenon
    <3>2. Height[x] = Height[Parent[x]] + 1 /\ Height[Parent[x]] \in Nat
      BY <1>1, <3>1, ParentHeight, Zenon
    <3> QED BY <1>1, <3>1, <3>2
  <2>3. ExtendsBlock(p \ {Genesis}, Genesis)
    BY <1>2, <2>2, Zenon DEF ExtendsBlock
  <2> HIDE DEF p
  <2>4. \A x \in p : Height[x] <= Height[final]
    BY Zenon DEF p
  <2> QED BY <2>1, <2>3, <2>4, FS_EmptySet, Zenon DEF ViewOK, ChainsOK
<1>4. p \in SUBSET Block
  BY Zenon
<1>5. ViewOK(path, final, {})
  <2> HIDE DEF p
  <2> QED BY <1>3, <1>4, Zenon DEF PathTo
<1>6. path = p
  <2> HIDE DEF p, path
  <2>1. final \in path /\ final \in p
    BY <1>3, <1>5, Zenon DEF ViewOK
  <2>2. path \subseteq p /\ p \subseteq path
    BY <1>3, <1>5, <2>1, DatabasesNest, Zenon
  <2> QED BY <2>2, Zenon
<1> HIDE DEF path
<1>7. CASE start \notin main \/ Height[final] < Height[start]
  <2>1. start \notin path \/ Height[final] < Height[start]
    BY <1>6, <1>7, Zenon
  <2> QED BY <1>7, <2>1, Zenon DEF BlockSequence, path
<1>8. CASE start \in main /\ ~(Height[final] < Height[start])
  <2>1. start \in path /\ final \in path
    BY <1>1, <1>6, <1>8
  <2>2. /\ BlockSequence(main, start, final) = BlocksBetween(main, Height[start], Height[final])
        /\ BlockSequence(path, start, final) = BlocksBetween(path, Height[start], Height[final])
    BY <1>8, <2>1, Zenon DEF BlockSequence
  <2>3. ASSUME NEW h \in 0 .. Height[final] PROVE HashByHeight(main, h) = HashByHeight(path, h)
    <3>1. h \in 0 .. Height[Tip(main)]
      BY <1>1, MainHasHeights
    <3>2. HashByHeight(main, h) \in main /\ Height[HashByHeight(main, h)] = h
      BY <3>1, MainHasHeights, Zenon
    <3>3. HashByHeight(main, h) \in path
      BY <1>6, <3>2
    <3>4. HashByHeight(path, h) \in path /\ Height[HashByHeight(path, h)] = h
      BY <3>2, <3>3, Zenon DEF HashByHeight
    <3>5. HashByHeight(path, h) \in main
      BY <1>6, <3>4, Zenon
    <3> QED BY <1>2, <3>2, <3>4, <3>5, Zenon
  <2>4. \A i \in 1 .. (Height[final] + 1 - Height[start]) :
            Height[start] + i - 1 \in 0 .. Height[final]
    BY <1>1, <1>8
  <2>5. BlocksBetween(main, Height[start], Height[final])
            = BlocksBetween(path, Height[start], Height[final])
    BY <2>3, <2>4, Zenon DEF BlocksBetween
  <2> QED BY <2>2, <2>5, Zenon DEF path
<1> QED BY <1>7, <1>8, Zenon

\* A step that neither decides nor applies a decision keeps the history.
LEMMA SameHistory ==
    ASSUME RosterInv, UNCHANGED <<decided, final_changes, current_bc_final>>,
           \A n \in Node : Applied(n)' = Applied(n)
    PROVE  RosterInv'
<1>1. PICK R : IsHistory(R)
  BY Zenon DEF RosterInv
<1>2. \A k : FinalAt(k)' = FinalAt(k)
  BY Zenon DEF FinalAt
<1>3. IsHistory(R)'
  BY <1>1, <1>2, Zenon DEF IsHistory
<1> QED BY <1>3, Zenon DEF RosterInv

\* A decision adds what it will reward.
LEMMA DecideHistory ==
    ASSUME IInv, RosterInv, NEW block \in proposed, Decide(block)
    PROVE  RosterInv'
<1> DEFINE l == Len(decided)
<1>1. /\ decided' = Append(decided, block) /\ decided \in Seq(BftBlock) /\ l \in Nat
      /\ UNCHANGED <<bft_blocks, deciding, final_changes, current_bc_final>>
  <2>1. decided \in Seq(BftBlock)
    BY Zenon DEF IInv, TypeOK
  <2>2. l \in Nat
    BY <2>1
  <2> QED BY <2>1, <2>2, Zenon DEF Decide, tfl
<1>2. /\ Len(decided') = l + 1
      /\ \A k \in 1 .. l : decided'[k] = decided[k]
  BY <1>1
<1>3. \A n \in Node : Applied(n) \in 0 .. l
  BY Counts, Zenon
<1>4. \A k \in 0 .. l : FinalAt(k)' = FinalAt(k)
  <2>1. \A k \in 0 .. l : k = 0 \/ k \in 1 .. l
    BY <1>1
  <2> QED BY <1>2, <2>1, Zenon DEF FinalAt
<1>5. PICK R : IsHistory(R)
  BY Zenon DEF RosterInv
<1> DEFINE new == R[l] \o Rewards(FinalAt(l), FinalOf(block))
<1> HIDE DEF new
<1>6. R = [k \in Nat |-> R[k]]
  BY <1>5, Zenon DEF IsHistory
<1>7. PICK S : S = [k \in Nat |-> IF k = l + 1 THEN new ELSE R[k]]
  BY Zenon
<1>11. S = [k \in Nat |-> S[k]] /\ S[l + 1] = new /\ \A k \in 0 .. l : S[k] = R[k]
  <2>1. S = [k \in Nat |-> S[k]]
    BY <1>7, Zenon
  <2>2. l + 1 \in Nat /\ \A k \in 0 .. l : k \in Nat /\ k # l + 1
    BY <1>1
  <2> QED BY <1>7, <2>1, <2>2, Zenon
<1>8. ASSUME NEW k \in 1 .. (l + 1)
      PROVE  S[k] = S[k - 1] \o Rewards(FinalAt(k - 1)', FinalAt(k)')
  <2>1. CASE k = l + 1
    <3>1. k - 1 = l /\ l \in 0 .. l
      BY <1>1, <2>1
    <3>2. S[k - 1] = R[l] /\ FinalAt(k - 1)' = FinalAt(l)
      BY <1>4, <1>11, <3>1, Zenon
    <3>3. FinalAt(k)' = FinalOf(block)
      <4>1. decided'[k] = block /\ k # 0
        BY <1>1, <2>1
      <4> QED BY <4>1, Zenon DEF FinalAt
    <3> QED BY <1>11, <2>1, <3>2, <3>3, Zenon DEF new
  <2>2. CASE k # l + 1
    <3>1. k \in 1 .. l /\ k \in 0 .. l /\ k - 1 \in 0 .. l
      BY <1>1, <2>2
    <3>2. R[k] = R[k - 1] \o Rewards(FinalAt(k - 1), FinalAt(k))
      BY <1>5, <3>1, Zenon DEF IsHistory
    <3> QED BY <1>4, <1>11, <3>1, <3>2, Zenon
  <2> QED BY <2>1, <2>2, Zenon
<1>9. ASSUME NEW n \in Node
      PROVE  /\ final_changes'[n] = S[Applied(n)'] /\ current_bc_final'[n] = FinalAt(Applied(n))'
  <2>1. Applied(n)' = Applied(n)
    BY <1>1, Zenon DEF Applied
  <2>2. FinalAt(Applied(n))' = FinalAt(Applied(n))
    <3>1. FinalAt(Applied(n))' = IF Applied(n)' = 0 THEN NONE ELSE FinalOf(decided'[Applied(n)'])
      BY Zenon DEF FinalAt
    <3>2. Applied(n) # 0 => decided'[Applied(n)] = decided[Applied(n)]
      <4>1. Applied(n) # 0 => Applied(n) \in 1 .. l
        BY <1>1, <1>3
      <4> QED BY <1>2, <4>1, Zenon
    <3> QED BY <2>1, <3>1, <3>2, Zenon DEF FinalAt
  <2>3. final_changes[n] = R[Applied(n)] /\ current_bc_final[n] = FinalAt(Applied(n))
    BY <1>5, Zenon DEF IsHistory
  <2> QED BY <1>1, <1>3, <1>11, <2>1, <2>2, <2>3, Zenon
<1>10. IsHistory(S)'
  BY <1>2, <1>8, <1>9, <1>11, Zenon DEF IsHistory
<1> QED BY <1>10, Zenon DEF RosterInv

\* Applying a decision rewards what the history says, whatever the node reads.
LEMMA FinalizeHistory ==
    ASSUME IInv, RosterInv, NEW n \in Node, FinalizeDecided(n)
    PROVE  RosterInv'
<1> DEFINE k == Len(bft_blocks[n])
           final == latest_final_block[n]
           prev == current_bc_final[n]
           start == IF prev = NONE THEN final ELSE prev
           main == finalized'[n] \cup BestChain(chain_set'[n])
<1>1. /\ TypeOK /\ NodeInv(n) /\ deciding[n]
      /\ deciding' = [deciding EXCEPT ![n] = FALSE]
      /\ current_bc_final' = [current_bc_final EXCEPT ![n] = final]
      /\ final_changes' = [final_changes EXCEPT ![n] =
                            @ \o NewlyFinal(BlockSequence(main, start, final), prev)]
      /\ UNCHANGED <<bft_blocks, decided>>
  BY Zenon DEF FinalizeDecided, IInv, engine
<1>2. /\ k \in 1 .. Len(decided) /\ k \in Nat /\ final = FinalOf(decided[k]) /\ k # 0
      /\ Applied(n) = k - 1 /\ Applied(n)' = k
  <2>1. k \in Nat /\ k > 0 /\ k <= Len(decided) /\ final = FinalOf(decided[k])
    <3>1. k \in Nat
      BY Counts, Zenon
    <3> QED BY <1>1, <3>1, Zenon DEF NodeInv
  <2>2. Applied(n) = k - 1 /\ Applied(n)' = k
    BY <1>1, Zenon DEF Applied, TypeOK
  <2>3. Len(decided) \in Nat
    BY <1>1 DEF TypeOK
  <2> QED BY <2>1, <2>2, <2>3
<1>3. ViewOK(finalized'[n], finalized_tip'[n], chain_set'[n]) /\ final \in finalized'[n]
  <2>1. NodeInv(n)'
    BY FinalizeDecidedNode, Zenon
  <2>2. final \in DecidedFinals(Applied(n))'
    <3>1. k \in 1 .. k
      BY <1>2
    <3>2. DecidedFinals(Applied(n))' = {FinalOf(decided[i]) : i \in 1 .. k}
      BY <1>1, <1>2, Zenon DEF DecidedFinals
    <3> HIDE DEF k, final
    <3> QED BY <1>2, <3>1, <3>2, Zenon
  <2> QED BY <2>1, <2>2, Zenon DEF NodeInv
<1>4. PICK R : IsHistory(R)
  BY Zenon DEF RosterInv
<1> HIDE DEF k, final, start
<1>5. BlockSequence(main, start, final) = BlockSequence(PathTo(final), start, final)
  <2> HIDE DEF main
  <2>1. /\ main \in SUBSET Block /\ Genesis \in main /\ Bounded(main)
        /\ ExtendsBlock(main \ {Genesis}, Genesis) /\ final \in main
    BY <1>3, MainIsChain, Zenon DEF main
  <2> QED BY <2>1, RewardsOfMain, Zenon
<1> HIDE DEF main
<1>6. NewlyFinal(BlockSequence(main, start, final), prev) = Rewards(prev, final)
  BY <1>5, Zenon DEF Rewards, start
<1>7. prev = FinalAt(k - 1) /\ final = FinalAt(k) /\ final_changes[n] = R[k - 1]
  BY <1>2, <1>4, Zenon DEF IsHistory, FinalAt
<1>8. final_changes'[n] = R[k] /\ current_bc_final'[n] = FinalAt(k)
  <2>1. R[k] = R[k - 1] \o Rewards(FinalAt(k - 1), FinalAt(k))
    BY <1>2, <1>4, Zenon DEF IsHistory
  <2>2. final_changes'[n] = final_changes[n] \o Rewards(prev, final)
    <3> HIDE DEF prev
    <3> QED BY <1>1, <1>6, Zenon DEF TypeOK
  <2>3. current_bc_final'[n] = final
    BY <1>1, Zenon DEF TypeOK
  <2> QED BY <1>7, <2>1, <2>2, <2>3, Zenon
<1>9. \A j : FinalAt(j)' = FinalAt(j)
  BY <1>1, Zenon DEF FinalAt
<1>10. ASSUME NEW m \in Node
       PROVE  final_changes'[m] = R[Applied(m)'] /\ current_bc_final'[m] = FinalAt(Applied(m))'
  <2>1. FinalAt(Applied(m))' = FinalAt(Applied(m)')
    BY <1>1, Zenon DEF FinalAt
  <2>2. CASE m = n
    BY <1>2, <1>8, <2>1, <2>2, Zenon
  <2>3. CASE m # n
    <3>1. Applied(m)' = Applied(m)
      BY <1>1, <2>3, Zenon DEF Applied, TypeOK
    <3>2. final_changes'[m] = final_changes[m] /\ current_bc_final'[m] = current_bc_final[m]
      BY <1>1, <2>3, Zenon DEF TypeOK
    <3> QED BY <1>4, <2>1, <3>1, <3>2, Zenon DEF IsHistory
  <2> QED BY <2>2, <2>3, Zenon
<1>11. /\ R = [j \in Nat |-> R[j]]
       /\ \A j \in 1 .. Len(decided') :
            R[j] = R[j - 1] \o Rewards(FinalAt(j - 1)', FinalAt(j)')
  BY <1>1, <1>4, <1>9, Zenon DEF IsHistory
<1>12. IsHistory(R)'
  BY <1>10, <1>11, Zenon DEF IsHistory
<1> QED BY <1>12, Zenon DEF RosterInv

\* Every step keeps the common history of rosters.
LEMMA NextRosterInv == IInv /\ RosterInv /\ [Next /\ AllCommitsAdd]_vars => RosterInv'
<1> SUFFICES ASSUME IInv, RosterInv, [Next /\ AllCommitsAdd]_vars PROVE RosterInv'
  BY Zenon
<1>1. ASSUME NEW n \in Node, NEW b \in Block,
             CommitBlock(n, b) \/ SetFinality(n, b) \/ ReadTip(n) \/ Activate(n)
                \/ ProposeTip(n) \/ ProposeHeader(n) \/ ProposeHeaders(n)
      PROVE  UNCHANGED <<decided, final_changes, current_bc_final, bft_blocks, deciding>>
  BY <1>1, Zenon DEF CommitBlock, SetFinality, ReadTip, Activate, ProposeTip, ProposeHeader,
              ProposeHeaders, pow, tfl, engine
<1>2. ASSUME NEW n \in Node, NEW block \in Pending(n), Validate(n, block)
      PROVE  UNCHANGED <<decided, final_changes, current_bc_final, bft_blocks, deciding>>
  BY <1>2, Zenon DEF Validate, tfl
<1>3. ASSUME UNCHANGED <<decided, final_changes, current_bc_final, bft_blocks, deciding>>
      PROVE  RosterInv'
  BY <1>3, SameHistory, Zenon DEF Applied
<1>4. ASSUME NEW n \in Node, NewDecided(n) PROVE RosterInv'
  <2>1. UNCHANGED <<decided, final_changes, current_bc_final>>
    BY <1>4, Zenon DEF NewDecided
  <2>2. ASSUME NEW m \in Node PROVE Applied(m)' = Applied(m)
    <3>1. CASE m = n
      BY <1>4, <3>1, NewDecidedNode, Zenon
    <3>2. CASE m # n
      BY <1>4, <3>2, Zenon DEF NewDecided, IInv, TypeOK, Applied
    <3> QED BY <3>1, <3>2, Zenon
  <2> QED BY <2>1, <2>2, SameHistory, Zenon
<1>5. ASSUME NEW n \in Node, FinalizeDecided(n) PROVE RosterInv'
  BY <1>5, FinalizeHistory, Zenon
<1>6. ASSUME NEW block \in proposed, Decide(block) PROVE RosterInv'
  BY <1>6, DecideHistory, Zenon
<1>7. CASE UNCHANGED vars
  BY <1>3, <1>7, Zenon DEF vars, pow, tfl, engine
<1>8. CASE Next /\ AllCommitsAdd
  <2>1. Genesis \in Block
    BY TreeAssumption, Zenon
  <2> QED BY <1>1, <1>2, <1>3, <1>4, <1>5, <1>6, <1>8, <2>1 DEF Next
<1> QED BY <1>7, <1>8, Zenon

\* Nothing has been given to the roster at the start.
LEMMA InitRosterInv == Init => RosterInv
<1> SUFFICES ASSUME Init PROVE RosterInv
  BY Zenon
<1> DEFINE R == [k \in Nat |-> <<>>]
<1>1. Len(decided) = 0 /\ R = [k \in Nat |-> R[k]]
  BY Zenon DEF Init
<1>2. ASSUME NEW n \in Node
      PROVE  /\ final_changes[n] = R[Applied(n)] /\ current_bc_final[n] = FinalAt(Applied(n))
  <2>1. Applied(n) = 0
    BY Zenon DEF Init, Applied
  <2> QED BY <2>1 DEF Init, FinalAt
<1>3. IsHistory(R)
  <2> HIDE DEF R
  <2> QED BY <1>1, <1>2 DEF IsHistory
<1> QED BY <1>3, Zenon DEF RosterInv

\* Nodes with a common history have the same inputs, as far as both have come.
LEMMA RosterInvAgrees == RosterInv => RosterInputsAgree
<1> SUFFICES ASSUME RosterInv, NEW m \in Node, NEW n \in Node,
                    Len(bft_blocks[m]) = Len(bft_blocks[n]), ~deciding[m], ~deciding[n]
             PROVE  final_changes[m] = final_changes[n]
  BY Zenon DEF RosterInputsAgree
<1>1. PICK R : IsHistory(R)
  BY Zenon DEF RosterInv
<1>2. Applied(m) = Applied(n)
  BY Zenon DEF Applied
<1> QED BY <1>1, <1>2, Zenon DEF IsHistory

\* Nodes that have applied the same number of decisions have rewarded the same
\* blocks in the same order, whatever best chain each of them read when it did, so
\* their rosters are the same (RosterInputsAgree).
THEOREM RostersAgree == Spec /\ CommitsOnlyAdd => []RosterInputsAgree
BY Invariance, InitRosterInv, NextRosterInv, RosterInvAgrees, PTL DEF Spec, CommitsOnlyAdd

-----------------------------------------------------------------------------
(* Answers about finality, as long as no operator sets it.                  *)

\* The latest final block is the one of the last decision.  Before the first one the
\* best chain is within the reorg limit, so the block locator ends at genesis.
LatestInv(n) ==
    IF bft_blocks[n] = <<>>
    THEN /\ latest_final_block[n] = NONE
         /\ Cardinality(BestChain(chain_set[n])) <= MAX_BLOCK_REORG_HEIGHT
    ELSE latest_final_block[n] = FinalOf(bft_blocks[n][Len(bft_blocks[n])])

\* A call that goes on to compare has read a stored block above its own, and an
\* answer is about what is stored.
QueryInv(n) ==
    /\ query[n].step = "compare" =>
        /\ query[n].kind = "block" /\ query[n].final \in finalized[n]
        /\ Height[query[n].block] < Height[query[n].final]
    /\ Answered(n, "block", "Finalized") => query[n].block \in finalized[n]
    /\ Answered(n, "block", "CantBeFinalized") =>
            \E x \in finalized[n] \ {query[n].block} : Height[x] = Height[query[n].block]

QueriesInv ==
    IInv /\ QueriesTypeOK /\ \A n \in Node : LatestInv(n) /\ QueryInv(n)

\* The final block that a query reads under the mutex is in the database.
LEMMA FinalIsStored ==
    ASSUME IInv, NEW n \in Node, LatestInv(n), ~deciding[n]
    PROVE  FinalBlock(n, MainChain(n)) \in finalized[n]
<1> DEFINE k == Len(bft_blocks[n])
           best == BestChain(chain_set[n])
           main == finalized[n] \cup best
<1>1. NodeInv(n) /\ ViewOK(finalized[n], finalized_tip[n], chain_set[n])
  BY Zenon DEF IInv, NodeInv
<1>2. bft_blocks[n] \in Seq(BftBlock) /\ k \in Nat /\ Applied(n) = k
  BY DEF IInv, TypeOK, Applied
<1>3. finalized[n] \in SUBSET Block /\ Genesis \in finalized[n] /\ NONE \notin Block
  BY <1>1, CrosslinkAssumption, Zenon DEF ViewOK
<1>4. CASE bft_blocks[n] # <<>>
  <2>1. k \in 1 .. k
    BY <1>2, <1>4
  <2>2. latest_final_block[n] = FinalOf(decided[k])
    BY <1>1, <1>4, <2>1, Zenon DEF LatestInv, NodeInv
  <2>3. FinalOf(decided[k]) \in DecidedFinals(k)
    BY <2>1, Zenon DEF DecidedFinals
  <2>4. latest_final_block[n] \in finalized[n]
    BY <1>1, <1>2, <2>2, <2>3, Zenon DEF NodeInv
  <2> QED BY <1>3, <2>4, Zenon DEF FinalBlock
<1>5. CASE bft_blocks[n] = <<>>
  <2>1. latest_final_block[n] = NONE /\ Cardinality(best) <= MAX_BLOCK_REORG_HEIGHT
    BY <1>5, Zenon DEF LatestInv
  <2>2. finalized_tip[n] = Genesis
    <3>1. 1 .. Applied(n) = {}
      BY <1>2, <1>5
    <3>2. DecidedFinals(Applied(n)) = {}
      BY <3>1, Zenon DEF DecidedFinals
    <3> QED BY <1>1, <3>2, Zenon DEF NodeInv
  <2>3. MAX_BLOCK_REORG_HEIGHT \in Nat
    BY CrosslinkAssumption, Zenon
  <2>4. /\ Height[Tip(main)] \in Nat /\ Height[Tip(main)] <= MAX_BLOCK_REORG_HEIGHT
        /\ HashByHeight(main, 0) = Genesis
    BY <1>1, <2>1, <2>2, <2>3, ShortChainReachesGenesis, Zenon
  <2> HIDE DEF main
  <2>5. (IF Height[Tip(main)] - MAX_BLOCK_REORG_HEIGHT < 0 THEN 0
         ELSE Height[Tip(main)] - MAX_BLOCK_REORG_HEIGHT) = 0
    BY <2>3, <2>4
  <2>6. ReorgFinalBlock(main) = Genesis
    BY <2>4, <2>5, Zenon DEF ReorgFinalBlock
  <2> QED BY <1>3, <2>1, <2>6, Zenon DEF FinalBlock, MainChain, main
<1> QED BY <1>4, <1>5, Zenon

\* Below a stored block, a block is in the best chain exactly if it is stored, and
\* if it is not another block of its height is.
LEMMA ComparesWithStored ==
    ASSUME IInv, NEW n \in Node, NEW b \in Block, NEW f \in finalized[n], Height[b] < Height[f]
    PROVE  /\ b \in MainChain(n) => b \in finalized[n]
           /\ b \notin MainChain(n) => \E x \in finalized[n] \ {b} : Height[x] = Height[b]
<1>1. ViewOK(finalized[n], finalized_tip[n], chain_set[n])
  BY Zenon DEF IInv, NodeInv
<1> QED BY <1>1, ViewDecidesBelow DEF MainChain

\* Before the first decision, a commit that finalizes nothing leaves the best chain
\* within the reorg limit.
LEMMA CommitLatest ==
    ASSUME IInv, AllCommitsAdd, NEW n \in Node, NEW b \in Block, CommitBlock(n, b), LatestInv(n)
    PROVE  LatestInv(n)'
<1>1. /\ TypeOK /\ CommitAdds(n, b) /\ ViewOK(finalized[n], finalized_tip[n], chain_set[n])
      /\ UNCHANGED <<latest_final_block, bft_blocks>>
  BY Zenon DEF IInv, NodeInv, AllCommitsAdd, CommitBlock, tfl
<1>2. PICK c : /\ IF Parent[b] = finalized_tip[n] THEN c = {}
                  ELSE IsParentChain(c, chain_set[n], Parent[b])
               /\ \E cs \in {InsertAbove(chain_set[n], Push(c, b), Parent[b])} :
                  \E low \in {BlocksPastReorgLimit(cs)} : FinalizeBlocks(n, cs, low)
  BY Zenon DEF CommitBlock
<1> DEFINE new == InsertAbove(chain_set[n], Push(c, b), Parent[b])
           low == BlocksPastReorgLimit(new)
           best == BestChain(new)
<1>3. FinalizeBlocks(n, new, low)
  BY <1>2, Zenon
<1>4. /\ chain_set'[n] = Remaining(new, low) /\ finalized'[n] = finalized[n] \cup low
      /\ finalized'[n] = finalized[n]
  BY <1>1, <1>3, Zenon DEF FinalizeBlocks, Remaining, TypeOK, CommitAdds
<1>5. {} \notin new
  <2>1. new \subseteq chain_set[n] \cup {Push(c, b)} /\ b \in Push(c, b)
    BY InsertAddsOne, Zenon DEF Push
  <2> QED BY <1>1, <2>1, Zenon DEF ViewOK
<1> HIDE DEF new
<1>6. Remaining(new, {}) = new
  BY <1>5, Zenon DEF Remaining
<1>7. ViewOK(finalized[n], finalized_tip[n], new)
  <2>1. Height[b] > Height[finalized_tip[n]] /\ {} \in SUBSET finalized[n]
    BY Zenon DEF CommitBlock
  <2>2. ViewOK(finalized[n], finalized_tip[n], Remaining(new, {}))
    BY <1>1, <1>2, <2>1, CommitKeepsView, Zenon DEF new
  <2> QED BY <1>6, <2>2, Zenon
<1>8. low = {} /\ Cardinality(best) <= MAX_BLOCK_REORG_HEIGHT
  <2>1. MAX_BLOCK_REORG_HEIGHT \in Nat
    BY CrosslinkAssumption, Zenon
  <2>2. /\ low = PastLimit(best, MAX_BLOCK_REORG_HEIGHT) /\ best = BestChain(new)
        /\ low \subseteq finalized[n]
    BY <1>4, Zenon DEF BlocksPastReorgLimit, PastLimit
  <2> HIDE DEF best, low
  <2> QED BY <1>7, <2>1, <2>2, NoneFinalizedIsShort, Zenon
<1>9. BestChain(chain_set'[n]) = best
  BY <1>4, <1>6, <1>8, Zenon
<1> HIDE DEF best, low
<1> QED BY <1>1, <1>8, <1>9, Zenon DEF LatestInv

\* Every step keeps what is said of the latest final block.
LEMMA NextLatest ==
    ASSUME MaxRequests = 0, IInv, Next, AllCommitsAdd, NEW m \in Node, LatestInv(m)
    PROVE  LatestInv(m)'
<1>0. TypeOK
  BY Zenon DEF IInv
<1>1. ASSUME bft_blocks'[m] = bft_blocks[m], latest_final_block'[m] = latest_final_block[m],
             chain_set'[m] = chain_set[m] \/ bft_blocks[m] # <<>>
      PROVE  LatestInv(m)'
  BY <1>1, Zenon DEF LatestInv
<1>2. ASSUME NEW n \in Node, NEW b \in Block, CommitBlock(n, b) PROVE LatestInv(m)'
  <2>1. CASE m = n
    BY <1>2, <2>1, CommitLatest, Zenon
  <2>2. CASE m # n
    BY <1>0, <1>1, <1>2, <2>2, Zenon DEF CommitBlock, FinalizeBlocks, TypeOK, tfl
  <2> QED BY <2>1, <2>2, Zenon
<1>3. ASSUME NEW n \in Node, NEW b \in Block, SetFinality(n, b) PROVE FALSE
  BY <1>0, <1>3 DEF SetFinality, TypeOK
<1>4. ASSUME NEW n \in Node, NEW block,
             ReadTip(n) \/ Activate(n) \/ ProposeTip(n) \/ ProposeHeader(n) \/ ProposeHeaders(n)
                \/ Validate(n, block) \/ Decide(block)
      PROVE  LatestInv(m)'
  <2>1. UNCHANGED <<bft_blocks, latest_final_block, chain_set>>
    BY <1>4, Zenon
       DEF ReadTip, Activate, ProposeTip, ProposeHeader, ProposeHeaders, Validate, Decide,
                pow, tfl
  <2> QED BY <1>1, <2>1, Zenon
<1>5. ASSUME NEW n \in Node, NewDecided(n) PROVE LatestInv(m)'
  <2>1. chain_set' = chain_set
    BY <1>5, Zenon DEF NewDecided, pow
  <2>2. CASE m = n /\ Validates(n, decided[Len(bft_blocks[n]) + 1])
    <3> DEFINE new == decided[Len(bft_blocks[n]) + 1]
    <3>1. /\ bft_blocks' = [bft_blocks EXCEPT ![n] = Append(@, new)]
          /\ latest_final_block' = [latest_final_block EXCEPT ![n] = Head(new.headers)]
      BY <1>5, <2>2, Zenon DEF NewDecided
    <3>2. new \in BftBlock
      BY <1>0, <1>5, Zenon DEF NewDecided, TypeOK
    <3>3. bft_blocks[n] \in Seq(BftBlock) /\ bft_blocks'[n] = Append(bft_blocks[n], new)
          /\ latest_final_block'[n] = Head(new.headers)
      BY <1>0, <3>1, Zenon DEF TypeOK
    <3> HIDE DEF new
    <3>4. bft_blocks'[n] # <<>> /\ bft_blocks'[n][Len(bft_blocks'[n])] = new
      BY <3>2, <3>3
    <3> QED BY <2>2, <3>3, <3>4, Zenon DEF LatestInv, FinalOf
  <2>3. CASE ~(m = n /\ Validates(n, decided[Len(bft_blocks[n]) + 1]))
    <3> DEFINE new == decided[Len(bft_blocks[n]) + 1]
    <3>1. \/ UNCHANGED <<bft_blocks, latest_final_block>>
          \/ /\ m # n /\ bft_blocks' = [bft_blocks EXCEPT ![n] = Append(@, new)]
             /\ latest_final_block' = [latest_final_block EXCEPT ![n] = Head(new.headers)]
      BY <1>5, <2>3, Zenon DEF NewDecided
    <3> HIDE DEF new
    <3>2. bft_blocks'[m] = bft_blocks[m] /\ latest_final_block'[m] = latest_final_block[m]
      BY <1>0, <3>1, Zenon DEF TypeOK
    <3> QED BY <1>1, <2>1, <3>2, Zenon
  <2> QED BY <2>2, <2>3, Zenon
<1>6. ASSUME NEW n \in Node, FinalizeDecided(n) PROVE LatestInv(m)'
  <2>1. UNCHANGED <<bft_blocks, latest_final_block>> /\ deciding[n]
    BY <1>6, Zenon DEF FinalizeDecided
  <2>2. CASE m = n
    <3>1. Len(bft_blocks[n]) > 0
      BY <2>1, Zenon DEF IInv, NodeInv
    <3>2. bft_blocks[n] # <<>>
      BY <3>1
    <3> QED BY <1>1, <2>1, <2>2, <3>2
  <2>3. CASE m # n
    <3>1. PICK low : FinalizeBlocks(n, chain_set[n], low)
      BY <1>6, Zenon DEF FinalizeDecided
    <3>2. chain_set'[m] = chain_set[m]
      BY <1>0, <2>3, <3>1, Zenon DEF FinalizeBlocks, TypeOK
    <3> QED BY <1>1, <2>1, <3>2, Zenon
  <2> QED BY <2>2, <2>3, Zenon
<1> QED BY <1>2, <1>3, <1>4, <1>5, <1>6, Zenon DEF Next

\* A database only grows.
LEMMA DatabasesGrow ==
    ASSUME IInv, Next, NEW m \in Node
    PROVE  finalized[m] \subseteq finalized'[m]
<1>0. finalized \in [Node -> SUBSET Block]
  BY Zenon DEF IInv, TypeOK
<1>1. ASSUME NEW n \in Node, NEW cs, NEW low, FinalizeBlocks(n, cs, low)
      PROVE  finalized[m] \subseteq finalized'[m]
  <2>1. finalized' = [finalized EXCEPT ![n] = @ \cup low]
    BY <1>1, Zenon DEF FinalizeBlocks
  <2> QED BY <1>0, <2>1, Zenon
<1>2. ASSUME NEW n \in Node, NEW b \in Block, CommitBlock(n, b)
      PROVE  finalized[m] \subseteq finalized'[m]
  <2>1. \E cs, low : FinalizeBlocks(n, cs, low)
    BY <1>2, Zenon DEF CommitBlock
  <2> QED BY <1>1, <2>1, Zenon
<1>3. ASSUME NEW n \in Node, FinalizeDecided(n) PROVE finalized[m] \subseteq finalized'[m]
  <2>1. \E cs, low : FinalizeBlocks(n, cs, low)
    BY <1>3, Zenon DEF FinalizeDecided
  <2> QED BY <1>1, <2>1, Zenon
<1>4. ASSUME NEW n \in Node, NEW b, NEW block,
             SetFinality(n, b) \/ ReadTip(n) \/ Activate(n) \/ ProposeTip(n) \/ ProposeHeader(n)
                \/ ProposeHeaders(n) \/ Validate(n, block) \/ Decide(block) \/ NewDecided(n)
      PROVE  finalized' = finalized
  BY <1>4, Zenon DEF SetFinality, ReadTip, Activate, ProposeTip, ProposeHeader, ProposeHeaders,
              Validate, Decide, NewDecided, pow
<1> QED BY <1>2, <1>3, <1>4, Zenon DEF Next

\* A step that leaves the calls alone keeps what is known of them.
LEMMA SameQuery ==
    ASSUME NEW n \in Node, QueryInv(n), query'[n] = query[n], finalized[n] \subseteq finalized'[n]
    PROVE  QueryInv(n)'
BY Zenon DEF QueryInv, Answered

\* A new state of one call.
LEMMA QueryStep ==
    ASSUME QueriesInv, UNCHANGED vars, NEW n \in Node, NEW q, query' = [query EXCEPT ![n] = q],
           q \in [step : {"none", "lookup", "final", "compare", "wait", "done"},
                  kind : {"block", "tx"}, block : Block \cup {NONE},
                  final : Block \cup {NONE}, seen : Nat, answer : Statuses],
           q.step \in {"final", "compare", "wait"} => q.block # NONE,
           q.step = "compare" =>
                q.kind = "block" /\ q.final \in finalized[n] /\ Height[q.block] < Height[q.final],
           q.step = "done" /\ q.kind = "block" /\ q.answer = "Finalized" => q.block \in finalized[n],
           q.step = "done" /\ q.kind = "block" /\ q.answer = "CantBeFinalized" =>
                \E x \in finalized[n] \ {q.block} : Height[x] = Height[q.block]
    PROVE  QueriesTypeOK' /\ \A m \in Node : LatestInv(m)' /\ QueryInv(m)'
<1>1. /\ TypeOK' /\ \A m \in Node : LatestInv(m)'
      /\ UNCHANGED finalized
  <2>1. UNCHANGED <<chain_set, finalized, finalized_tip, latest_final_block, bft_blocks,
                    current_bc_final, tip_is_active, tfl_is_activated, final_changes, proposing,
                    deciding, panicked, proposed, passed, decided, requests>>
    BY Zenon DEF vars, pow, tfl, engine
  <2>2. TypeOK'
    BY <2>1, Zenon DEF QueriesInv, IInv, TypeOK
  <2>3. ASSUME NEW m \in Node PROVE LatestInv(m)'
    BY <2>1, Zenon DEF QueriesInv, LatestInv
  <2> QED BY <2>1, <2>2, <2>3, Zenon
<1>2. query'[n] = q /\ \A m \in Node \ {n} : query'[m] = query[m]
  BY Zenon DEF QueriesInv, QueriesTypeOK
<1>3. QueriesTypeOK'
  BY <1>1, <1>2, Zenon DEF QueriesInv, QueriesTypeOK
<1>4. ASSUME NEW m \in Node PROVE QueryInv(m)'
  <2>1. CASE m = n
    BY <1>1, <1>2, <2>1 DEF QueryInv, Answered
  <2>2. CASE m # n
    BY <1>1, <1>2, <2>2, SameQuery, Zenon DEF QueriesInv
  <2> QED BY <2>1, <2>2, Zenon
<1> QED BY <1>1, <1>3, <1>4, Zenon

\* Every step of a call keeps the invariant: what it answers, it has read under the
\* mutex, or compares with a block that was stored when it was read.
LEMMA QueriesStep ==
    ASSUME QueriesInv, UNCHANGED vars, NEW n \in Node,
           QuerySteps(n) \/ Subscribe(n, "tx", NONE) \/ \E b \in Block : Subscribe(n, "block", b)
    PROVE  QueriesTypeOK' /\ \A m \in Node : LatestInv(m)' /\ QueryInv(m)'
<1> DEFINE q == query[n]
           Q == [step : {"none", "lookup", "final", "compare", "wait", "done"},
                 kind : {"block", "tx"}, block : Block \cup {NONE},
                 final : Block \cup {NONE}, seen : Nat, answer : Statuses]
           Result == QueriesTypeOK' /\ \A m \in Node : LatestInv(m)' /\ QueryInv(m)'
<1>1. /\ query \in [Node -> Q] /\ q \in Q /\ IInv /\ LatestInv(n) /\ QueryInv(n)
      /\ q.step \in {"final", "compare", "wait"} => q.block \in Block
  BY Zenon DEF QueriesInv, QueriesTypeOK
<1>2. finalized[n] \in SUBSET Block /\ MainChain(n) \in SUBSET Block /\ NONE \notin Block
  BY <1>1, IInvBase, ReadsAreBlocks, CrosslinkAssumption, Zenon DEF IInv, TypeOK
<1>3. ASSUME NEW status \in Statuses, Answer(n, status),
             q.kind = "block" /\ status = "Finalized" => q.block \in finalized[n],
             q.kind = "block" /\ status = "CantBeFinalized" =>
                \E x \in finalized[n] \ {q.block} : Height[x] = Height[q.block]
      PROVE  Result
  <2> DEFINE new == [q EXCEPT !.step = "done", !.answer = status]
  <2>1. query' = [query EXCEPT ![n] = new]
    BY <1>1, <1>3, Zenon DEF Answer
  <2>2. /\ new \in Q /\ new.step = "done" /\ new.kind = q.kind /\ new.block = q.block
        /\ new.answer = status
    BY <1>1, Zenon
  <2> HIDE DEF new, q
  <2> QED BY <1>3, <2>1, <2>2, QueryStep, Zenon
<1>4. ASSUME NEW b, \/ Subscribe(n, "block", b) /\ b \in Block
                    \/ Subscribe(n, "tx", b) /\ b = NONE
      PROVE  Result
  <2> DEFINE kind == IF b = NONE THEN "tx" ELSE "block"
             new == [NoQuery EXCEPT !.step = "lookup", !.kind = kind, !.block = b,
                                    !.seen = Len(final_changes[n])]
  <2>1. query' = [query EXCEPT ![n] = new]
    BY <1>2, <1>4, ZenonT(60) DEF Subscribe
  <2>2. Len(final_changes[n]) \in Nat
    BY <1>1 DEF IInv, TypeOK
  <2>3. new \in Q /\ new.step = "lookup"
    BY <1>4, <2>2, Zenon DEF NoQuery, Statuses
  <2> HIDE DEF new
  <2> QED BY <2>1, <2>3, QueryStep, Zenon
<1>5. CASE Lookup(n)
  <2>1. PICK b : \/ Answer(n, "None")
                 \/ /\ b \in MainChain(n)
                    /\ query' = [query EXCEPT ![n].step = "final", ![n].block = b]
    BY <1>5, Zenon DEF Lookup
  <2>2. CASE Answer(n, "None")
    BY <1>3, <2>2, Zenon DEF Statuses
  <2>3. CASE /\ b \in MainChain(n)
             /\ query' = [query EXCEPT ![n].step = "final", ![n].block = b]
    <3> DEFINE new == [q EXCEPT !.step = "final", !.block = b]
    <3>1. query' = [query EXCEPT ![n] = new]
      BY <1>1, <2>3, Zenon
    <3>2. new \in Q /\ new.step = "final" /\ new.block # NONE
      BY <1>1, <1>2, <2>3, Zenon
    <3> HIDE DEF new
    <3> QED BY <3>1, <3>2, QueryStep, Zenon
  <2> QED BY <2>1, <2>2, <2>3, Zenon
<1>6. CASE ReadFinal(n)
  <2> DEFINE final == FinalBlock(n, MainChain(n))
             status == StatusAt(q.kind, q.block, final)
  <2>1. ~deciding[n] /\ q.step = "final" /\ Conclude(n, q.block, final)
    BY <1>6, Zenon DEF ReadFinal
  <2>2. final \in finalized[n] /\ final \in Block /\ q.block \in Block
    BY <1>1, <1>2, <2>1, FinalIsStored, Zenon
  <2> HIDE DEF final
  <2>3. Height[final] \in Nat /\ Height[q.block] \in Nat
    BY <2>2, TreeAssumption, Zenon
  <2>4. ASSUME NEW step \in {"wait", "compare"},
               query' = [query EXCEPT ![n].step = step, ![n].final = final],
               step = "compare" => q.kind = "block" /\ Height[q.block] < Height[final]
        PROVE  Result
    <3> DEFINE new == [q EXCEPT !.step = step, !.final = final]
    <3>1. query' = [query EXCEPT ![n] = new]
      BY <1>1, <2>4, Zenon
    <3>2. new \in Q /\ new.step = step /\ new.final = final /\ new.block = q.block /\ new.kind = q.kind
      BY <1>1, <2>2, <2>4, Zenon
    <3> HIDE DEF new, q
    <3> QED BY <1>2, <2>2, <2>4, <3>1, <3>2, QueryStep, Zenon
  <2>5. CASE Height[q.block] > Height[final]
    <3>1. status = "NotYetFinalized"
      BY <2>5, ZenonT(60) DEF StatusAt
    <3>2. ~(Height[q.block] < Height[final])
      BY <2>3, <2>5
    <3>3. query' = [query EXCEPT ![n].step = "wait", ![n].final = final]
      BY <2>1, <3>1, <3>2, Zenon DEF Conclude
    <3> QED BY <2>4, <3>3, Zenon
  <2>6. CASE ~(Height[q.block] > Height[final])
    <3>1. status = IF q.kind = "tx" \/ q.block = final THEN "Finalized" ELSE "CantBeFinalized"
      BY <2>6, Zenon DEF StatusAt
    <3>2. CASE q.kind = "block" /\ Height[q.block] < Height[final]
      <4>1. query' = [query EXCEPT ![n].step = "compare", ![n].final = final]
        BY <2>1, <3>1, <3>2, Zenon DEF Conclude
      <4> QED BY <2>4, <3>2, <4>1, Zenon
    <3>3. CASE ~(q.kind = "block" /\ Height[q.block] < Height[final])
      <4>1. Answer(n, status)
        BY <2>1, <3>1, <3>3, Zenon DEF Conclude
      <4>2. q.kind = "block" => Height[q.block] = Height[final] /\ q.kind # "tx"
        BY <2>3, <2>6, <3>3
      <4>3. status \in Statuses
        BY <3>1, Zenon DEF Statuses
      <4> HIDE DEF status
      <4> QED BY <1>3, <2>2, <3>1, <4>1, <4>2, <4>3, Zenon
    <3> QED BY <3>2, <3>3, Zenon
  <2> QED BY <2>5, <2>6, Zenon
<1>7. CASE Compare(n)
  <2>1. PICK status \in {"None", "Finalized", "CantBeFinalized"} :
          /\ Answer(n, status) /\ q.step = "compare"
          /\ status = "Finalized" => q.block \in MainChain(n)
          /\ status = "CantBeFinalized" => q.block \notin MainChain(n)
    BY <1>7, Zenon DEF Compare
  <2>2. /\ q.block \in Block /\ q.final \in finalized[n]
        /\ Height[q.block] < Height[q.final]
    BY <1>1, <2>1, Zenon DEF QueryInv
  <2>3. /\ q.block \in MainChain(n) => q.block \in finalized[n]
        /\ q.block \notin MainChain(n) =>
                \E x \in finalized[n] \ {q.block} : Height[x] = Height[q.block]
    BY <1>1, <2>2, ComparesWithStored
  <2> QED BY <1>3, <2>1, <2>3, Zenon DEF Statuses
<1>8. CASE Recv(n)
  <2> DEFINE new == [q EXCEPT !.step = "lookup", !.seen = @ + 1]
  <2>1. query' = [query EXCEPT ![n] = new]
    BY <1>1, <1>8, Zenon DEF Recv
  <2>2. new \in Q /\ new.step = "lookup"
    <3>1. q.seen + 1 \in Nat
      BY <1>1
    <3> HIDE DEF q
    <3> QED BY <1>1, <3>1, Zenon
  <2> HIDE DEF new
  <2> QED BY <2>1, <2>2, QueryStep, Zenon
<1> QED BY <1>4, <1>5, <1>6, <1>7, <1>8, Zenon DEF QuerySteps

\* Every step of the nodes and of the calls keeps the invariant.
LEMMA NextQueriesInv ==
    ASSUME MaxRequests = 0, QueriesInv, [QueriesNext]_queryVars, [AllCommitsAdd]_vars
    PROVE  QueriesInv'
<1>1. IInv /\ QueriesTypeOK /\ \A n \in Node : LatestInv(n) /\ QueryInv(n)
  BY Zenon DEF QueriesInv
<1>2. CASE Next /\ UNCHANGED query /\ ~UNCHANGED vars
  <2>1. IInv'
    BY <1>1, <1>2, NextIInv, Zenon
  <2>2. ASSUME NEW n \in Node PROVE LatestInv(n)' /\ QueryInv(n)'
    BY <1>1, <1>2, NextLatest, DatabasesGrow, SameQuery, Zenon
  <2>3. QueriesTypeOK'
    BY <1>1, <1>2, <2>1, Zenon DEF QueriesTypeOK, IInv
  <2> QED BY <2>1, <2>2, <2>3, Zenon DEF QueriesInv
<1>3. CASE UNCHANGED vars
  <2>1. IInv'
    BY <1>1, <1>3, NextIInv, Zenon
  <2>2. CASE UNCHANGED query
    <3>1. UNCHANGED <<chain_set, finalized, latest_final_block, bft_blocks>>
      BY <1>3, Zenon DEF vars, pow, tfl
    <3>2. ASSUME NEW n \in Node PROVE LatestInv(n)' /\ QueryInv(n)'
      BY <1>1, <2>2, <3>1, SameQuery, Zenon DEF LatestInv
    <3>3. QueriesTypeOK'
      BY <1>1, <2>1, <2>2, Zenon DEF QueriesTypeOK, IInv
    <3> QED BY <2>1, <3>2, <3>3, Zenon DEF QueriesInv
  <2>3. ASSUME NEW n \in Node,
               QuerySteps(n) \/ Subscribe(n, "tx", NONE)
                 \/ \E b \in Block : Subscribe(n, "block", b)
        PROVE  QueriesInv'
    <3>1. QueriesTypeOK' /\ \A m \in Node : LatestInv(m)' /\ QueryInv(m)'
      BY <1>3, <2>3, QueriesStep, Zenon
    <3> QED BY <2>1, <3>1, Zenon DEF QueriesInv
  <2> QED BY <2>2, <2>3, Zenon DEF QueriesNext, queryVars
<1>4. ASSUME NEW n \in Node,
             QuerySteps(n) \/ Subscribe(n, "tx", NONE) \/ \E b \in Block : Subscribe(n, "block", b)
      PROVE  UNCHANGED vars
  BY <1>4, Zenon DEF QuerySteps, Lookup, ReadFinal, Compare, Recv, Subscribe
<1> QED BY <1>2, <1>3, <1>4, Zenon DEF QueriesNext, queryVars

\* No call has been made at the start.
LEMMA InitQueriesInv == QueriesInit => QueriesInv
<1> SUFFICES ASSUME QueriesInit PROVE QueriesInv
  BY Zenon
<1>1. IInv
  BY InitIInv, Zenon DEF QueriesInit
<1>2. QueriesTypeOK
  BY <1>1, ZenonT(60) DEF QueriesInit, QueriesTypeOK, NoQuery, Statuses, IInv
<1>3. ASSUME NEW n \in Node PROVE LatestInv(n) /\ QueryInv(n)
  <2>1. /\ bft_blocks[n] = <<>> /\ latest_final_block[n] = NONE /\ chain_set[n] = {}
        /\ query[n].step = "none"
    BY Zenon DEF QueriesInit, Init, NoQuery
  <2>2. Cardinality(BestChain(chain_set[n])) = 0
    BY <2>1, FS_EmptySet, Zenon DEF BestChain
  <2>3. MAX_BLOCK_REORG_HEIGHT \in Nat
    BY CrosslinkAssumption, Zenon
  <2> QED BY <2>1, <2>2, <2>3 DEF LatestInv, QueryInv, Answered
<1> QED BY <1>1, <1>2, <1>3, Zenon DEF QueriesInv

\* Without requests of an operator, and as long as commits only add blocks, an answer
\* about a block is never contradicted by a later one: "Finalized" means that the block
\* is in the database, "CantBeFinalized" that another block of its height is
\* (AnswersAreFinal), although a call reads the PoW state and the TFL state in turn.
THEOREM AnswersStayFinal ==
    ASSUME MaxRequests = 0
    PROVE  QueriesSpec /\ CommitsOnlyAdd => []AnswersAreFinal
<1>1. QueriesInv /\ [QueriesNext]_queryVars /\ [AllCommitsAdd]_vars => QueriesInv'
  BY NextQueriesInv, Zenon
<1>2. QueriesInv => AnswersAreFinal
  BY Zenon DEF QueriesInv, QueryInv, AnswersAreFinal
<1> QED BY <1>1, <1>2, InitQueriesInv, PTL DEF QueriesSpec, CommitsOnlyAdd
=============================================================================
