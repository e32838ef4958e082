------------------------- MODULE BlockWriterProofs --------------------------
(***************************************************************************)
(* The block write task keeps its state consistent, for every block tree   *)
(* and every value of its limits.                                          *)
(***************************************************************************)
EXTENDS BlockWriter, ChainProofs

\* What an invalidation took out of a chain is a chain on the parent of its
\* lowest block, so that reconsider_block can put it back.
InvalidatedOK(inv) ==
    \A g \in DOMAIN inv :
        /\ inv[g].blocks \in SUBSET Block /\ inv[g].blocks # {}
        /\ ExtendsBlock(inv[g].blocks, Parent[NonFinalizedRoot(inv[g].blocks)])
        /\ Bounded(inv[g].blocks)

\* When its iterations are used up, the loop has finalized the requested block.
CrosslinkOK ==
    phase = "crosslink" =>
        /\ crosslink \in Block
        /\ remaining = 0 => crosslink \in finalized

\* There are no chains in memory while checkpoint blocks are committed.
CheckpointOK == phase = "checkpoint" => chain_set = {}

\* The inductive invariant.
IInv ==
    /\ TypeOK
    /\ CheckpointOK
    /\ ChainsOK(chain_set, finalized_tip)
    /\ InvalidatedOK(invalidated_blocks)
    /\ FinalizedIsAChain
    /\ OnlyChildrenAreFinalized
    /\ CrosslinkStopsAtRequest
    /\ CrosslinkOK
    /\ AckedIsFinalized

-----------------------------------------------------------------------------
\* The task starts on a database that is a chain, with no forks.
LEMMA InitIInv == Init => IInv
<1> SUFFICES ASSUME Init PROVE IInv
  BY Zenon
<1> USE DEF Init
<1>1. TypeOK
  <2>1. Genesis \in Block /\ NoteTree[Genesis] \in Nat
    BY TreeAssumption, NoteTreeAssumption, Zenon
  <2>2. DOMAIN invalidated_blocks = {}
    BY Zenon
  <2>3. invalidated_blocks \in [DOMAIN invalidated_blocks -> Invalidation]
    BY <2>2, Zenon
  <2> QED BY <2>1, <2>2, <2>3 DEF TypeOK, Phases, Panics
<1>2. ChainsOK(chain_set, finalized_tip) /\ InvalidatedOK(invalidated_blocks)
  BY Zenon DEF ChainsOK, InvalidatedOK
<1>3. FinalizedIsAChain
  BY TreeAssumption DEF FinalizedIsAChain, ExtendsBlock
<1>4. OnlyChildrenAreFinalized
  BY Zenon DEF OnlyChildrenAreFinalized
<1>5. CrosslinkStopsAtRequest /\ CrosslinkOK /\ AckedIsFinalized /\ CheckpointOK
  BY Zenon DEF CheckpointOK, CrosslinkStopsAtRequest, CrosslinkOK, AckedIsFinalized
<1> QED BY <1>1, <1>2, <1>3, <1>4, <1>5, Zenon DEF IInv

-----------------------------------------------------------------------------
\* What is published has its type when the chains are well formed.
LEMMA PublishType ==
    ASSUME NEW cs, NEW t \in Block, ChainsOK(cs, t), Publish(cs)
    PROVE  published' \subseteq SUBSET Block /\ latest_tip' \in Block
<1>1. PICK best \in cs : best # {} /\ published' = cs /\ latest_tip' = NonFinalizedTip(best)
  BY Zenon DEF Publish
<1>2. best \in SUBSET Block /\ Bounded(best)
  BY Zenon DEF ChainsOK
<1>3. NonFinalizedTip(best) \in best
  BY <1>1, <1>2, TipIsHighest, Zenon
<1> QED BY <1>1, <1>2, <1>3, Zenon DEF ChainsOK

\* The chain that a block, or a reconsidered chain, is put on ends in its parent.
LEMMA BaseChainEndsInParent ==
    ASSUME ChainsOK(chain_set, finalized_tip), finalized_tip \in Block,
           NEW p \in Block, NEW c, IsBaseChain(c, p)
    PROVE  /\ c \in SUBSET Block /\ ExtendsBlock(c, finalized_tip) /\ Bounded(c)
           /\ \/ c = {} /\ p = finalized_tip
              \/ p \in c /\ \A x \in c : Height[x] <= Height[p]
<1>1. CASE p = finalized_tip
  BY <1>1, BoundedSingleton, Zenon DEF IsBaseChain, ExtendsBlock
<1>2. CASE p # finalized_tip
  BY <1>2, ParentChainEndsInParent, Zenon DEF IsBaseChain
<1> QED BY <1>1, <1>2, Zenon

\* Joining a chain on p to a base chain of p gives a chain on the finalized tip.
LEMMA JoinBaseChain ==
    ASSUME ChainsOK(chain_set, finalized_tip), finalized_tip \in Block,
           NEW p \in Block, NEW c, IsBaseChain(c, p),
           NEW d \in SUBSET Block, ExtendsBlock(d, p), Bounded(d)
    PROVE  c \cup d \in SUBSET Block /\ ExtendsBlock(c \cup d, finalized_tip) /\ Bounded(c \cup d)
<1>1. /\ c \in SUBSET Block /\ ExtendsBlock(c, finalized_tip) /\ Bounded(c)
      /\ \/ c = {} /\ p = finalized_tip
         \/ p \in c /\ \A x \in c : Height[x] <= Height[p]
  BY BaseChainEndsInParent, Zenon
<1>2. ExtendsBlock(c \cup d, finalized_tip)
  BY <1>1, JoinExtends, Zenon
<1> QED BY <1>1, <1>2, BoundedUnion, Zenon

\* Writing a child of the tip keeps the database a chain.
LEMMA WriteBlockKeepsChain ==
    ASSUME TypeOK, FinalizedIsAChain, NEW b \in Block, NEW prev,
           IsChildOfTip(b), WriteBlock(b, prev)
    PROVE  /\ FinalizedIsAChain' /\ finalized \subseteq finalized'
           /\ finalized' \subseteq Block /\ finalized_tip' = b
           /\ stored_trees' \subseteq Nat \X Nat
<1>1. finalized' = finalized \cup {b} /\ finalized_tip' = b
  BY Zenon DEF WriteBlock
<1>2. /\ Height[b] = Height[finalized_tip] + 1 /\ Parent[b] = finalized_tip
      /\ Height[b] \in Nat /\ NoteTree[b] \in Nat
      /\ \A x \in Block : Height[x] \in Nat
  BY TreeAssumption, NoteTreeAssumption, Zenon DEF IsChildOfTip
<1>3. stored_trees' \subseteq Nat \X Nat
  BY <1>2 DEF WriteBlock, TypeOK
<1>4. finalized_tip \in finalized /\ finalized \subseteq Block
  BY Zenon DEF TypeOK, FinalizedIsAChain
<1>5. \A x \in finalized : Height[x] < Height[b]
  BY <1>2, <1>4 DEF FinalizedIsAChain
<1>6. b # Genesis /\ Height[b] > Height[Genesis]
  BY <1>2, TreeAssumption, <1>4
<1>7. ExtendsBlock((finalized \cup {b}) \ {Genesis}, Genesis)
  <2>1. ASSUME NEW x \in (finalized \cup {b}) \ {Genesis}
        PROVE  /\ Height[x] > Height[Genesis]
               /\ Parent[x] \in ((finalized \cup {b}) \ {Genesis}) \cup {Genesis}
    BY <1>2, <1>4, <1>6, Zenon DEF FinalizedIsAChain, ExtendsBlock
  <2>2. ASSUME NEW x \in (finalized \cup {b}) \ {Genesis},
               NEW y \in (finalized \cup {b}) \ {Genesis}, Height[x] = Height[y]
        PROVE  x = y
    BY <1>2, <1>4, <1>5, <2>2 DEF FinalizedIsAChain, ExtendsBlock
  <2> QED BY <2>1, <2>2, Zenon DEF ExtendsBlock
<1>8. \A x \in finalized \cup {b} : Height[x] <= Height[b]
  BY <1>2, <1>4, <1>5
<1> QED BY <1>1, <1>3, <1>4, <1>7, <1>8, Zenon DEF FinalizedIsAChain

-----------------------------------------------------------------------------
\* One lemma per action: it preserves the invariant.
LEMMA StutterStep ==
    ASSUME IInv, UNCHANGED vars
    PROVE  IInv'
BY Zenon DEF IInv, vars, db, nfs, channels, loop, counters, TypeOK, CheckpointOK,
       FinalizedIsAChain, OnlyChildrenAreFinalized, CrosslinkStopsAtRequest,
       CrosslinkOK, AckedIsFinalized

\* A panic stops the task and leaves the chains as they are.
LEMMA PanicStep ==
    ASSUME IInv, NEW why \in Panics \ {"child of the tip"}, Panic(why),
           received' \subseteq Block, UNCHANGED acked,
           requests' \in Nat, restarts' \in Nat
    PROVE  IInv'
<1> USE DEF IInv, Panic, db, nfs, channels, loop
<1>1. TypeOK'
  BY Zenon DEF TypeOK, Phases
<1>2. ChainsOK(chain_set, finalized_tip)' /\ InvalidatedOK(invalidated_blocks)'
  BY Zenon
<1>3. FinalizedIsAChain' /\ AckedIsFinalized'
  BY Zenon DEF FinalizedIsAChain, AckedIsFinalized
<1>4. OnlyChildrenAreFinalized' /\ CrosslinkStopsAtRequest' /\ CrosslinkOK' /\ CheckpointOK'
  BY Zenon DEF OnlyChildrenAreFinalized, CrosslinkStopsAtRequest, CrosslinkOK, CheckpointOK
<1> QED BY <1>1, <1>2, <1>3, <1>4, Zenon

\* A checkpoint verified block extends the database.
LEMMA CommitCheckpointVerifiedStep ==
    ASSUME IInv, NEW b \in Block, CommitCheckpointVerified(b)
    PROVE  IInv'
<1> USE DEF IInv, CommitCheckpointVerified, nfs, loop, counters
<1>1. /\ FinalizedIsAChain' /\ finalized \subseteq finalized'
      /\ finalized' \subseteq Block /\ finalized_tip' = b
      /\ stored_trees' \subseteq Nat \X Nat
  BY WriteBlockKeepsChain, Zenon
<1>2. TypeOK'
  BY <1>1, NoteTreeAssumption, Zenon DEF TypeOK
<1>3. ChainsOK(chain_set, finalized_tip)' /\ CheckpointOK'
  BY Zenon DEF ChainsOK, CheckpointOK
<1>4. InvalidatedOK(invalidated_blocks)'
  BY Zenon
<1>5. OnlyChildrenAreFinalized' /\ CrosslinkStopsAtRequest' /\ CrosslinkOK'
  BY Zenon DEF OnlyChildrenAreFinalized, CrosslinkStopsAtRequest, CrosslinkOK
<1>6. AckedIsFinalized'
  BY <1>1, Zenon DEF AckedIsFinalized
<1> QED BY <1>1, <1>2, <1>3, <1>4, <1>5, <1>6, Zenon

\* The other steps of the checkpoint phase leave the chains as they are.
LEMMA CheckpointPhaseStep ==
    ASSUME IInv, RejectCheckpointVerified \/ FinishCheckpoints
    PROVE  IInv'
<1> USE DEF IInv, RejectCheckpointVerified, FinishCheckpoints, db, nfs, channels, loop, counters
<1>1. TypeOK'
  BY Zenon DEF TypeOK, Phases
<1>2. ChainsOK(chain_set, finalized_tip)' /\ InvalidatedOK(invalidated_blocks)'
  BY Zenon
<1>3. FinalizedIsAChain' /\ OnlyChildrenAreFinalized' /\ AckedIsFinalized'
  BY Zenon DEF FinalizedIsAChain, OnlyChildrenAreFinalized, AckedIsFinalized
<1>4. CrosslinkStopsAtRequest' /\ CrosslinkOK' /\ CheckpointOK'
  BY Zenon DEF CrosslinkStopsAtRequest, CrosslinkOK, CheckpointOK
<1> QED BY <1>1, <1>2, <1>3, <1>4, Zenon

\* A rejected block leaves no trace in the chains.
LEMMA RejectBlockStep ==
    ASSUME IInv, NEW b \in Block, RejectBlock(b)
    PROVE  IInv'
<1> USE DEF IInv, RejectBlock, Receive, db, nfs, channels, loop, counters
<1>1. parent_error_map' \in Seq(Block)
  <2>1. parent_error_map \in Seq(Block)
    BY Zenon DEF TypeOK
  <2>2. Append(parent_error_map, b) \in Seq(Block) /\ Append(parent_error_map, b) # <<>>
    BY <2>1
  <2>3. Tail(Append(parent_error_map, b)) \in Seq(Block)
    BY <2>2
  <2> QED BY <2>2, <2>3, Zenon DEF RecordError
<1>2. TypeOK'
  BY <1>1, Zenon DEF TypeOK
<1>3. ChainsOK(chain_set, finalized_tip)' /\ InvalidatedOK(invalidated_blocks)'
  BY Zenon
<1>4. FinalizedIsAChain' /\ OnlyChildrenAreFinalized' /\ AckedIsFinalized'
  BY Zenon DEF FinalizedIsAChain, OnlyChildrenAreFinalized, AckedIsFinalized
<1>5. CrosslinkStopsAtRequest' /\ CrosslinkOK' /\ CheckpointOK'
  BY Zenon DEF CrosslinkStopsAtRequest, CrosslinkOK, CheckpointOK
<1> QED BY <1>2, <1>3, <1>4, <1>5, Zenon

\* A committed block extends a chain or starts a fork.
LEMMA CommitBlockStep ==
    ASSUME IInv, NEW b \in Block, CommitBlock(b)
    PROVE  IInv'
<1> USE DEF IInv, CommitBlock, Receive, db, loop, counters
<1>1. PICK c \in NewChains(b) : chain_set' = InsertAbove(chain_set, c, Parent[b])
  BY Zenon
<1>2. PICK base : IsBaseChain(base, Parent[b]) /\ c = base \cup {b}
  BY Zenon DEF NewChains, Push
<1>3. finalized_tip \in Block /\ Parent[b] \in Block /\ Height[b] > Height[Parent[b]]
  <2>1. Height[b] > Height[finalized_tip]
    BY Zenon DEF Candidate, InitialContextualValidity
  <2>2. finalized_tip \in Block
    BY Zenon DEF TypeOK
  <2>3. Height[b] = Height[Parent[b]] + 1 /\ Height[Parent[b]] \in Nat /\ Parent[b] \in Block
    BY <2>1, <2>2, ParentHeight, Zenon
  <2> QED BY <2>2, <2>3
<1>4. {b} \in SUBSET Block /\ ExtendsBlock({b}, Parent[b]) /\ Bounded({b})
  BY <1>3, BoundedSingleton, Zenon DEF ExtendsBlock
<1>5. c \in SUBSET Block /\ ExtendsBlock(c, finalized_tip) /\ Bounded(c)
  BY <1>2, <1>3, <1>4, JoinBaseChain, Zenon
<1>6. ChainsOK(chain_set', finalized_tip)
  BY <1>1, <1>5, InsertAddsOne DEF ChainsOK
<1>7. published' \subseteq SUBSET Block /\ latest_tip' \in Block
  BY <1>3, <1>6, PublishType, Zenon
<1>8. chain_set' \subseteq SUBSET Block
  BY <1>6, Zenon DEF ChainsOK
<1>9. TypeOK'
  BY <1>7, <1>8, Zenon DEF TypeOK, Phases
<1>10. FinalizedIsAChain' /\ OnlyChildrenAreFinalized' /\ AckedIsFinalized'
  BY Zenon DEF FinalizedIsAChain, OnlyChildrenAreFinalized, AckedIsFinalized
<1>11. CrosslinkStopsAtRequest' /\ CrosslinkOK' /\ CheckpointOK'
  BY Zenon DEF CrosslinkStopsAtRequest, CrosslinkOK, CheckpointOK
<1> QED BY <1>6, <1>9, <1>10, <1>11, Zenon

\* A commit that panics leaves the chains as they are.
LEMMA CommitBlockPanicsStep ==
    ASSUME IInv, NEW b \in Block, CommitBlockPanics(b)
    PROVE  IInv'
<1>1. received' \subseteq Block /\ UNCHANGED acked /\ requests' \in Nat /\ restarts' \in Nat
  BY Zenon DEF CommitBlockPanics, Receive, IInv, TypeOK, counters
<1>2. Panic("at least one block") \/ Panic("unique tips")
  BY Zenon DEF CommitBlockPanics
<1> QED BY <1>1, <1>2, PanicStep, Zenon DEF Panics

\* A decision picks the chain whose lowest blocks are to be finalized.
LEMMA CrosslinkFinalizedStep ==
    ASSUME IInv, NEW h \in Block, CrosslinkFinalized(h)
    PROVE  IInv'
<1> USE DEF IInv, CrosslinkFinalized, db, counters
<1>1. PICK c \in chain_set : h \in c /\ remaining' = Cardinality(Fork(c, h))
  BY Zenon DEF IsBest, ChainsContaining
<1>2. c \in SUBSET Block /\ ExtendsBlock(c, finalized_tip) /\ finalized_tip \in Block
  BY Zenon DEF ChainsOK, TypeOK
<1>3. /\ remaining' = Height[h] - Height[finalized_tip]
      /\ remaining' \in Nat /\ remaining' # 0
  <2>1. remaining' = Height[h] - Height[finalized_tip]
    BY <1>1, <1>2, ForkCount, Zenon
  <2>2. Height[h] > Height[finalized_tip]
    BY <1>1, <1>2 DEF ExtendsBlock
  <2>3. Height[h] \in Nat /\ Height[finalized_tip] \in Nat
    BY <1>2, TreeAssumption, Zenon
  <2> QED BY <2>1, <2>2, <2>3
<1>4. chain_set' \subseteq chain_set /\ \A d \in chain_set' : h \in d
  BY Zenon DEF CrosslinkFinalizeChains, ChainsContaining
<1>5. ChainsOK(chain_set', finalized_tip)
  BY <1>4, Zenon DEF ChainsOK
<1>6. published' \subseteq SUBSET Block /\ latest_tip' \in Block
  BY <1>2, <1>5, PublishType, Zenon
<1>7. TypeOK'
  BY <1>3, <1>4, <1>6, Zenon DEF TypeOK, Phases
<1>8. FinalizedIsAChain' /\ OnlyChildrenAreFinalized' /\ AckedIsFinalized' /\ CheckpointOK'
  BY Zenon DEF FinalizedIsAChain, OnlyChildrenAreFinalized, AckedIsFinalized, CheckpointOK
<1>9. CrosslinkStopsAtRequest' /\ CrosslinkOK'
  BY <1>3, <1>4, Zenon DEF CrosslinkStopsAtRequest, CrosslinkOK
<1> QED BY <1>5, <1>7, <1>8, <1>9, Zenon

\* Answering a Crosslink request changes no chain.
LEMMA CrosslinkAnswerStep ==
    ASSUME IInv, CrosslinkAnswer \/ \E h \in Block : CrosslinkAlreadyFinalized(h)
    PROVE  IInv'
<1> USE DEF IInv, CrosslinkAnswer, CrosslinkAlreadyFinalized, db, nfs, channels, loop, counters
<1>1. AckedIsFinalized' /\ acked' \subseteq Block
  BY Zenon DEF AckedIsFinalized, CrosslinkOK, TypeOK
<1>2. TypeOK'
  BY <1>1, Zenon DEF TypeOK, Phases
<1>3. ChainsOK(chain_set, finalized_tip)' /\ InvalidatedOK(invalidated_blocks)'
  BY Zenon
<1>4. FinalizedIsAChain' /\ OnlyChildrenAreFinalized'
  BY Zenon DEF FinalizedIsAChain, OnlyChildrenAreFinalized
<1>5. CrosslinkStopsAtRequest' /\ CrosslinkOK' /\ CheckpointOK'
  BY Zenon DEF CrosslinkStopsAtRequest, CrosslinkOK, CheckpointOK
<1> QED BY <1>1, <1>2, <1>3, <1>4, <1>5, Zenon

\* What the two finalization loops have in common.
LEMMA FinalizeOneBlock ==
    ASSUME IInv, {} \notin chain_set, NEW best \in chain_set, Finalize(best),
           NEW prev, WriteBlock(NonFinalizedRoot(best), prev)
    PROVE  /\ ChainsOK(chain_set', finalized_tip') /\ InvalidatedOK(invalidated_blocks')
           /\ FinalizedIsAChain' /\ finalized \subseteq finalized'
           /\ finalized' \subseteq Block /\ finalized_tip' = NonFinalizedRoot(best)
           /\ finalized_tip' \in Block /\ finalized_tip' \in finalized'
           /\ stored_trees' \subseteq Nat \X Nat /\ chain_set' \subseteq SUBSET Block
           /\ DOMAIN invalidated_blocks' \subseteq Nat
           /\ invalidated_blocks' \in [DOMAIN invalidated_blocks' -> Invalidation]
<1> DEFINE root == NonFinalizedRoot(best)
<1>1. finalized_tip \in Block /\ ChainsOK(chain_set, finalized_tip)
  BY Zenon DEF IInv, TypeOK
<1>2. /\ ChainsOK(FinalizeChains(chain_set, best), root)
      /\ root \in Block /\ Parent[root] = finalized_tip
      /\ Height[root] = Height[finalized_tip] + 1
  BY <1>1, FinalizeMovesChains
<1>3. IsChildOfTip(root)
  BY <1>2, Zenon DEF IsChildOfTip
<1>4. TypeOK /\ FinalizedIsAChain
  BY Zenon DEF IInv
<1>5. /\ FinalizedIsAChain' /\ finalized \subseteq finalized'
      /\ finalized' \subseteq Block /\ finalized_tip' = root
      /\ stored_trees' \subseteq Nat \X Nat
  BY <1>2, <1>3, <1>4, WriteBlockKeepsChain, Zenon
<1>6. ChainsOK(chain_set', finalized_tip')
  BY <1>2, <1>5, Zenon DEF Finalize
<1>7. DOMAIN invalidated_blocks' \subseteq DOMAIN invalidated_blocks
  BY Zenon DEF Finalize
<1>8. \A g \in DOMAIN invalidated_blocks' : invalidated_blocks'[g] = invalidated_blocks[g]
  BY Zenon DEF Finalize
<1>9. InvalidatedOK(invalidated_blocks')
  BY <1>7, <1>8, Zenon DEF IInv, InvalidatedOK
<1>10. /\ DOMAIN invalidated_blocks' \subseteq Nat
       /\ invalidated_blocks' \in [DOMAIN invalidated_blocks' -> Invalidation]
  BY <1>4, Zenon DEF TypeOK, Finalize
<1> QED BY <1>2, <1>5, <1>6, <1>9, <1>10, Zenon DEF ChainsOK, FinalizedIsAChain

\* Finalizing the root past the reorg limit keeps the chains above the database.
LEMMA ReorgFinalizeStep ==
    ASSUME IInv, ReorgFinalize
    PROVE  IInv'
<1> USE DEF ReorgFinalize, channels, loop, counters
<1>1. PICK best \in chain_set :
        /\ Finalize(best) /\ WriteBlock(NonFinalizedRoot(best), prev_trees)
        /\ prev_trees' = NoteTree[NonFinalizedRoot(best)]
  BY Zenon
<1>2. /\ ChainsOK(chain_set', finalized_tip') /\ InvalidatedOK(invalidated_blocks')
      /\ FinalizedIsAChain' /\ finalized \subseteq finalized'
      /\ finalized' \subseteq Block /\ finalized_tip' = NonFinalizedRoot(best)
      /\ finalized_tip' \in Block
      /\ stored_trees' \subseteq Nat \X Nat /\ chain_set' \subseteq SUBSET Block
      /\ DOMAIN invalidated_blocks' \subseteq Nat
      /\ invalidated_blocks' \in [DOMAIN invalidated_blocks' -> Invalidation]
  BY <1>1, FinalizeOneBlock, Zenon
<1>3. prev_trees' \in Nat
  BY <1>1, <1>2, NoteTreeAssumption, Zenon
<1>4. TypeOK'
  BY <1>2, <1>3, Zenon DEF IInv, TypeOK, Phases
<1>5. AckedIsFinalized' /\ OnlyChildrenAreFinalized'
  BY <1>2, Zenon DEF IInv, AckedIsFinalized, OnlyChildrenAreFinalized
<1>6. CrosslinkStopsAtRequest' /\ CrosslinkOK' /\ CheckpointOK'
  BY Zenon DEF CrosslinkStopsAtRequest, CrosslinkOK, CheckpointOK
<1> QED BY <1>2, <1>4, <1>5, <1>6, Zenon DEF IInv

\* Finalizing the root on request keeps the chains above the database.
LEMMA CrosslinkFinalizeStep ==
    ASSUME IInv, CrosslinkFinalize
    PROVE  IInv'
<1> USE DEF CrosslinkFinalize, channels, counters
<1>1. PICK best \in chain_set :
        Finalize(best) /\ WriteBlock(NonFinalizedRoot(best), NONE)
  BY Zenon
<1> DEFINE root == NonFinalizedRoot(best)
<1>2. /\ ChainsOK(chain_set', finalized_tip') /\ InvalidatedOK(invalidated_blocks')
      /\ FinalizedIsAChain' /\ finalized \subseteq finalized'
      /\ finalized' \subseteq Block /\ finalized_tip' = root
      /\ finalized_tip' \in Block /\ finalized_tip' \in finalized'
      /\ stored_trees' \subseteq Nat \X Nat /\ chain_set' \subseteq SUBSET Block
      /\ DOMAIN invalidated_blocks' \subseteq Nat
      /\ invalidated_blocks' \in [DOMAIN invalidated_blocks' -> Invalidation]
  BY <1>1, FinalizeOneBlock, Zenon
<1>3. /\ root \in best /\ Height[root] = Height[finalized_tip] + 1
      /\ \A d \in chain_set' : \E c \in chain_set :
            d = PopRoot(c) /\ NonFinalizedRoot(c) = root
  <2>1. ChainsOK(chain_set, finalized_tip) /\ finalized_tip \in Block
    BY Zenon DEF IInv, TypeOK
  <2> QED BY <1>1, <2>1, FinalizeMovesChains DEF Finalize
<1>4. /\ crosslink \in Block /\ \A c \in chain_set : crosslink \in c
      /\ remaining = Height[crosslink] - Height[finalized_tip]
      /\ Height[crosslink] \in Nat /\ Height[finalized_tip] \in Nat
  BY TreeAssumption, Zenon DEF IInv, TypeOK, CrosslinkOK, CrosslinkStopsAtRequest
<1>5. remaining' = Height[crosslink] - Height[finalized_tip'] /\ remaining' \in Nat
  BY <1>2, <1>3, <1>4 DEF IInv, TypeOK
<1>6. remaining' > 0 => \A d \in chain_set' : crosslink \in d
  <2> SUFFICES ASSUME remaining' > 0, NEW d \in chain_set' PROVE crosslink \in d
    BY Zenon
  <2>1. PICK c \in chain_set : d = PopRoot(c) /\ NonFinalizedRoot(c) = root
    BY <1>3, Zenon
  <2>2. crosslink # root
    BY <1>2, <1>4, <1>5
  <2> QED BY <1>4, <2>1, <2>2, Zenon DEF PopRoot
<1>7. remaining' = 0 => crosslink \in finalized'
  <2> SUFFICES ASSUME remaining' = 0 PROVE crosslink = root
    BY <1>2, Zenon
  <2>1. Height[crosslink] = Height[root]
    BY <1>2, <1>3, <1>4, <1>5
  <2>2. ExtendsBlock(best, finalized_tip)
    BY Zenon DEF IInv, ChainsOK
  <2> QED BY <1>3, <1>4, <2>1, <2>2, Zenon DEF ExtendsBlock
<1>8. TypeOK'
  BY <1>2, <1>5, Zenon DEF IInv, TypeOK
<1>9. AckedIsFinalized' /\ OnlyChildrenAreFinalized' /\ CheckpointOK'
  BY <1>2, Zenon DEF IInv, AckedIsFinalized, OnlyChildrenAreFinalized, CheckpointOK
<1>10. CrosslinkStopsAtRequest' /\ CrosslinkOK'
  BY <1>4, <1>5, <1>6, <1>7, Zenon DEF CrosslinkStopsAtRequest, CrosslinkOK
<1> QED BY <1>2, <1>8, <1>9, <1>10, Zenon DEF IInv

\* A finalization that panics leaves the chains as they are.
LEMMA FinalizePanicsStep ==
    ASSUME IInv, FinalizePanics
    PROVE  IInv'
<1>1. received' \subseteq Block /\ UNCHANGED acked /\ requests' \in Nat /\ restarts' \in Nat
  BY Zenon DEF FinalizePanics, IInv, TypeOK, counters
<1>2. CASE {} \in chain_set \/ chain_set = {}
  <2>1. Panic("at least one block")
    BY <1>2, Zenon DEF FinalizePanics
  <2> QED BY <1>1, <2>1, PanicStep, Zenon DEF Panics
<1>3. CASE ~({} \in chain_set \/ chain_set = {})
  <2>1. PICK best \in chain_set : ~IsChildOfTip(NonFinalizedRoot(best))
    BY <1>3, Zenon DEF FinalizePanics
  <2>2. ChainsOK(chain_set, finalized_tip) /\ finalized_tip \in Block
    BY Zenon DEF IInv, TypeOK
  <2>3. IsChildOfTip(NonFinalizedRoot(best))
    BY <1>3, <2>2, FinalizeMovesChains DEF IsChildOfTip
  <2> QED BY <2>1, <2>3, Zenon
<1> QED BY <1>2, <1>3, Zenon

-----------------------------------------------------------------------------
\* A request leaves alone what was received and acknowledged.
LEMMA RequestType ==
    ASSUME IInv, Request
    PROVE  /\ received' \subseteq Block /\ UNCHANGED <<received, acked>>
           /\ requests \in Nat /\ requests' \in Nat /\ restarts' \in Nat
           /\ phase = "recv"
BY DEF IInv, TypeOK, Request

\* A request that is refused changes no chain.
LEMMA RequestFailsStep ==
    ASSUME IInv, Request, RequestFails
    PROVE  IInv'
<1>1. CASE ~CanPublish(chain_set)
  <2>1. Panic("empty state")
    BY <1>1, Zenon DEF RequestFails
  <2> QED BY <2>1, PanicStep, RequestType, Zenon DEF Panics
<1>2. CASE CanPublish(chain_set)
  <2>1. /\ Publish(chain_set)
        /\ UNCHANGED <<phase, panic, db, prev_trees, nfs, parent_error_map, loop>>
    BY <1>2, Zenon DEF RequestFails
  <2>2. published' \subseteq SUBSET Block /\ latest_tip' \in Block
    BY <2>1, PublishType, Zenon DEF IInv, TypeOK
  <2>3. TypeOK'
    BY <2>1, <2>2, RequestType, Zenon DEF IInv, TypeOK, db, nfs, loop
  <2>4. ChainsOK(chain_set, finalized_tip)' /\ InvalidatedOK(invalidated_blocks)'
    BY <2>1, Zenon DEF IInv, db, nfs
  <2>5. FinalizedIsAChain' /\ OnlyChildrenAreFinalized' /\ AckedIsFinalized'
    BY <2>1, RequestType, Zenon
       DEF IInv, FinalizedIsAChain, OnlyChildrenAreFinalized, AckedIsFinalized, db
  <2>6. CrosslinkStopsAtRequest' /\ CrosslinkOK' /\ CheckpointOK'
    BY <2>1, RequestType, Zenon DEF CrosslinkStopsAtRequest, CrosslinkOK, CheckpointOK
  <2> QED BY <2>3, <2>4, <2>5, <2>6, Zenon DEF IInv
<1> QED BY <1>1, <1>2, Zenon

\* A request that changes the chain set to well-formed chains.
LEMMA RequestSucceeds ==
    ASSUME IInv, Request, ChainsOK(chain_set', finalized_tip), Publish(chain_set'),
           InvalidatedOK(invalidated_blocks'), DOMAIN invalidated_blocks' \subseteq Nat,
           invalidated_blocks' \in [DOMAIN invalidated_blocks' -> Invalidation],
           UNCHANGED <<phase, panic, db, prev_trees, parent_error_map, loop>>
    PROVE  IInv'
<1>1. published' \subseteq SUBSET Block /\ latest_tip' \in Block
  BY PublishType, Zenon DEF IInv, TypeOK
<1>2. chain_set' \subseteq SUBSET Block
  BY Zenon DEF ChainsOK
<1>3. TypeOK'
  BY <1>1, <1>2, RequestType, Zenon DEF IInv, TypeOK, db, loop
<1>4. ChainsOK(chain_set, finalized_tip)' /\ InvalidatedOK(invalidated_blocks)'
  BY Zenon DEF db
<1>5. FinalizedIsAChain' /\ OnlyChildrenAreFinalized' /\ AckedIsFinalized'
  BY RequestType, Zenon DEF IInv, FinalizedIsAChain, OnlyChildrenAreFinalized, AckedIsFinalized, db
<1>6. CrosslinkStopsAtRequest' /\ CrosslinkOK' /\ CheckpointOK'
  BY RequestType, Zenon DEF CrosslinkStopsAtRequest, CrosslinkOK, CheckpointOK
<1> QED BY <1>3, <1>4, <1>5, <1>6, Zenon DEF IInv

\* The map of invalidated blocks stays well formed when an entry is added.
LEMMA InsertInvalidatedOK ==
    ASSUME TypeOK, InvalidatedOK(invalidated_blocks), NEW d \in SUBSET Block, d # {},
           ExtendsBlock(d, Parent[NonFinalizedRoot(d)]), Bounded(d)
    PROVE  /\ InvalidatedOK(InsertInvalidated(d))
           /\ DOMAIN InsertInvalidated(d) \subseteq Nat
           /\ InsertInvalidated(d) \in [DOMAIN InsertInvalidated(d) -> Invalidation]
<1> DEFINE h == Height[NonFinalizedRoot(d)]
           old == DOMAIN invalidated_blocks
           entry == [blocks |-> d,
                     index |-> IF h \in old THEN invalidated_blocks[h].index ELSE requests]
           new == [g \in old \cup {h} |-> IF g = h THEN entry ELSE invalidated_blocks[g]]
           oldest == {g \in DOMAIN new : \A k \in DOMAIN new : new[g].index <= new[k].index}
<1>1. h \in Nat /\ old \subseteq Nat /\ requests \in Nat
  BY RootIsLowest, TreeAssumption, Zenon DEF TypeOK
<1>2. \A g \in old : invalidated_blocks[g] \in Invalidation
  BY Zenon DEF TypeOK
<1>3. entry \in Invalidation /\ entry.blocks = d
  BY <1>1, <1>2, Zenon DEF Invalidation
<1> HIDE DEF entry
<1>4. DOMAIN new = old \cup {h} /\ \A g \in DOMAIN new : new[g] \in Invalidation
  BY <1>2, <1>3, Zenon
<1>5. \A g \in DOMAIN new :
        (g = h /\ new[g] = entry) \/ (g \in old /\ new[g] = invalidated_blocks[g])
  BY <1>4, Zenon
<1>6. InvalidatedOK(new)
  BY <1>3, <1>5, Zenon DEF InvalidatedOK
<1> HIDE DEF new
<1>7. InsertInvalidated(d) = IF Cardinality(DOMAIN new) > MAX_INVALIDATED_BLOCKS
                             THEN [g \in DOMAIN new \ oldest |-> new[g]] ELSE new
  BY Zenon DEF InsertInvalidated, new, entry
<1> HIDE DEF oldest
<1>8. new = [g \in DOMAIN new |-> new[g]]
  BY Zenon DEF new
<1>9. PICK D : D \subseteq DOMAIN new /\ InsertInvalidated(d) = [g \in D |-> new[g]]
  BY <1>7, <1>8, Zenon
<1> QED BY <1>1, <1>4, <1>6, <1>9, Zenon DEF InvalidatedOK

\* Invalidation cuts the chains above a block.
LEMMA InvalidateBlockStep ==
    ASSUME IInv, NEW h \in Block, InvalidateBlock(h)
    PROVE  IInv'
<1>1. PICK c \in chain_set :
        /\ h \in c
        /\ chain_set' = InsertWithout(chain_set, InvalidateInChain(c, h), h)
        /\ invalidated_blocks' = InsertInvalidated(ChildBlocks(c, h))
  BY Zenon DEF InvalidateBlock, IsBest, ChainsContaining
<1>2. /\ c \in SUBSET Block /\ ExtendsBlock(c, finalized_tip) /\ Bounded(c)
      /\ finalized_tip \in Block
  BY Zenon DEF IInv, ChainsOK, TypeOK
<1>3. /\ InvalidateInChain(c, h) \in SUBSET Block
      /\ ExtendsBlock(InvalidateInChain(c, h), finalized_tip)
      /\ Bounded(InvalidateInChain(c, h))
  <2>1. InvalidateInChain(c, h) \subseteq c
    BY Zenon DEF InvalidateInChain, Fork
  <2> QED BY <1>1, <1>2, <2>1, InvalidateExtends, BoundedSubset, Zenon
<1>4. ChainsOK(chain_set', finalized_tip)
  BY <1>1, <1>3, InsertAddsOne DEF IInv, ChainsOK
<1>5. /\ ChildBlocks(c, h) \in SUBSET Block /\ ChildBlocks(c, h) # {}
      /\ ExtendsBlock(ChildBlocks(c, h), Parent[NonFinalizedRoot(ChildBlocks(c, h))])
      /\ Bounded(ChildBlocks(c, h))
  <2>1. ChildBlocks(c, h) \subseteq c
    BY Zenon DEF ChildBlocks
  <2> QED BY <1>1, <1>2, <2>1, ChildBlocksExtend, BoundedSubset, Zenon
<1>6. /\ InvalidatedOK(invalidated_blocks') /\ DOMAIN invalidated_blocks' \subseteq Nat
      /\ invalidated_blocks' \in [DOMAIN invalidated_blocks' -> Invalidation]
  BY <1>1, <1>5, InsertInvalidatedOK, Zenon DEF IInv
<1> QED BY <1>4, <1>6, RequestSucceeds, Zenon DEF InvalidateBlock

\* Reconsidered blocks come back on top of a known parent.
LEMMA ReconsiderBlockStep ==
    ASSUME IInv, NEW h \in Block, ReconsiderBlock(h)
    PROVE  IInv'
<1>1. PICK c \in ReconsideredChains(h) : chain_set' = InsertAbove(chain_set, c, Parent[h])
  BY Zenon DEF ReconsiderBlock
<1>2. PICK e \in InvalidatedBy(h) :
        \E base : IsBaseChain(base, Parent[h]) /\ c = base \cup e.blocks
  BY Zenon DEF ReconsideredChains
<1>3. /\ e.blocks \in SUBSET Block /\ ExtendsBlock(e.blocks, Parent[h]) /\ Bounded(e.blocks)
  BY Zenon DEF InvalidatedBy, IInv, InvalidatedOK
<1>4. finalized_tip \in Block /\ ChainsOK(chain_set, finalized_tip) /\ Parent[h] \in Block
  BY TreeAssumption, Zenon DEF IInv, TypeOK
<1>5. c \in SUBSET Block /\ ExtendsBlock(c, finalized_tip) /\ Bounded(c)
  <2>1. PICK base : IsBaseChain(base, Parent[h]) /\ c = base \cup e.blocks
    BY <1>2, Zenon
  <2> QED BY <1>3, <1>4, <2>1, JoinBaseChain, Zenon
<1>6. ChainsOK(chain_set', finalized_tip)
  BY <1>1, <1>4, <1>5, InsertAddsOne DEF ChainsOK
<1>7. PICK D : /\ D \subseteq DOMAIN invalidated_blocks
               /\ invalidated_blocks' = [g \in D |-> invalidated_blocks[g]]
  BY Zenon DEF ReconsiderBlock
<1>8. /\ InvalidatedOK(invalidated_blocks') /\ DOMAIN invalidated_blocks' \subseteq Nat
      /\ invalidated_blocks' \in [DOMAIN invalidated_blocks' -> Invalidation]
  BY <1>7, Zenon DEF IInv, InvalidatedOK, TypeOK
<1> QED BY <1>6, <1>8, RequestSucceeds, Zenon DEF ReconsiderBlock

\* A request that panics leaves the chains as they are.
LEMMA RequestPanicsStep ==
    ASSUME IInv, NEW h \in Block, InvalidateBlockPanics(h) \/ ReconsiderBlockPanics(h)
    PROVE  IInv'
<1>1. Request /\ (Panic("unique tips") \/ Panic("at least one block"))
  BY Zenon DEF InvalidateBlockPanics, ReconsiderBlockPanics
<1> QED BY <1>1, PanicStep, RequestType, Zenon DEF Panics

\* After a restart the database is what was written.
LEMMA RestartStep ==
    ASSUME IInv, Restart
    PROVE  IInv'
<1> USE DEF Restart, db
<1>1. TypeOK'
  <2>1. DOMAIN invalidated_blocks' = {}
    BY Zenon
  <2>2. invalidated_blocks' \in [DOMAIN invalidated_blocks' -> Invalidation]
    BY <2>1, Zenon
  <2>3. <<>> \in Seq(Block)
    OBVIOUS
  <2> QED BY <2>1, <2>2, <2>3 DEF IInv, TypeOK, Phases
<1>2. ChainsOK(chain_set', finalized_tip') /\ InvalidatedOK(invalidated_blocks')
  BY Zenon DEF ChainsOK, InvalidatedOK
<1>3. FinalizedIsAChain' /\ OnlyChildrenAreFinalized' /\ AckedIsFinalized'
  BY Zenon DEF IInv, FinalizedIsAChain, OnlyChildrenAreFinalized, AckedIsFinalized
<1>4. CrosslinkStopsAtRequest' /\ CrosslinkOK' /\ CheckpointOK'
  BY Zenon DEF CrosslinkStopsAtRequest, CrosslinkOK, CheckpointOK
<1> QED BY <1>1, <1>2, <1>3, <1>4, Zenon DEF IInv

\* Every step of the task and of its clients keeps the invariant.
LEMMA NextIInv == IInv /\ [Next]_vars => IInv'
<1> SUFFICES ASSUME IInv, [Next]_vars PROVE IInv'
  BY Zenon
<1>1. ASSUME NEW b \in Block,
             \/ CommitCheckpointVerified(b) \/ RejectBlock(b) \/ CommitBlock(b)
             \/ CommitBlockPanics(b) \/ CrosslinkFinalized(b) \/ CrosslinkAlreadyFinalized(b)
      PROVE  IInv'
  BY <1>1, CommitCheckpointVerifiedStep, RejectBlockStep, CommitBlockStep,
     CommitBlockPanicsStep, CrosslinkFinalizedStep, CrosslinkAnswerStep, Zenon
<1>2. ASSUME NEW b \in Block,
             \/ InvalidateBlock(b) \/ InvalidateBlockPanics(b)
             \/ ReconsiderBlock(b) \/ ReconsiderBlockPanics(b)
      PROVE  IInv'
  BY <1>2, InvalidateBlockStep, ReconsiderBlockStep, RequestPanicsStep, Zenon
<1>3. CASE InvalidateUnknown \/ ReconsiderUnknown
  BY <1>3, RequestFailsStep, Zenon DEF InvalidateUnknown, ReconsiderUnknown
<1>4. ASSUME \/ RejectCheckpointVerified \/ FinishCheckpoints \/ ReorgFinalize
             \/ CrosslinkFinalize \/ FinalizePanics \/ CrosslinkAnswer \/ Restart
      PROVE  IInv'
  BY <1>4, CheckpointPhaseStep, ReorgFinalizeStep, CrosslinkFinalizeStep,
     FinalizePanicsStep, CrosslinkAnswerStep, RestartStep, Zenon
<1> QED BY <1>1, <1>2, <1>3, <1>4, StutterStep, Zenon DEF Next

-----------------------------------------------------------------------------
\* The invariant holds in every reachable state of the task, for every block
\* tree, fork limit, reorg limit, and number of requests and crashes.
THEOREM WriterInvariant == Spec => []IInv
BY InitIInv, NextIInv, PTL DEF Spec

\* The state of the task has its type.
THEOREM WriterType == Spec => []TypeOK
<1>1. IInv => TypeOK
  BY Zenon DEF IInv
<1> QED BY <1>1, WriterInvariant, PTL

\* Every chain in memory sits on the finalized tip (NonFinalizedState::finalize).
THEOREM ChainsStayOnFinalizedTip == Spec => []ChainsExtendFinalizedTip
<1>1. IInv => ChainsExtendFinalizedTip
  BY Zenon DEF IInv, ChainsOK, ChainsExtendFinalizedTip
<1> QED BY <1>1, WriterInvariant, PTL

\* The database is one chain from genesis to its tip.
THEOREM DatabaseIsAChain == Spec => []FinalizedIsAChain
<1>1. IInv => FinalizedIsAChain
  BY Zenon DEF IInv
<1> QED BY <1>1, WriterInvariant, PTL

\* The assertions of commit_finalized_direct never fail.
THEOREM FinalizationAssertionsHold == Spec => []OnlyChildrenAreFinalized
<1>1. IInv => OnlyChildrenAreFinalized
  BY Zenon DEF IInv
<1> QED BY <1>1, WriterInvariant, PTL

\* The Crosslink loop ends exactly at the requested block.
THEOREM CrosslinkLoopIsExact == Spec => []CrosslinkStopsAtRequest
<1>1. IInv => CrosslinkStopsAtRequest
  BY Zenon DEF IInv
<1> QED BY <1>1, WriterInvariant, PTL

\* A finalization that was answered with Ok is in the database, for good.
THEOREM AnsweredIsDurable == Spec => []AckedIsFinalized
<1>1. IInv => AckedIsFinalized
  BY Zenon DEF IInv
<1> QED BY <1>1, WriterInvariant, PTL

-----------------------------------------------------------------------------
\* No step removes a block from the database or takes an answer back.
LEMMA FinalityOnlyGrows ==
    ASSUME [Next]_vars PROVE finalized \subseteq finalized' /\ acked \subseteq acked'
<1> DEFINE A == finalized \subseteq finalized' /\ acked \subseteq acked'
<1>2. CASE \E b \in Block : CommitCheckpointVerified(b)
  BY <1>2, Zenon DEF CommitCheckpointVerified, WriteBlock
<1>3. CASE ReorgFinalize
  BY <1>3, Zenon DEF ReorgFinalize, WriteBlock
<1>4. CASE CrosslinkFinalize
  BY <1>4, Zenon DEF CrosslinkFinalize, WriteBlock
<1>5. ASSUME NEW b \in Block,
             \/ RejectBlock(b) \/ CommitBlock(b)
             \/ CrosslinkFinalized(b) \/ CrosslinkAlreadyFinalized(b)
             \/ InvalidateBlock(b) \/ ReconsiderBlock(b)
      PROVE  A
  <2>1. CASE RejectBlock(b) \/ CommitBlock(b)
    BY <2>1, Zenon DEF RejectBlock, CommitBlock, Receive, db
  <2>2. CASE CrosslinkFinalized(b) \/ CrosslinkAlreadyFinalized(b)
    BY <2>2, Zenon DEF CrosslinkFinalized, CrosslinkAlreadyFinalized, db
  <2>3. CASE InvalidateBlock(b) \/ ReconsiderBlock(b)
    BY <2>3, Zenon DEF InvalidateBlock, ReconsiderBlock, Request, db
  <2> QED BY <1>5, <2>1, <2>2, <2>3, Zenon
<1>6. ASSUME NEW b \in Block,
             \/ CommitBlockPanics(b) \/ InvalidateBlockPanics(b)
             \/ ReconsiderBlockPanics(b) \/ InvalidateUnknown \/ ReconsiderUnknown
      PROVE  A
  BY <1>6, Zenon DEF CommitBlockPanics, InvalidateBlockPanics, InvalidateUnknown, Receive, Request,
              ReconsiderBlockPanics, ReconsiderUnknown, RequestFails, Panic, db
<1>7. CASE RejectCheckpointVerified \/ FinishCheckpoints \/ FinalizePanics
           \/ CrosslinkAnswer \/ Restart \/ UNCHANGED vars
  BY <1>7, Zenon DEF RejectCheckpointVerified, FinishCheckpoints, FinalizePanics, Panic,
              CrosslinkAnswer, Restart, vars, db
<1> QED BY <1>2, <1>3, <1>4, <1>5, <1>6, <1>7, TreeAssumption, Zenon DEF Next

\* A finalized chain is one chain in the sense of the abstract log.
LEMMA FinalizedIsOneChain ==
    ASSUME NEW bs \in SUBSET Block, Genesis \in bs, ExtendsBlock(bs \ {Genesis}, Genesis)
    PROVE  Log!IsOneChain(bs)
<1>1. \A b \in bs \ {Genesis} : Parent[b] \in bs
  BY Zenon DEF ExtendsBlock
<1>2. ASSUME NEW x \in bs \ {Genesis}, NEW y \in bs \ {Genesis}, Parent[x] = Parent[y]
      PROVE  x = y
  BY <1>2, TreeAssumption DEF ExtendsBlock
<1> QED BY <1>1, <1>2, Zenon DEF Log!IsOneChain

\* The write task, with its loops, its panics and its crashes, implements the
\* finality log of a single replica: what it stores and what it answered only
\* grows, stays one chain, and nothing is answered before it is stored.
THEOREM WriterRefinesLog == Spec => ImplementsFinalityLog
<1> DEFINE store == [r \in {"db"} |-> finalized]
           confirmed == [r \in {"db"} |-> acked]
<1>1. Init => Log!Init
  BY Zenon DEF Init, Log!Init
<1>2. ASSUME IInv', [Next]_vars PROVE [Log!Next]_<<store, confirmed>>
  <2>1. finalized \subseteq finalized' /\ acked \subseteq acked'
    BY <1>2, FinalityOnlyGrows, Zenon
  <2>2. acked' \subseteq finalized'
    BY <1>2, Zenon DEF IInv, AckedIsFinalized
  <2>3. Log!IsOneChain(finalized')
    BY <1>2, FinalizedIsOneChain, Zenon DEF IInv, TypeOK, FinalizedIsAChain
  <2>4. UNION {store'[q] : q \in {"db"}} = finalized'
    BY Zenon
  <2>5. Log!Advance("db")
    BY <2>1, <2>2, <2>3, <2>4, Zenon DEF Log!Advance
  <2> QED BY <2>5, Zenon DEF Log!Next
<1> QED BY <1>1, <1>2, WriterInvariant, PTL DEF Spec, ImplementsFinalityLog, Log!Spec

-----------------------------------------------------------------------------
\* Why a stale previous tree does no harm to lookups: it is the tree of a
\* finalized block, and trees only grow along the finalized chain.
TreesInv ==
    /\ TreesAreRetrievable
    /\ \A p \in stored_trees : p[1] <= Height[finalized_tip]
    /\ \A x \in finalized : NoteTree[x] <= NoteTree[finalized_tip]
    /\ prev_trees # NONE => \E x \in finalized : prev_trees = NoteTree[x]

\* Writing a child of the tip keeps every tree retrievable.
LEMMA WriteBlockKeepsTrees ==
    ASSUME IInv, TreesInv, NEW b \in Block, NEW prev \in {NONE, prev_trees},
           IsChildOfTip(b), WriteBlock(b, prev)
    PROVE  /\ TreesAreRetrievable'
           /\ \A p \in stored_trees' : p[1] <= Height[finalized_tip']
           /\ \A x \in finalized' : NoteTree[x] <= NoteTree[finalized_tip']
           /\ finalized' = finalized \cup {b} /\ finalized_tip' = b
<1> DEFINE pair == <<Height[b], NoteTree[b]>>
<1>1. /\ finalized' = finalized \cup {b} /\ finalized_tip' = b
      /\ finalized \subseteq Block /\ finalized_tip \in finalized
      /\ stored_trees \subseteq Nat \X Nat
  BY Zenon DEF WriteBlock, IInv, TypeOK, FinalizedIsAChain
<1>2. /\ Height[b] = Height[finalized_tip] + 1 /\ NoteTree[finalized_tip] <= NoteTree[b]
      /\ \A x \in Block : Height[x] \in Nat /\ NoteTree[x] \in Nat
      /\ \A x \in finalized : Height[x] <= Height[finalized_tip]
  BY TreeAssumption, NoteTreeAssumption, Zenon DEF IsChildOfTip, IInv, FinalizedIsAChain
<1>3. stored_trees' = stored_trees \/ stored_trees' = stored_trees \cup {pair}
  BY Zenon DEF WriteBlock
<1>4. \A p \in stored_trees : p[1] \in Nat /\ p[1] <= Height[finalized_tip]
  BY <1>1, Zenon DEF TreesInv
<1>5. pair[1] = Height[b] /\ pair[2] = NoteTree[b]
  BY Zenon
<1> HIDE DEF pair
<1>6. \A p \in stored_trees' : p[1] <= Height[b]
  BY <1>1, <1>2, <1>3, <1>4, <1>5
<1>7. \A x \in finalized' : NoteTree[x] <= NoteTree[b]
  BY <1>1, <1>2 DEF TreesInv
<1>8. ASSUME NEW x \in finalized
      PROVE  \E p \in stored_trees' :
                /\ p[1] <= Height[x] /\ p[2] = NoteTree[x]
                /\ \A q \in stored_trees' : q[1] <= Height[x] => q[1] <= p[1]
  <2>1. PICK p \in stored_trees :
          /\ p[1] <= Height[x] /\ p[2] = NoteTree[x]
          /\ \A q \in stored_trees : q[1] <= Height[x] => q[1] <= p[1]
    BY Zenon DEF TreesInv, TreesAreRetrievable
  <2>2. ~(pair[1] <= Height[x])
    BY <1>1, <1>2, <1>5
  <2> QED BY <1>3, <2>1, <2>2, Zenon
<1>9. \E p \in stored_trees' :
        /\ p[1] <= Height[b] /\ p[2] = NoteTree[b]
        /\ \A q \in stored_trees' : q[1] <= Height[b] => q[1] <= p[1]
  <2>1. CASE stored_trees' = stored_trees \cup {pair}
    BY <1>5, <1>6, <2>1, Zenon
  <2>2. CASE stored_trees' # stored_trees \cup {pair}
    <3>1. stored_trees' = stored_trees
          /\ NoteTree[b] = (IF prev = NONE THEN TreeForTip ELSE prev)
      BY <2>2, Zenon DEF WriteBlock, pair
    <3>2. PICK p \in stored_trees :
            /\ p[1] <= Height[finalized_tip] /\ p[2] = NoteTree[finalized_tip]
            /\ \A q \in stored_trees : q[1] <= Height[finalized_tip] => q[1] <= p[1]
      BY <1>1, Zenon DEF TreesInv, TreesAreRetrievable
    <3>3. \A q \in stored_trees : q[1] <= p[1]
      BY <1>4, <3>2, Zenon
    <3>4. CASE prev = NONE
      <4> DEFINE m == CHOOSE r \in stored_trees : \A q \in stored_trees : q[1] <= r[1]
      <4>1. m \in stored_trees /\ \A q \in stored_trees : q[1] <= m[1]
        BY <3>2, <3>3, Zenon
      <4>2. m[2] = NoteTree[b]
        BY <3>1, <3>4, Zenon DEF TreeForTip
      <4> HIDE DEF m
      <4> QED BY <1>6, <3>1, <4>1, <4>2, Zenon
    <3>5. CASE prev # NONE
      <4>1. PICK x \in finalized : NoteTree[b] = NoteTree[x]
        BY <3>1, <3>5, Zenon DEF TreesInv
      <4>2. NoteTree[x] <= NoteTree[finalized_tip]
        BY Zenon DEF TreesInv
      <4>3. NoteTree[finalized_tip] = NoteTree[b]
        BY <1>1, <1>2, <4>1, <4>2
      <4> QED BY <1>6, <3>1, <3>2, <3>3, <4>3, Zenon
    <3> QED BY <3>4, <3>5, Zenon
  <2> QED BY <2>1, <2>2, Zenon
<1>10. TreesAreRetrievable'
  BY <1>1, <1>8, <1>9, Zenon DEF TreesAreRetrievable
<1> QED BY <1>1, <1>6, <1>7, <1>10, Zenon

\* Every step keeps TreesInv.
LEMMA NextTreesInv == IInv /\ TreesInv /\ [Next]_vars => TreesInv'
<1> SUFFICES ASSUME IInv, TreesInv, [Next]_vars PROVE TreesInv'
  BY Zenon
<1>1. ASSUME UNCHANGED db, UNCHANGED prev_trees \/ prev_trees' = NONE PROVE TreesInv'
  BY <1>1, Zenon DEF TreesInv, TreesAreRetrievable, db
<1>2. CASE \E b \in Block : CommitCheckpointVerified(b)
  <2>1. PICK b \in Block : CommitCheckpointVerified(b)
    BY <1>2, Zenon
  <2>2. IsChildOfTip(b) /\ WriteBlock(b, prev_trees) /\ prev_trees' = NoteTree[b]
    BY <2>1, Zenon DEF CommitCheckpointVerified
  <2> QED BY <2>2, WriteBlockKeepsTrees, Zenon DEF TreesInv
<1>3. ASSUME NEW best \in chain_set, {} \notin chain_set
      PROVE  NonFinalizedRoot(best) \in Block
  BY <1>3, RootIsLowest, Zenon DEF IInv, TypeOK
<1>4. CASE ReorgFinalize
  <2>1. PICK best \in chain_set :
          /\ IsChildOfTip(NonFinalizedRoot(best))
          /\ WriteBlock(NonFinalizedRoot(best), prev_trees)
          /\ prev_trees' = NoteTree[NonFinalizedRoot(best)]
    BY <1>4, Zenon DEF ReorgFinalize
  <2>2. NonFinalizedRoot(best) \in Block
    BY <1>3, <1>4, Zenon DEF ReorgFinalize
  <2> QED BY <2>1, <2>2, WriteBlockKeepsTrees, Zenon DEF TreesInv
<1>5. CASE CrosslinkFinalize
  <2>1. PICK best \in chain_set :
          /\ IsChildOfTip(NonFinalizedRoot(best))
          /\ WriteBlock(NonFinalizedRoot(best), NONE)
    BY <1>5, Zenon DEF CrosslinkFinalize
  <2>2. NonFinalizedRoot(best) \in Block /\ prev_trees' = prev_trees
    BY <1>3, <1>5, Zenon DEF CrosslinkFinalize
  <2> QED BY <2>1, <2>2, WriteBlockKeepsTrees, Zenon DEF TreesInv
<1>6. ASSUME NEW b \in Block,
             \/ RejectBlock(b) \/ CommitBlock(b) \/ CommitBlockPanics(b)
             \/ CrosslinkFinalized(b) \/ CrosslinkAlreadyFinalized(b)
             \/ InvalidateBlock(b) \/ InvalidateBlockPanics(b) \/ InvalidateUnknown
             \/ ReconsiderBlock(b) \/ ReconsiderBlockPanics(b) \/ ReconsiderUnknown
      PROVE  UNCHANGED db /\ UNCHANGED prev_trees
  BY <1>6, Zenon DEF RejectBlock, CommitBlock, CommitBlockPanics, CrosslinkFinalized,
              CrosslinkAlreadyFinalized, InvalidateBlock, InvalidateBlockPanics,
              InvalidateUnknown, ReconsiderBlock, ReconsiderBlockPanics,
              ReconsiderUnknown, RequestFails, Panic
<1>7. CASE RejectCheckpointVerified \/ FinishCheckpoints \/ FinalizePanics
           \/ CrosslinkAnswer \/ Restart \/ UNCHANGED vars
  BY <1>1, <1>7, Zenon DEF RejectCheckpointVerified, FinishCheckpoints, FinalizePanics, Panic,
              CrosslinkAnswer, Restart, vars
<1> QED BY <1>1, <1>2, <1>4, <1>5, <1>6, <1>7, TreeAssumption DEF Next

\* The tree of every finalized block is the one stored at the greatest height at
\* or below it, although a finalization by Crosslink leaves stale previous trees
\* (prepare_trees_batch).
THEOREM TreesStayRetrievable == Spec => []TreesAreRetrievable
<1>1. Init => TreesInv
  BY TreeAssumption, NoteTreeAssumption DEF Init, TreesInv, TreesAreRetrievable
<1>2. TreesInv => TreesAreRetrievable
  BY Zenon DEF TreesInv
<1> QED BY <1>1, <1>2, NextTreesInv, WriterInvariant, PTL DEF Spec
-----------------------------------------------------------------------------
\* What a published chain has above the database.
Rest(best) == {b \in best : Height[b] > Height[finalized_tip]}

\* A finalization loop has an iteration to run.
Looping == phase = "reorg" \/ (phase = "crosslink" /\ remaining > 0)

\* Why readers see one chain: the loops finalize the chain that was published as
\* the best before they began, because taking the same root from every chain
\* keeps their order, so what is left of that chain stays the best in memory.
ReadersInv ==
    /\ PublishedBestChainConnects
    /\ phase = "checkpoint" => published = {}
    /\ \E t \in Block : ChainsOK(published, t)
    /\ \A best \in published : IsBest(best, published) => best # {}
    /\ Looping => \E best \in published :
            IsBest(best, published) /\ Rest(best) # {} /\ IsBest(Rest(best), chain_set)

\* update_latest_chain_channels makes the channels agree with the database.
LEMMA PublishKeepsReaders ==
    ASSUME IInv, ChainsOK(chain_set', finalized_tip), Publish(chain_set'), UNCHANGED db,
           phase' # "checkpoint"
    PROVE  ReadersInv'
<1>1. finalized_tip \in Block /\ finalized_tip \in finalized
  BY Zenon DEF IInv, TypeOK, FinalizedIsAChain
<1>2. UNCHANGED <<finalized, finalized_tip>>
  BY Zenon DEF db
<1>3. PICK best \in chain_set' : /\ IsBest(best, chain_set') /\ best # {}
                                 /\ published' = chain_set'
                                 /\ latest_tip' = NonFinalizedTip(best)
  BY Zenon DEF Publish
<1>4. /\ best \in SUBSET Block /\ Bounded(best)
      /\ \A b \in best : Height[b] > Height[finalized_tip] /\ Parent[b] \in best \cup {finalized_tip}
  BY Zenon DEF ChainsOK, ExtendsBlock
<1>5. NonFinalizedTip(best) \in best
  BY <1>3, <1>4, TipIsHighest, Zenon
<1>6. \A d \in published' : IsBest(d, published') => d = best
  BY <1>1, <1>3, BestIsUnique, Zenon
<1>7. \A x \in Block : Height[x] \in Nat
  BY TreeAssumption, Zenon
<1>8. PublishedBestChainConnects'
  <2>1. ASSUME NEW b \in best
        PROVE  /\ Height[b] <= Height[finalized_tip'] => b \in finalized'
               /\ Parent[b] \in best \cup finalized'
    BY <1>1, <1>2, <1>4, <1>7
  <2>2. Height[latest_tip'] >= Height[finalized_tip']
    <3>1. latest_tip' \in best
      BY <1>3, <1>5, Zenon
    <3>2. Height[latest_tip'] > Height[finalized_tip] /\ Height[latest_tip'] \in Nat
      BY <1>4, <1>7, <3>1, Zenon
    <3>3. Height[finalized_tip] \in Nat
      BY <1>1, <1>7, Zenon
    <3> QED BY <1>2, <3>2, <3>3
  <2> QED BY <1>3, <1>6, <2>1, <2>2, Zenon DEF PublishedBestChainConnects
<1>9. Rest(best)' = best
  BY <1>2, <1>4, Zenon DEF Rest
<1> QED BY <1>1, <1>2, <1>3, <1>6, <1>8, <1>9, Zenon DEF ReadersInv

\* Steps that change neither the database nor what was published or is in memory.
LEMMA QuietStepKeepsReaders ==
    ASSUME ReadersInv, UNCHANGED <<db, channels, chain_set>>,
           phase' = "checkpoint" => phase = "checkpoint", Looping' => Looping
    PROVE  ReadersInv'
BY Zenon DEF ReadersInv, PublishedBestChainConnects, Rest, db, channels

\* An iteration of a finalization loop moves the root of the published best
\* chain to the database.
LEMMA FinalizeKeepsReaders ==
    ASSUME IInv, ReadersInv, Looping, {} \notin chain_set, NEW best \in chain_set,
           IsBest(best, chain_set), Finalize(best), NEW prev,
           WriteBlock(NonFinalizedRoot(best), prev), UNCHANGED channels,
           phase' # "checkpoint", Looping' => PopRoot(best) # {}
    PROVE  ReadersInv'
<1> DEFINE root == NonFinalizedRoot(best)
<1>1. /\ finalized_tip \in Block /\ ChainsOK(chain_set, finalized_tip)
      /\ UNCHANGED <<published, latest_tip>>
  BY Zenon DEF IInv, TypeOK, channels
<1>2. /\ root \in best /\ root \in Block /\ Height[root] = Height[finalized_tip] + 1
      /\ \A x \in best : Height[root] <= Height[x]
  BY <1>1, FinalizeMovesChains, RootIsLowest, Zenon DEF ChainsOK
<1>3. /\ best \in SUBSET Block /\ best # {} /\ ExtendsBlock(best, finalized_tip) /\ Bounded(best)
      /\ \A x \in Block : Height[x] \in Nat
  BY <1>1, TreeAssumption, Zenon DEF ChainsOK
<1>4. finalized' = finalized \cup {root} /\ finalized_tip' = root
  BY Zenon DEF WriteBlock
<1>5. PICK p \in published : IsBest(p, published) /\ IsBest(Rest(p), chain_set)
  BY Zenon DEF ReadersInv
<1>6. best = Rest(p)
  BY <1>1, <1>5, BestIsUnique, Zenon
<1>7. PICK t \in Block : ChainsOK(published, t)
  BY Zenon DEF ReadersInv
<1>8. \A q \in published : IsBest(q, published) => q = p
  BY <1>5, <1>7, BestIsUnique, Zenon
<1>9. /\ p \in SUBSET Block /\ Bounded(p) /\ p # {} /\ NonFinalizedTip(p) = latest_tip
      /\ \A b \in p : /\ Height[b] <= Height[finalized_tip] => b \in finalized
                      /\ Parent[b] \in p \cup finalized
  BY <1>5, <1>7, Zenon DEF ReadersInv, PublishedBestChainConnects, ChainsOK
<1> HIDE DEF root
<1>10. ASSUME NEW b \in p PROVE /\ Height[b] <= Height[root] => b \in finalized'
                                /\ Height[b] > Height[root] <=> b \in best \ {root}
  <2>1. /\ Height[b] \in Nat /\ Height[root] \in Nat /\ Height[finalized_tip] \in Nat
        /\ Height[root] = Height[finalized_tip] + 1
    BY <1>1, <1>2, <1>3, <1>9, Zenon
  <2>2. b \in best <=> Height[b] > Height[finalized_tip]
    BY <1>6, Zenon DEF Rest
  <2>3. CASE Height[b] <= Height[finalized_tip]
    <3>1. b \in finalized
      BY <1>9, <2>3, Zenon
    <3>2. ~(Height[b] > Height[root]) /\ ~(Height[b] > Height[finalized_tip])
      BY <2>1, <2>3
    <3> QED BY <1>4, <2>2, <3>1, <3>2, Zenon
  <2>4. CASE ~(Height[b] <= Height[finalized_tip])
    <3>1. b \in best
      BY <2>1, <2>2, <2>4
    <3>2. Height[b] = Height[root] => b = root
      BY <1>2, <1>3, <3>1, Zenon DEF ExtendsBlock
    <3>3. Height[root] <= Height[b]
      BY <1>2, <3>1, Zenon
    <3> QED BY <1>4, <2>1, <3>1, <3>2, <3>3
  <2> QED BY <2>3, <2>4, Zenon
<1>11. root \in p /\ Height[latest_tip] >= Height[root] /\ latest_tip \in Block
  <2>1. root \in p
    BY <1>2, <1>6, Zenon DEF Rest
  <2> QED BY <1>3, <1>9, <2>1, TipIsHighest, Zenon
<1>12. PublishedBestChainConnects'
  <2>1. \A b \in p : /\ Height[b] <= Height[finalized_tip'] => b \in finalized'
                     /\ Parent[b] \in p \cup finalized'
    BY <1>4, <1>9, <1>10, Zenon
  <2> QED BY <1>1, <1>4, <1>8, <1>9, <1>11, <2>1, Zenon DEF PublishedBestChainConnects
<1>13. Rest(p)' = PopRoot(best)
  <2>1. Rest(p)' = {b \in p : Height[b] > Height[root]}
    BY <1>4, Zenon DEF Rest
  <2>2. best \subseteq p
    BY <1>6, Zenon DEF Rest
  <2> QED BY <1>10, <2>1, <2>2, Zenon DEF PopRoot, root
<1>14. PopRoot(best) # {} => IsBest(PopRoot(best), chain_set')
  <2> SUFFICES ASSUME PopRoot(best) # {} PROVE IsBest(PopRoot(best), chain_set')
    BY Zenon
  <2>1. chain_set' = {PopRoot(best)}
                        \cup {PopRoot(d) : d \in {s \in chain_set \ {best} : NonFinalizedRoot(s) = root}}
    BY Zenon DEF Finalize, FinalizeChains, root
  <2>2. ASSUME NEW d \in chain_set \ {best}, NonFinalizedRoot(d) = root
        PROVE  Better(PopRoot(best), PopRoot(d))
    <3>1. d \in SUBSET Block /\ d # {} /\ ExtendsBlock(d, finalized_tip) /\ Bounded(d)
      BY <1>1, Zenon DEF ChainsOK
    <3>2. Better(best, d)
      BY Zenon DEF IsBest
    <3> QED BY <1>1, <1>3, <2>2, <3>1, <3>2, PopKeepsOrder, Zenon DEF root
  <2> QED BY <2>1, <2>2, Zenon DEF IsBest
<1>15. UNCHANGED published
  BY <1>1, Zenon
<1> QED BY <1>5, <1>7, <1>9, <1>12, <1>13, <1>14, <1>15, Zenon DEF ReadersInv

\* Nothing is published before the first update.
LEMMA InitReadersInv == Init => ReadersInv
<1> SUFFICES ASSUME Init PROVE ReadersInv
  BY Zenon
<1>1. published = {} /\ phase = "checkpoint"
  BY Zenon DEF Init
<1>2. \E t \in Block : ChainsOK(published, t)
  BY <1>1, TreeAssumption, Zenon DEF ChainsOK
<1> QED BY <1>1, <1>2, Zenon DEF ReadersInv, PublishedBestChainConnects, Looping

\* Every step keeps ReadersInv.
LEMMA NextReadersInv == IInv /\ IInv' /\ ReadersInv /\ [Next]_vars => ReadersInv'
<1> SUFFICES ASSUME IInv, IInv', ReadersInv, [Next]_vars PROVE ReadersInv'
  BY Zenon
<1>1. CASE \E b \in Block : CommitCheckpointVerified(b)
  <2>1. published' = {} /\ phase' = "checkpoint"
    BY <1>1, Zenon DEF CommitCheckpointVerified, ReadersInv
  <2>2. \E t \in Block : ChainsOK(published', t)
    BY <2>1, TreeAssumption, Zenon DEF ChainsOK
  <2> QED BY <2>1, <2>2, Zenon DEF ReadersInv, PublishedBestChainConnects, Looping
<1>2. CASE Restart
  <2>1. published' = {} /\ phase' = "checkpoint"
    BY <1>2, Zenon DEF Restart
  <2>2. \E t \in Block : ChainsOK(published', t)
    BY <2>1, TreeAssumption, Zenon DEF ChainsOK
  <2> QED BY <2>1, <2>2, Zenon DEF ReadersInv, PublishedBestChainConnects, Looping
<1>3. ASSUME NEW b \in Block,
             \/ CommitBlock(b) \/ CrosslinkFinalized(b)
             \/ InvalidateBlock(b) \/ ReconsiderBlock(b)
      PROVE  ReadersInv'
  <2>1. Publish(chain_set') /\ UNCHANGED db /\ phase' # "checkpoint"
    BY <1>3, Zenon DEF CommitBlock, CrosslinkFinalized, InvalidateBlock, ReconsiderBlock, Request
  <2>2. ChainsOK(chain_set', finalized_tip)
    BY <2>1, Zenon DEF IInv, db
  <2> QED BY <2>1, <2>2, PublishKeepsReaders, Zenon
<1>4. CASE InvalidateUnknown \/ ReconsiderUnknown
  <2>1. phase = "recv" /\ RequestFails
    BY <1>4, Zenon DEF InvalidateUnknown, ReconsiderUnknown, Request
  <2>2. CASE CanPublish(chain_set)
    <3>1. Publish(chain_set) /\ UNCHANGED <<db, nfs, phase>>
      BY <2>1, <2>2, Zenon DEF RequestFails
    <3>2. Publish(chain_set') /\ ChainsOK(chain_set', finalized_tip)
      BY <3>1, Zenon DEF IInv, nfs
    <3> QED BY <2>1, <3>1, <3>2, PublishKeepsReaders, Zenon
  <2>3. CASE ~CanPublish(chain_set)
    <3>1. UNCHANGED <<db, channels, chain_set>> /\ phase' = "panicked"
      BY <2>1, <2>3, Zenon DEF RequestFails, Panic, nfs
    <3> QED BY <3>1, QuietStepKeepsReaders, Zenon DEF Looping
  <2> QED BY <2>2, <2>3, Zenon
<1>5. CASE ReorgFinalize
  <2>1. PICK best \in chain_set :
          /\ IsBest(best, chain_set) /\ Finalize(best)
          /\ WriteBlock(NonFinalizedRoot(best), prev_trees)
    BY <1>5, Zenon DEF ReorgFinalize
  <2>2. {} \notin chain_set /\ Looping /\ UNCHANGED channels /\ phase' # "checkpoint"
    BY <1>5, Zenon DEF ReorgFinalize, Looping
  <2>3. Looping' => PopRoot(best) # {}
    <3> SUFFICES ASSUME Looping', PopRoot(best) = {} PROVE FALSE
      BY Zenon
    <3>1. PICK d \in chain_set' : TRUE
      BY <1>5, Zenon DEF ReorgFinalize, Looping, PastReorgLimit
    <3>2. PICK c \in chain_set \ {best} : NonFinalizedRoot(c) = NonFinalizedRoot(best)
      BY <2>1, <3>1, Zenon DEF Finalize, FinalizeChains
    <3>3. Better(best, c) /\ finalized_tip \in Block /\ ChainsOK(chain_set, finalized_tip)
      BY <2>1, Zenon DEF IsBest, IInv, TypeOK
    <3> QED BY <2>2, <3>2, <3>3, PopKeepsOrder, Zenon DEF ChainsOK
  <2> QED BY <2>1, <2>2, <2>3, FinalizeKeepsReaders, Zenon
<1>6. CASE CrosslinkFinalize
  <2>1. PICK best \in chain_set :
          /\ IsBest(best, chain_set) /\ Finalize(best)
          /\ WriteBlock(NonFinalizedRoot(best), NONE)
    BY <1>6, Zenon DEF CrosslinkFinalize
  <2>2. {} \notin chain_set /\ Looping /\ UNCHANGED channels /\ phase' = "crosslink"
    BY <1>6, Zenon DEF CrosslinkFinalize, Looping
  <2>3. Looping' => PopRoot(best) # {}
    <3> SUFFICES ASSUME Looping' PROVE PopRoot(best) # {}
      BY Zenon
    <3>1. crosslink \in best /\ crosslink' = crosslink
      BY <1>6, Zenon DEF IInv, CrosslinkStopsAtRequest, CrosslinkFinalize
    <3>2. remaining' > 0 /\ remaining' = Height[crosslink] - Height[NonFinalizedRoot(best)]
      BY <2>1, <2>2, <3>1, Zenon DEF IInv, CrosslinkStopsAtRequest, Looping, WriteBlock
    <3>3. crosslink \in Block /\ Height[crosslink] \in Nat
      BY <1>6, TreeAssumption, Zenon DEF IInv, CrosslinkOK, CrosslinkFinalize
    <3>4. crosslink # NonFinalizedRoot(best)
      BY <3>2, <3>3
    <3> QED BY <3>1, <3>4, Zenon DEF PopRoot
  <2> QED BY <2>1, <2>2, <2>3, FinalizeKeepsReaders, Zenon
<1>7. ASSUME NEW b \in Block,
             \/ RejectBlock(b) \/ CommitBlockPanics(b) \/ CrosslinkAlreadyFinalized(b)
             \/ InvalidateBlockPanics(b) \/ ReconsiderBlockPanics(b)
      PROVE  ReadersInv'
  <2>1. /\ UNCHANGED <<db, channels, chain_set>>
        /\ (phase' = phase /\ phase = "recv") \/ phase' = "panicked"
    BY <1>7, Zenon DEF RejectBlock, CommitBlockPanics, CrosslinkAlreadyFinalized, Receive,
                InvalidateBlockPanics, ReconsiderBlockPanics, Panic, nfs
  <2> QED BY <2>1, QuietStepKeepsReaders, Zenon DEF Looping
<1>8. CASE \/ RejectCheckpointVerified \/ FinishCheckpoints \/ FinalizePanics
           \/ CrosslinkAnswer
  <2>1. /\ UNCHANGED <<db, channels, chain_set>>
        /\ (phase' = phase /\ phase = "checkpoint") \/ phase' \in {"recv", "panicked"}
    BY <1>8, Zenon DEF RejectCheckpointVerified, FinishCheckpoints, FinalizePanics, CrosslinkAnswer,
                Panic, nfs
  <2> QED BY <2>1, QuietStepKeepsReaders, Zenon DEF Looping
<1>9. CASE UNCHANGED vars
  BY <1>9, QuietStepKeepsReaders, Zenon DEF vars, nfs, loop, Looping
<1> QED BY <1>1, <1>2, <1>3, <1>4, <1>5, <1>6, <1>7, <1>8, <1>9 DEF Next

\* The published best chain and the database that readers join it to form one
\* chain, while a loop finalizes, between its commits and after a crash, although
\* the channels are updated before the blocks are written (write.rs, find_chain).
THEOREM ReadersSeeOneChain == Spec => []PublishedBestChainConnects
<1>1. ReadersInv => PublishedBestChainConnects
  BY Zenon DEF ReadersInv
<1> QED BY <1>1, InitReadersInv, NextReadersInv, WriterInvariant, PTL DEF Spec

-----------------------------------------------------------------------------
\* Why no expectation fails before an operator's request: no chain is empty or
\* a part of another one, and all their blocks were received, so that a block
\* that is received now makes a chain with a tip of its own.
PanicsInv ==
    requests = 0 =>
        /\ panic = "none"
        /\ {} \notin chain_set
        /\ UNION chain_set \subseteq received
        /\ \A c, d \in chain_set : c \subseteq d => c = d

\* A received block is the tip of its new chain, which no chain contains, and the
\* only chain contained in it is the one insert_with drops.
LEMMA NewChainIsApart ==
    ASSUME IInv, {} \notin chain_set, UNION chain_set \subseteq received,
           \A c, d \in chain_set : c \subseteq d => c = d,
           NEW b \in Block, b \notin received, InitialContextualValidity(b), NEW c \in NewChains(b)
    PROVE  /\ c # {} /\ c \subseteq received \cup {b} /\ b \in c
           /\ ~InsertPanics(chain_set, c)
           /\ \A d \in chain_set : ~(c \subseteq d)
           /\ \A d \in chain_set \ ChainsWithTip(chain_set, Parent[b]) : ~(d \subseteq c)
<1> DEFINE p == Parent[b]
<1>1. PICK base \in {{}} \cup {Fork(e, p) : e \in chain_set} :
        IsBaseChain(base, p) /\ c = base \cup {b}
  BY Zenon DEF NewChains, Push
<1>2. /\ finalized_tip \in Block /\ ChainsOK(chain_set, finalized_tip)
      /\ p \in Block /\ Height[b] = Height[p] + 1 /\ Height[p] \in Nat
      /\ \A x \in Block : Height[x] \in Nat
  BY ParentHeight, TreeAssumption, Zenon DEF IInv, TypeOK, InitialContextualValidity
<1> HIDE DEF p
<1>3. /\ base \in SUBSET Block /\ Bounded(base)
      /\ \/ base = {} /\ p = finalized_tip
         \/ p \in base /\ \A x \in base : Height[x] <= Height[p]
  BY <1>1, <1>2, BaseChainEndsInParent, Zenon
<1>4. base \subseteq UNION chain_set
  BY <1>1 DEF Fork
<1>5. c # {} /\ c \subseteq received \cup {b} /\ b \in c /\ \A d \in chain_set : b \notin d
  BY <1>1, <1>4, Zenon
<1>6. NonFinalizedTip(c) = b
  <2>1. c \in SUBSET Block /\ Bounded(c)
    <3>1. {b} \in SUBSET Block /\ Bounded({b})
      BY BoundedSingleton
    <3> QED BY <1>1, <1>3, <3>1, BoundedUnion, Zenon
  <2>2. NonFinalizedTip(c) \in c /\ Height[b] <= Height[NonFinalizedTip(c)]
    BY <1>5, <2>1, TipIsHighest, Zenon
  <2>3. \A x \in base : Height[x] < Height[b]
    BY <1>2, <1>3
  <2> QED BY <1>1, <1>2, <1>3, <2>2, <2>3
<1>7. ~InsertPanics(chain_set, c)
  <2> SUFFICES ASSUME NEW d \in chain_set, ComparesEqual(c, d) PROVE FALSE
    BY Zenon DEF InsertPanics
  <2>1. d # {} /\ d \in SUBSET Block /\ Bounded(d)
    BY <1>2 DEF ChainsOK
  <2>2. NonFinalizedTip(d) = b
    BY <1>5, <1>6, <2>1, Zenon DEF ComparesEqual
  <2> QED BY <1>5, <2>1, <2>2, TipIsHighest, Zenon
<1>8. ASSUME NEW d \in chain_set, d \subseteq c, d \notin ChainsWithTip(chain_set, p)
      PROVE  FALSE
  <2>1. d \subseteq base /\ d # {}
    <3>1. b \notin d /\ c = base \cup {b}
      BY <1>1, <1>5, Zenon
    <3>2. \A x \in d : x \in base
      BY <1>8, <3>1
    <3>3. d # {}
      BY Zenon
    <3> QED BY <3>2, <3>3, Zenon
  <2>2. p # finalized_tip /\ IsParentChain(base, chain_set, p)
    BY <1>1, <2>1 DEF IsBaseChain
  <2>3. CASE ChainsWithTip(chain_set, p) # {}
    <3>1. base \in ChainsWithTip(chain_set, p) /\ base \in chain_set
      BY <2>2, <2>3, Zenon DEF IsParentChain, IsBest, ChainsWithTip
    <3> QED BY <1>8, <2>1, <3>1
  <2>4. CASE ChainsWithTip(chain_set, p) = {}
    <3>1. PICK e \in chain_set : p \in e /\ base = Fork(e, p)
      BY <2>2, <2>4, Zenon DEF IsParentChain, IsBest, ChainsContaining
    <3>2. d = e /\ d = base
      BY <2>1, <3>1 DEF Fork
    <3>3. /\ d \in SUBSET Block /\ Bounded(d) /\ p \in d
          /\ \A x, y \in d : Height[x] = Height[y] => x = y
      BY <1>2, <3>1, <3>2, Zenon DEF ChainsOK, ExtendsBlock
    <3>4. NonFinalizedTip(d) \in d /\ Height[p] <= Height[NonFinalizedTip(d)]
      BY <2>1, <3>3, TipIsHighest, Zenon
    <3>5. Height[NonFinalizedTip(d)] <= Height[p]
      BY <3>1, <3>2, <3>4, Zenon DEF Fork
    <3>6. NonFinalizedTip(d) = p
      BY <1>2, <3>3, <3>4, <3>5
    <3> QED BY <2>1, <2>4, <3>6, Zenon DEF ChainsWithTip
  <2> QED BY <2>3, <2>4, Zenon
<1> QED BY <1>5, <1>7, <1>8, Zenon DEF p

\* Every step keeps PanicsInv.
LEMMA NextPanicsInv ==
    IInv /\ IInv' /\ ReadersInv /\ PanicsInv /\ [Next]_vars => PanicsInv'
<1> SUFFICES ASSUME IInv, IInv', ReadersInv, PanicsInv, [Next]_vars, requests' = 0
             PROVE  /\ panic' = "none"
                    /\ {} \notin chain_set'
                    /\ UNION chain_set' \subseteq received'
                    /\ \A c, d \in chain_set' : c \subseteq d => c = d
  BY Zenon DEF PanicsInv
<1> DEFINE Goal == /\ panic' = "none"
                   /\ {} \notin chain_set'
                   /\ UNION chain_set' \subseteq received'
                   /\ \A c, d \in chain_set' : c \subseteq d => c = d
<1>1. CASE Restart
  BY <1>1, Zenon DEF Restart
<1>2. ASSUME requests = 0, UNCHANGED panic, chain_set' \subseteq chain_set,
             received \subseteq received'
      PROVE  Goal
  BY <1>2, Zenon DEF PanicsInv
<1>3. ASSUME NEW b \in Block, CommitBlock(b) PROVE Goal
  <2>1. PICK c \in NewChains(b) : chain_set' = InsertAbove(chain_set, c, Parent[b])
    BY <1>3, Zenon DEF CommitBlock
  <2>2. /\ requests = 0 /\ panic' = panic /\ b \notin received
        /\ received' = received \cup {b} /\ InitialContextualValidity(b)
    BY <1>3, Zenon DEF CommitBlock, Receive, Candidate, counters
  <2>3. /\ panic = "none" /\ {} \notin chain_set /\ UNION chain_set \subseteq received
        /\ \A x, d \in chain_set : x \subseteq d => x = d
    BY <2>2, Zenon DEF PanicsInv
  <2>4. /\ c # {} /\ c \subseteq received \cup {b}
        /\ \A d \in chain_set : ~(c \subseteq d)
        /\ \A d \in chain_set \ ChainsWithTip(chain_set, Parent[b]) : ~(d \subseteq c)
    BY <2>2, <2>3, NewChainIsApart, Zenon
  <2>5. chain_set' \subseteq (chain_set \ ChainsWithTip(chain_set, Parent[b])) \cup {c}
    BY <2>1, Zenon DEF InsertAbove, LimitForks
  <2> QED BY <2>2, <2>3, <2>4, <2>5
<1>4. ASSUME NEW b \in Block, CommitBlockPanics(b) PROVE Goal
  <2>1. requests = 0 /\ b \notin received /\ InitialContextualValidity(b)
    BY <1>4, Zenon DEF CommitBlockPanics, Receive, Candidate, counters
  <2>2. /\ {} \notin chain_set /\ UNION chain_set \subseteq received
        /\ \A x, d \in chain_set : x \subseteq d => x = d
    BY <2>1, Zenon DEF PanicsInv
  <2>3. PICK c \in NewChains(b) : InsertPanics(chain_set, c)
    BY <1>4, <2>2, Zenon DEF CommitBlockPanics, CommitPanics, ParentChainPanics
  <2> QED BY <2>1, <2>2, <2>3, NewChainIsApart, Zenon
<1>5. ASSUME NEW best \in chain_set, Finalize(best), requests = 0, UNCHANGED <<panic, received>>
      PROVE  Goal
  <2> DEFINE root == NonFinalizedRoot(best)
  <2>1. /\ panic = "none" /\ {} \notin chain_set /\ UNION chain_set \subseteq received
        /\ \A x, d \in chain_set : x \subseteq d => x = d
    BY <1>5, Zenon DEF PanicsInv
  <2>2. \A d \in chain_set : NonFinalizedRoot(d) \in d
    <3>1. \A d \in chain_set : d \in SUBSET Block
      BY Zenon DEF IInv, TypeOK
    <3>2. \A d \in chain_set : d # {}
      BY <2>1, Zenon
    <3> QED BY <3>1, <3>2, RootIsLowest, Zenon
  <2>3. \A x \in chain_set' : x # {}
    <3>1. ASSUME NEW d \in chain_set \ {best}, NonFinalizedRoot(d) = root PROVE PopRoot(d) # {}
      <4>1. PopRoot(d) = {} => d \subseteq best
        BY <2>2, <3>1, Zenon DEF PopRoot
      <4> QED BY <2>1, <4>1, Zenon
    <3> QED BY <1>5, <3>1, Zenon DEF Finalize, FinalizeChains
  <2>4. \A x \in chain_set' : \E d \in chain_set : x = d \ {root} /\ root \in d
    <3>1. \A x \in chain_set' : \E d \in chain_set : x = PopRoot(d) /\ NonFinalizedRoot(d) = root
      BY <1>5, Zenon DEF Finalize, FinalizeChains
    <3> QED BY <2>2, <3>1 DEF PopRoot
  <2>5. ASSUME NEW x \in chain_set', NEW y \in chain_set', x \subseteq y PROVE x = y
    <3>1. PICK c \in chain_set : x = c \ {root} /\ root \in c
      BY <2>4, Zenon
    <3>2. PICK d \in chain_set : y = d \ {root} /\ root \in d
      BY <2>4, Zenon
    <3>3. c \subseteq d
      BY <2>5, <3>1, <3>2, Zenon
    <3> QED BY <2>1, <3>1, <3>2, <3>3, Zenon
  <2>6. UNION chain_set' \subseteq received'
    BY <1>5, <2>1, <2>4
  <2> QED BY <1>5, <2>1, <2>3, <2>5, <2>6, Zenon
<1>6. CASE ReorgFinalize \/ CrosslinkFinalize
  <2>1. \E best \in chain_set : Finalize(best)
    BY <1>6, Zenon DEF ReorgFinalize, CrosslinkFinalize
  <2>2. requests = 0 /\ UNCHANGED <<panic, received>>
    BY <1>6, Zenon DEF ReorgFinalize, CrosslinkFinalize, counters
  <2> QED BY <1>5, <2>1, <2>2, Zenon
<1>7. CASE FinalizePanics
  <2>1. requests = 0 /\ Looping
    BY <1>7, Zenon DEF FinalizePanics, counters, Looping
  <2>2. {} \notin chain_set /\ chain_set # {}
    BY <2>1, Zenon DEF PanicsInv, ReadersInv, IsBest
  <2>3. panic' = "child of the tip"
    BY <1>7, <2>2, Zenon DEF FinalizePanics, Panic
  <2> QED BY <2>3, Zenon DEF IInv, OnlyChildrenAreFinalized
<1>8. ASSUME NEW b \in Block,
             \/ CommitCheckpointVerified(b) \/ RejectBlock(b)
             \/ CrosslinkFinalized(b) \/ CrosslinkAlreadyFinalized(b)
      PROVE  Goal
  <2>1. CASE CrosslinkFinalized(b)
    BY <1>2, <2>1, Zenon DEF CrosslinkFinalized, CrosslinkFinalizeChains, ChainsContaining, counters
  <2>2. CASE \/ CommitCheckpointVerified(b) \/ RejectBlock(b) \/ CrosslinkAlreadyFinalized(b)
    BY <1>2, <2>2, Zenon DEF CommitCheckpointVerified, RejectBlock, CrosslinkAlreadyFinalized,
                      Receive, counters, nfs
  <2> QED BY <1>8, <2>1, <2>2, Zenon
<1>9. CASE RejectCheckpointVerified \/ FinishCheckpoints \/ CrosslinkAnswer \/ UNCHANGED vars
  BY <1>2, <1>9, Zenon DEF RejectCheckpointVerified, FinishCheckpoints, CrosslinkAnswer, counters,
                    nfs, vars
<1>10. ASSUME NEW b \in Block,
              \/ InvalidateBlock(b) \/ InvalidateBlockPanics(b) \/ InvalidateUnknown
              \/ ReconsiderBlock(b) \/ ReconsiderBlockPanics(b) \/ ReconsiderUnknown
       PROVE  FALSE
  <2>1. Request
    BY <1>10, Zenon DEF InvalidateBlock, InvalidateBlockPanics, InvalidateUnknown,
                 ReconsiderBlock, ReconsiderBlockPanics, ReconsiderUnknown
  <2>2. requests \in Nat /\ requests' = requests + 1
    BY <2>1, Zenon DEF Request, IInv, TypeOK
  <2> QED BY <2>2
<1> QED BY <1>1, <1>3, <1>4, <1>6, <1>7, <1>8, <1>9, <1>10, TreeAssumption, Zenon DEF Next

\* Without invalidations and reconsiderations the task never panics: not in
\* Chain::cmp, pop_root, update_latest_chain_channels or commit_finalized_direct.
THEOREM WriterNeverPanics == Spec => []NeverPanics
<1>1. Init => ReadersInv /\ PanicsInv
  BY InitReadersInv, Zenon DEF Init, PanicsInv
<1>2. PanicsInv => NeverPanics
  BY Zenon DEF PanicsInv, NeverPanics
<1> QED BY <1>1, <1>2, NextReadersInv, NextPanicsInv, WriterInvariant, PTL DEF Spec

-----------------------------------------------------------------------------
\* Only the entry of the invalidated height changes in the map.
LEMMA InsertInvalidatedChange ==
    ASSUME NEW d, NEW g \in DOMAIN InsertInvalidated(d),
           \/ g \notin DOMAIN invalidated_blocks
           \/ InsertInvalidated(d)[g] # invalidated_blocks[g]
    PROVE  InsertInvalidated(d)[g].blocks = d
<1> DEFINE h == Height[NonFinalizedRoot(d)]
           old == DOMAIN invalidated_blocks
           entry == [blocks |-> d,
                     index |-> IF h \in old THEN invalidated_blocks[h].index ELSE requests]
           new == [k \in old \cup {h} |-> IF k = h THEN entry ELSE invalidated_blocks[k]]
           oldest == {k \in DOMAIN new : \A l \in DOMAIN new : new[k].index <= new[l].index}
<1>1. InsertInvalidated(d) = IF Cardinality(DOMAIN new) > MAX_INVALIDATED_BLOCKS
                             THEN [k \in DOMAIN new \ oldest |-> new[k]] ELSE new
  BY Zenon DEF InsertInvalidated
<1>2. entry.blocks = d
  BY Zenon
<1>3. \A k \in DOMAIN new : (k = h /\ new[k] = entry) \/ (k \in old /\ new[k] = invalidated_blocks[k])
  BY Zenon DEF new
<1> HIDE DEF new, oldest, entry
<1>4. g \in DOMAIN new /\ InsertInvalidated(d)[g] = new[g]
  BY <1>1, Zenon
<1> QED BY <1>2, <1>3, <1>4, Zenon

\* No chain on t that lacks a block of another one has its descendants, or a
\* block on top of one.
LEMMA DescendantsGoToo ==
    ASSUME NEW t \in Block, NEW c \in SUBSET Block, ExtendsBlock(c, t), NEW h \in c,
           NEW d \in SUBSET Block, ExtendsBlock(d, t), h \notin d, NEW b \in d
    PROVE  b \notin ChildBlocks(c, h) /\ Parent[b] \notin ChildBlocks(c, h)
<1>1. ASSUME NEW x \in d PROVE x \notin ChildBlocks(c, h)
  <2> SUFFICES ASSUME x \in ChildBlocks(c, h) PROVE FALSE
    BY Zenon
  <2>1. x \in c /\ Height[x] \in Nat /\ Height[h] \in Nat /\ Height[x] >= Height[h]
    BY TreeAssumption, Zenon DEF ChildBlocks
  <2>2. Height[h] <= Height[x]
    BY <2>1, Zenon
  <2> QED BY <2>1, <2>2, PathsAgree, Zenon
<1>2. t \notin ChildBlocks(c, h)
  BY TreeAssumption DEF ChildBlocks, ExtendsBlock
<1> QED BY <1>1, <1>2, Zenon DEF ExtendsBlock

\* Invalidating a block takes it and its descendants out of every fork, whatever
\* fork the block was found in (NonFinalizedState::invalidate_block, insert_with).
THEOREM InvalidationIsComplete == Spec => InvalidationReachesEveryFork
<1>1. ASSUME IInv, IInv', [Next]_vars PROVE [ForksDropNewEntries]_vars
  <2>1. ASSUME NEW h \in Block, InvalidateBlock(h) PROVE ForksDropNewEntries
    <3>1. PICK c \in chain_set :
            /\ h \in c
            /\ chain_set' = InsertWithout(chain_set, InvalidateInChain(c, h), h)
            /\ invalidated_blocks' = InsertInvalidated(ChildBlocks(c, h))
      BY <2>1, Zenon DEF InvalidateBlock, IsBest, ChainsContaining
    <3>2. /\ finalized_tip \in Block /\ finalized_tip' = finalized_tip
          /\ c \in SUBSET Block /\ ExtendsBlock(c, finalized_tip)
      BY <1>1, <2>1, Zenon DEF IInv, TypeOK, ChainsOK, InvalidateBlock, db
    <3>3. \A d \in chain_set' : d \in SUBSET Block /\ ExtendsBlock(d, finalized_tip) /\ h \notin d
      BY <1>1, <3>1, <3>2, Zenon DEF IInv, ChainsOK, InsertWithout, LimitForks
    <3>4. \A d \in chain_set' : \A b \in d :
            b \notin ChildBlocks(c, h) /\ Parent[b] \notin ChildBlocks(c, h)
      BY <3>1, <3>2, <3>3, DescendantsGoToo, Zenon
    <3> QED BY <3>1, <3>4, InsertInvalidatedChange DEF ForksDropNewEntries
  <2>2. ASSUME \E D \in SUBSET DOMAIN invalidated_blocks :
                  invalidated_blocks' = [g \in D |-> invalidated_blocks[g]]
        PROVE  ForksDropNewEntries
    BY <2>2, Zenon DEF ForksDropNewEntries
  <2>3. CASE UNCHANGED invalidated_blocks
    BY <2>3, Zenon DEF ForksDropNewEntries
  <2>4. CASE Restart
    BY <2>4, Zenon DEF Restart, ForksDropNewEntries
  <2>5. ASSUME NEW b \in Block, ReconsiderBlock(b) PROVE ForksDropNewEntries
    BY <2>2, <2>5, Zenon DEF ReconsiderBlock
  <2>6. CASE ReorgFinalize \/ CrosslinkFinalize
    BY <2>2, <2>6, Zenon DEF ReorgFinalize, CrosslinkFinalize, Finalize
  <2>7. ASSUME NEW b \in Block,
               \/ CommitCheckpointVerified(b) \/ RejectBlock(b) \/ CommitBlock(b)
               \/ CommitBlockPanics(b) \/ CrosslinkFinalized(b) \/ CrosslinkAlreadyFinalized(b)
               \/ InvalidateBlockPanics(b) \/ ReconsiderBlockPanics(b)
        PROVE  UNCHANGED invalidated_blocks
    BY <2>7, Zenon DEF CommitCheckpointVerified, RejectBlock, CommitBlock, CommitBlockPanics,
                CrosslinkFinalized, CrosslinkAlreadyFinalized, InvalidateBlockPanics,
                ReconsiderBlockPanics, Panic, nfs
  <2>8. CASE \/ RejectCheckpointVerified \/ FinishCheckpoints \/ FinalizePanics
             \/ CrosslinkAnswer \/ InvalidateUnknown \/ ReconsiderUnknown
    BY <2>3, <2>8, Zenon DEF RejectCheckpointVerified, FinishCheckpoints, FinalizePanics, Panic,
                      CrosslinkAnswer, InvalidateUnknown, ReconsiderUnknown, RequestFails, nfs
  <2> QED BY <1>1, <2>1, <2>3, <2>4, <2>5, <2>6, <2>7, <2>8, Zenon DEF Next
<1> QED BY <1>1, WriterInvariant, PTL DEF Spec, InvalidationReachesEveryFork
=============================================================================
