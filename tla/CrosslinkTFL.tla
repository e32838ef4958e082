---------------------------- MODULE CrosslinkTFL ----------------------------
(***************************************************************************)
(* zebra-crosslink/src/lib.rs: the trailing finality layer (TFL) service   *)
(* of several nodes, on top of the proof-of-work state of each node.       *)
(*                                                                         *)
(* Every await in the code is a point where the PoW state of the node may  *)
(* change, so a call that reads the state twice takes two steps.  The TFL  *)
(* mutex is held while a decided block is applied (`deciding`).            *)
(*                                                                         *)
(* The PoW state is the one of module BlockWriter with each of its loops   *)
(* as one step.  The BFT engine (tenderlink) is outside the repository: it *)
(* decides one proposal per BFT height that a quorum has validated, calls  *)
(* the closures of a node one at a time and in BFT order, and gives a node *)
(* a decided block only after this node has validated it.                  *)
(*                                                                         *)
(* The hash of a BFT block is modelled by its BFT height: only one block   *)
(* per height is decided, and only decided blocks are pointed at.  The     *)
(* roster is a function of the blocks in `final_changes` (module Roster).  *)
(***************************************************************************)
EXTENDS NonFinalizedState, Sequences

CONSTANTS
    NONE,
    Node,
    Quorum,                      \* sets of nodes that can decide
    Proposer,                    \* nodes the engine asks for proposals
    bc_confirmation_depth_sigma,
    MAX_BLOCK_REORG_HEIGHT,
    TFL_ACTIVATION_HEIGHT,
    is_regtest,                  \* finality is active from the start
    MaxRequests                  \* bound on SetFinalBlockHash requests

ASSUME CrosslinkAssumption ==
    /\ NONE \notin Block
    /\ Quorum \subseteq SUBSET Node /\ Proposer \subseteq Node
    /\ \A P, Q \in Quorum : P \cap Q # {}
    /\ bc_confirmation_depth_sigma \in Nat \ {0}
    /\ MAX_BLOCK_REORG_HEIGHT \in Nat \ {0}
    /\ TFL_ACTIVATION_HEIGHT \in Nat /\ is_regtest \in BOOLEAN
    /\ MaxRequests \in Nat

VARIABLES
    chain_set,            \* non-finalized chains of each node
    finalized,            \* blocks in its database
    finalized_tip,
    latest_final_block,   \* TFLServiceInternal.latest_final_block
    bft_blocks,           \* TFLServiceInternal.bft_blocks
    current_bc_final,     \* TFLServiceInternal.current_bc_final
    tip_is_active,        \* the main loop has read a tip at the activation height
    tfl_is_activated,
    final_changes,        \* blocks sent on final_change_tx, each rewarded once
    proposing,            \* where propose_new_bft_block is
    deciding,             \* a decided block is being applied, mutex held
    panicked,             \* nodes that stopped on a failed assertion
    proposed,             \* proposals for the next BFT height
    passed,               \* proposals each node has validated
    decided,              \* blocks decided by the BFT engine
    requests

pow == <<chain_set, finalized, finalized_tip>>
tfl == <<latest_final_block, bft_blocks, current_bc_final, tip_is_active, tfl_is_activated,
         final_changes>>
engine == <<proposed, passed, decided>>
vars == <<pow, tfl, proposing, deciding, panicked, engine, requests>>

BftBlock == [height : Nat, previous_block : Nat, headers : Seq(Block)]

Idle == [step |-> "idle", height |-> 0, hash |-> NONE]

TypeOK ==
    /\ chain_set \in [Node -> SUBSET SUBSET Block]
    /\ finalized \in [Node -> SUBSET Block] /\ finalized_tip \in [Node -> Block]
    /\ latest_final_block \in [Node -> Block \cup {NONE}]
    /\ bft_blocks \in [Node -> Seq(BftBlock)]
    /\ current_bc_final \in [Node -> Block \cup {NONE}]
    /\ tip_is_active \in [Node -> BOOLEAN] /\ tfl_is_activated \in [Node -> BOOLEAN]
    /\ final_changes \in [Node -> Seq(Block)]
    /\ proposing \in [Node -> [step : {"idle", "header", "headers"}, height : Nat,
                               hash : Block \cup {NONE}]]
    /\ deciding \in [Node -> BOOLEAN]
    /\ panicked \subseteq Node
    /\ proposed \subseteq BftBlock /\ decided \in Seq(BftBlock)
    /\ passed \in [Node -> SUBSET BftBlock]
    /\ requests \in Nat

Init ==
    /\ chain_set = [n \in Node |-> {}]
    /\ finalized = [n \in Node |-> {Genesis}]
    /\ finalized_tip = [n \in Node |-> Genesis]
    /\ latest_final_block = [n \in Node |-> NONE]
    /\ bft_blocks = [n \in Node |-> <<>>]
    /\ current_bc_final = [n \in Node |-> NONE]
    /\ tip_is_active = [n \in Node |-> FALSE]
    /\ tfl_is_activated = [n \in Node |-> is_regtest]
    /\ final_changes = [n \in Node |-> <<>>]
    /\ proposing = [n \in Node |-> Idle]
    /\ deciding = [n \in Node |-> FALSE]
    /\ panicked = {}
    /\ proposed = {} /\ passed = [n \in Node |-> {}] /\ decided = <<>>
    /\ requests = 0

-----------------------------------------------------------------------------
\* What the state service answers.  Reads join the best chain with the database.
MainChain(n) == finalized[n] \cup BestChain(chain_set[n])

\* The blocks of a chain at the heights lo to hi, in order.
BlocksBetween(main, lo, hi) ==
    [i \in 1 .. (hi + 1 - lo) |-> HashByHeight(main, lo + i - 1)]

\* KnownBlock: in any chain, or in the database.
Known(n, b) == b \in finalized[n] \cup UNION chain_set[n]

\* FindBlockHeaders with one known block: what follows it in the best chain, or
\* the whole chain if it is not there.
FindBlockHeaders(main, known) ==
    BlocksBetween(main, IF known \in main THEN Height[known] + 1 ELSE 0, Height[Tip(main)])

-----------------------------------------------------------------------------
\* The lowest blocks of the best chain that are past the reorg limit.
BlocksPastReorgLimit(cs) ==
    {x \in BestChain(cs) :
        Cardinality({y \in BestChain(cs) : Height[y] >= Height[x]}) > MAX_BLOCK_REORG_HEIGHT}

\* Finalize the blocks low, the lowest of some chain: the chains that contain
\* them go on without them, the others are dropped.
FinalizeBlocks(n, cs, low) ==
    /\ chain_set' = [chain_set EXCEPT ![n] = {c \ low : c \in {d \in cs : low \subseteq d}} \ {{}}]
    /\ finalized' = [finalized EXCEPT ![n] = @ \cup low]
    /\ finalized_tip' = [finalized_tip EXCEPT ![n] =
                            IF low = {} THEN @ ELSE NonFinalizedTip(low)]

\* The block write task commits a block, then finalizes past the reorg limit.
CommitBlock(n, b) ==
    /\ n \notin panicked
    /\ ~Known(n, b) /\ Height[b] > Height[finalized_tip[n]]
    /\ Parent[b] = finalized_tip[n] \/ Parent[b] \in UNION chain_set[n]
    /\ \E c \in {{}} \cup {Fork(d, Parent[b]) : d \in chain_set[n]} :
        /\ IF Parent[b] = finalized_tip[n] THEN c = {}
           ELSE IsParentChain(c, chain_set[n], Parent[b])
        /\ \E cs \in {InsertAbove(chain_set[n], Push(c, b), Parent[b])} :
           \E low \in {BlocksPastReorgLimit(cs)} : FinalizeBlocks(n, cs, low)
    /\ UNCHANGED <<tfl, proposing, deciding, panicked, engine, requests>>

\* The main loop reads the tip, then waits for its interval and the mutex.
ReadTip(n) ==
    /\ n \notin panicked /\ ~tip_is_active[n] /\ ~tfl_is_activated[n]
    /\ Height[Tip(MainChain(n))] >= TFL_ACTIVATION_HEIGHT
    /\ tip_is_active' = [tip_is_active EXCEPT ![n] = TRUE]
    /\ UNCHANGED <<pow, latest_final_block, bft_blocks, current_bc_final, tfl_is_activated,
                   final_changes, proposing, deciding, panicked, engine, requests>>

Activate(n) ==
    /\ n \notin panicked /\ ~deciding[n] /\ tip_is_active[n] /\ ~tfl_is_activated[n]
    /\ tfl_is_activated' = [tfl_is_activated EXCEPT ![n] = TRUE]
    /\ UNCHANGED <<pow, latest_final_block, bft_blocks, current_bc_final, tip_is_active,
                   final_changes, proposing, deciding, panicked, engine, requests>>

-----------------------------------------------------------------------------
\* The engine runs one closure of a node at a time.
EngineFree(n) == n \notin panicked /\ ~deciding[n] /\ proposing[n] = Idle

\* finality_candidate_height: below zero there is no candidate.
CandidateHeight(main) == Height[Tip(main)] - bc_confirmation_depth_sigma

\* Mutant: any candidate is an improvement.
IsImprovedFinalAlways(n, height) == TRUE

\* Mutant: the candidate is two blocks above the latest final block.
IsImprovedFinalByTwo(n, height) ==
    latest_final_block[n] # NONE => height > Height[latest_final_block[n]] + 1

IsImprovedFinal(n, height) ==
    latest_final_block[n] # NONE => height > Height[latest_final_block[n]]

\* propose_new_bft_block: read the tip and the latest final block.
ProposeTip(n) ==
    /\ EngineFree(n) /\ n \in Proposer
    /\ \E main \in {MainChain(n)} : \E height \in {CandidateHeight(main)} :
        /\ height >= 0 /\ IsImprovedFinal(n, height)
        /\ proposing' = [proposing EXCEPT ![n] =
                            [step |-> "header", height |-> height, hash |-> NONE]]
    /\ UNCHANGED <<pow, tfl, deciding, panicked, engine, requests>>

\* Read the candidate at that height; without one the node panics.
ProposeHeader(n) ==
    /\ n \notin panicked /\ proposing[n].step = "header"
    /\ \E main \in {MainChain(n)} :
        IF proposing[n].height <= Height[Tip(main)]
        THEN /\ proposing' = [proposing EXCEPT ![n].step = "headers",
                                 ![n].hash = HashByHeight(main, proposing[n].height)]
             /\ UNCHANGED panicked
        ELSE /\ panicked' = panicked \cup {n}
             /\ proposing' = [proposing EXCEPT ![n] = Idle]
    /\ UNCHANGED <<pow, tfl, deciding, engine, requests>>

\* Read the headers after the candidate, and propose if there are sigma.  A
\* proposal for a BFT height that is already decided is of no use to anyone.
ProposeHeaders(n) ==
    /\ n \notin panicked /\ proposing[n].step = "headers" /\ ~deciding[n]
    /\ \E main \in {MainChain(n)} :
        LET block == [height |-> Len(bft_blocks[n]) + 1,
                      previous_block |-> Len(bft_blocks[n]),
                      headers |-> FindBlockHeaders(main, proposing[n].hash)]
        IN  proposed' = IF /\ Len(block.headers) = bc_confirmation_depth_sigma
                           /\ block.previous_block = Len(decided)
                        THEN proposed \cup {block} ELSE proposed
    /\ proposing' = [proposing EXCEPT ![n] = Idle]
    /\ UNCHANGED <<pow, tfl, deciding, panicked, passed, decided, requests>>

-----------------------------------------------------------------------------
\* Mutant: only the best chain is searched for the block.
ValidatesInBestChain(n, block) ==
    /\ block.previous_block = Len(bft_blocks[n])
    /\ Head(block.headers) \in MainChain(n)

\* validate_bft_block_from_malachite returns Pass.
Validates(n, block) ==
    /\ block.previous_block = Len(bft_blocks[n])
    /\ Known(n, Head(block.headers))

\* The proposals a node's engine may show it.
Pending(n) ==
    proposed \cup {decided[i] : i \in {Len(bft_blocks[n]) + 1} \cap DOMAIN decided}

\* A proposal that does not validate changes nothing.
Validate(n, block) ==
    /\ EngineFree(n)
    /\ block \in Pending(n) \ passed[n]
    /\ Validates(n, block)
    /\ passed' = [passed EXCEPT ![n] = @ \cup {block}]
    /\ UNCHANGED <<pow, tfl, proposing, deciding, panicked, proposed, decided, requests>>

\* The engine decides.
Decide(block) ==
    /\ block \in proposed
    /\ \E Q \in Quorum : \A n \in Q : block \in passed[n]
    /\ decided' = Append(decided, block)
    /\ proposed' = {}
    /\ UNCHANGED <<pow, tfl, proposing, deciding, panicked, passed, requests>>

\* new_decided_bft_block_from_malachite, up to its first change of the PoW
\* state: the block must validate, and is then the latest final one.
NewDecided(n) ==
    LET i == Len(bft_blocks[n]) + 1
    IN  /\ EngineFree(n)
        /\ i \in DOMAIN decided /\ decided[i] \in passed[n]
        /\ passed' = [passed EXCEPT ![n] = {}]
        /\ IF Validates(n, decided[i])
           THEN /\ bft_blocks' = [bft_blocks EXCEPT ![n] = Append(@, decided[i])]
                /\ latest_final_block' = [latest_final_block EXCEPT ![n] = Head(decided[i].headers)]
                /\ deciding' = [deciding EXCEPT ![n] = TRUE]
                /\ UNCHANGED panicked
           ELSE /\ panicked' = panicked \cup {n}
                /\ UNCHANGED <<bft_blocks, latest_final_block, deciding>>
        /\ UNCHANGED <<pow, current_bc_final, tip_is_active, tfl_is_activated, final_changes,
                       proposing, proposed, decided, requests>>

\* Mutant: the sequence does not stop at the final block.
BlockSequenceToTip(main, start, final) ==
    IF start \notin main \/ Height[final] < Height[start] THEN <<>>
    ELSE BlocksBetween(main, Height[start], Height[Tip(main)])

\* tfl_block_sequence: from start to the final block, both included.  A final
\* block that is not in the best chain does not stop the sequence.
BlockSequence(main, start, final) ==
    IF start \notin main \/ Height[final] < Height[start] THEN <<>>
    ELSE BlocksBetween(main, Height[start],
                       Height[IF final \in main THEN final ELSE Tip(main)])

\* Mutant: the boundary block is not skipped.
NewlyFinalWithBoundary(seq, prev) == seq

\* Skip the repeated boundary block.  The sequence starts at prev and has no block
\* twice, so it can only be the first one.
NewlyFinal(seq, prev) == IF seq # <<>> /\ Head(seq) = prev THEN Tail(seq) ELSE seq

\* Mutant: the best chain is finalized up to the height of the block.
DecidedBlocksOfBestChain(n, final) == Fork(BestChain(chain_set[n]), final)

\* The blocks CrosslinkFinalizeBlock finalizes: none, if it returns an error.
DecidedBlocks(n, final) ==
    UNION {Fork(c, final) : c \in ChainsContaining(chain_set[n], final)}

\* The rest of it: CrosslinkFinalizeBlock, whose error is only logged, then
\* reward and broadcast the newly final blocks.
FinalizeDecided(n) ==
    LET final == latest_final_block[n]
        prev == current_bc_final[n]
        start == IF prev = NONE THEN final ELSE prev
    IN  /\ n \notin panicked /\ deciding[n]
        /\ \E low \in {DecidedBlocks(n, final)} : FinalizeBlocks(n, chain_set[n], low)
        /\ \E main \in {finalized'[n] \cup BestChain(chain_set'[n])} :
            final_changes' = [final_changes EXCEPT ![n] =
                                @ \o NewlyFinal(BlockSequence(main, start, final), prev)]
        /\ current_bc_final' = [current_bc_final EXCEPT ![n] = final]
        /\ deciding' = [deciding EXCEPT ![n] = FALSE]
        /\ UNCHANGED <<latest_final_block, bft_blocks, tip_is_active, tfl_is_activated,
                       proposing, panicked, engine, requests>>

\* tfl_set_finality_by_hash: any known block, without checks.
SetFinality(n, b) ==
    /\ n \notin panicked /\ ~deciding[n] /\ requests < MaxRequests
    /\ tfl_is_activated[n] /\ Known(n, b)
    /\ latest_final_block' = [latest_final_block EXCEPT ![n] = b]
    /\ requests' = requests + 1
    /\ UNCHANGED <<pow, bft_blocks, current_bc_final, tip_is_active, tfl_is_activated,
                   final_changes, proposing, deciding, panicked, engine>>

-----------------------------------------------------------------------------
Next ==
    \/ \E n \in Node :
        \/ \E b \in Block : CommitBlock(n, b) \/ SetFinality(n, b)
        \/ ReadTip(n) \/ Activate(n)
        \/ ProposeTip(n) \/ ProposeHeader(n) \/ ProposeHeaders(n)
        \/ \E block \in Pending(n) : Validate(n, block)
        \/ NewDecided(n) \/ FinalizeDecided(n)
    \/ \E block \in proposed : Decide(block)

Spec == Init /\ [][Next]_vars

\* Blocks are gossiped to every node, and a call that has started goes on.  The
\* engine keeps asking for proposals; it calls the closures of a node in turn, so
\* a validation or decision waits for the calls before it, but not for ever.
Fairness ==
    /\ \A n \in Node :
        /\ WF_vars(\E b \in Block : CommitBlock(n, b))
        /\ WF_vars(ProposeTip(n) \/ ProposeHeader(n) \/ ProposeHeaders(n))
        /\ SF_vars(NewDecided(n) \/ \E block \in Pending(n) : Validate(n, block))
        /\ WF_vars(FinalizeDecided(n))
    /\ WF_vars(\E block \in proposed : Decide(block))

FairSpec == Spec /\ Fairness

-----------------------------------------------------------------------------
\* One chain: one block per height, each with its parent.
IsChain(bs) ==
    /\ \A b \in bs \ {Genesis} : Parent[b] \in bs
    /\ \A a, b \in bs : Height[a] = Height[b] => a = b

\* Nodes never finalize conflicting blocks: all their databases are prefixes of
\* one chain, although each node only knows its own forks when it validates.
NodesAgreeOnFinality == \A m, n \in Node : IsChain(finalized[m] \cup finalized[n])

Finals(n) == {Head(bft_blocks[n][i].headers) : i \in DOMAIN bft_blocks[n]}

\* Once a decided block is applied, its PoW block is in the database: "PoW
\* finalized hash should now match ours" (lib.rs:586).
DecidedIsFinalized ==
    \A n \in Node : ~deciding[n] /\ n \notin panicked => Finals(n) \subseteq finalized[n]

\* The nodes are replicas of one finality log: whatever forks they know and when
\* they apply a decision, they finalize one chain, never undo it, and a decision
\* that has been applied is about a block in the database.
Log == INSTANCE FinalityLog WITH
    Replica <- Node,
    store <- finalized,
    confirmed <- [n \in Node |->
        {Head(bft_blocks[n][i].headers) :
            i \in {j \in DOMAIN bft_blocks[n] : deciding[n] => j < Len(bft_blocks[n])}}]

ImplementsFinalityLog == Log!Spec

\* The blocks that are rewarded and broadcast are a run of the chain: none is
\* skipped, and none is rewarded twice, over all decisions, as long as no
\* operator has set finality.  It needs that no decision goes back to the genesis
\* block, which a sigma above 1 allows (see FinalityMovesForward).
RewardedOnce ==
    requests = 0 => \A n \in Node : \A i \in 2 .. Len(final_changes[n]) :
        Parent[final_changes[n][i]] = final_changes[n][i - 1]

\* Nodes that applied the same number of decisions have rewarded the same
\* blocks, whatever their PoW views were when they did.  Their rosters are
\* functions of these blocks.
RosterInputsAgree ==
    \A m, n \in Node :
        /\ Len(bft_blocks[m]) = Len(bft_blocks[n])
        /\ ~deciding[m] /\ ~deciding[n]
        => final_changes[m] = final_changes[n]

\* A decided block passes the validation it is asserted to pass (lib.rs:537),
\* although the PoW state went on since the node validated the proposal.
DecidedValidates ==
    \A n \in Node :
        LET i == Len(bft_blocks[n]) + 1
        IN  i \in DOMAIN decided => (decided[i] \in passed[n] => Validates(n, decided[i]))

\* Each decision finalizes a higher block than the one before, until an operator
\* sets finality: a proposal is made from reads between which the best chain, the
\* decisions and the proposals of other nodes go on, and validation only compares
\* its predecessor.  The exception is a proposal that starts at the genesis block,
\* as FindBlockHeaders does when its candidate has left a best chain of sigma blocks.
FinalityMovesForward ==
    /\ TypeOK
    /\ requests = 0 => \A i \in 2 .. Len(decided) :
        LET final == Head(decided[i].headers)
        IN  final # Genesis => Height[final] > Height[Head(decided[i - 1].headers)]

\* "At least this many PoW blocks must be atop the PoW block used to obtain a
\* finalized view" (chain.rs:205): the headers of a proposal show that many
\* above the block it finalizes.
SigmaBlocksAtop ==
    \A block \in proposed : Len(block.headers) - 1 >= bc_confirmation_depth_sigma

\* The candidate of a proposal can still be read after the await.  Without it the
\* node panics (lib.rs:420), and a reorganization to a lower tip takes it away.
CandidateExists ==
    \A n \in Node : proposing[n].step = "header"
        => \E b \in MainChain(n) : Height[b] = proposing[n].height

\* Finality keeps up: in the end every node has finalized the highest block it
\* may propose.  "Blocks become final or they are removed from the chain within a
\* finite amount of time" (book/src/design/security-properties.md).
FinalityProgress ==
    <>[](\A n \in Node :
            /\ latest_final_block[n] # NONE
            /\ \A b \in MainChain(n) :
                Height[b] <= Height[latest_final_block[n]] + bc_confirmation_depth_sigma)

\* A decision is applied by every node.
DecisionsAreApplied ==
    \A n \in Node : (Len(bft_blocks[n]) < Len(decided)) ~> (Len(bft_blocks[n]) = Len(decided))
=============================================================================
