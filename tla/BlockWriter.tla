---------------------------- MODULE BlockWriter ----------------------------
(***************************************************************************)
(* zebra-state/src/service/write.rs: the block write task, the only thread *)
(* that changes the finalized database and the non-finalized state.        *)
(*                                                                         *)
(* The task first commits checkpoint-verified blocks, then serves the      *)
(* messages Commit, CrosslinkFinalized, Invalidate and Reconsider.  Its    *)
(* finalization loops take one step per block, because every block is      *)
(* written to the database by a commit of its own, which readers see, and  *)
(* after which the node may crash, while the loop runs.                    *)
(*                                                                         *)
(* A panic stops the task with the failed expectation in `panic`.          *)
(***************************************************************************)
EXTENDS NonFinalizedState, Sequences

CONSTANTS
    NONE,                     \* no value
    CheckpointChain,          \* blocks up to the last checkpoint
    ContextuallyInvalid,      \* blocks that fail a contextual consensus rule
    MAX_BLOCK_REORG_HEIGHT,
    PARENT_ERROR_MAP_LIMIT,
    MAX_INVALIDATED_BLOCKS,
    MaxRequests,              \* bound on Invalidate and Reconsider messages
    MaxRestarts               \* bound on crashes of the node

ASSUME WriterAssumption ==
    /\ NONE \notin Block /\ NONE \notin Nat
    /\ CheckpointChain \subseteq Block
    /\ ContextuallyInvalid \subseteq Block \ CheckpointChain
    /\ MAX_BLOCK_REORG_HEIGHT \in Nat \ {0}
    /\ PARENT_ERROR_MAP_LIMIT \in Nat
    /\ MAX_INVALIDATED_BLOCKS \in Nat \ {0}
    /\ MaxRequests \in Nat /\ MaxRestarts \in Nat

VARIABLES
    phase,              \* where WriteBlockWorkerTask::run is
    panic,              \* the expectation that failed
    finalized,          \* the blocks in the finalized database
    finalized_tip,      \* the block at its greatest height
    stored_trees,       \* <<height, tree>> pairs in the database
    prev_trees,         \* prev_finalized_note_commitment_trees
    chain_set,          \* NonFinalizedState.chain_set
    invalidated_blocks, \* NonFinalizedState.invalidated_blocks
    parent_error_map,   \* rejected blocks, oldest first
    published,          \* chain set in the non_finalized_state watch channel
    latest_tip,         \* block in the chain tip watch channel
    crosslink,          \* hash being finalized by Crosslink
    remaining,          \* iterations left in its finalization loop
    received,           \* blocks the state service has sent to the task
    acked,              \* hashes that CrosslinkFinalized answered with Ok
    requests, restarts

db == <<finalized, finalized_tip, stored_trees>>
nfs == <<chain_set, invalidated_blocks>>
channels == <<published, latest_tip>>
loop == <<crosslink, remaining>>
counters == <<requests, restarts>>
vars == <<phase, panic, db, prev_trees, nfs, parent_error_map, channels,
          loop, received, acked, counters>>

Phases == {"checkpoint", "recv", "reorg", "crosslink", "panicked"}

\* chain.rs:2354, chain.rs:1204, write.rs:96 and finalized_state.rs:428.
Panics == {"unique tips", "at least one block", "empty state", "child of the tip"}

\* The blocks removed by one invalidation, and its place in the IndexMap.
Invalidation == [blocks : SUBSET Block, index : Nat]

TypeOK ==
    /\ phase \in Phases /\ panic \in Panics \cup {"none"}
    /\ finalized \subseteq Block /\ finalized_tip \in Block
    /\ stored_trees \subseteq Nat \X Nat /\ prev_trees \in Nat \cup {NONE}
    /\ chain_set \subseteq SUBSET Block
    /\ DOMAIN invalidated_blocks \subseteq Nat
    /\ invalidated_blocks \in [DOMAIN invalidated_blocks -> Invalidation]
    /\ parent_error_map \in Seq(Block)
    /\ published \subseteq SUBSET Block /\ latest_tip \in Block
    /\ crosslink \in Block \cup {NONE} /\ remaining \in Nat
    /\ received \subseteq Block /\ acked \subseteq Block
    /\ requests \in Nat /\ restarts \in Nat

\* A task started on a database that holds the genesis block.
Init ==
    /\ phase = "checkpoint" /\ panic = "none"
    /\ finalized = {Genesis} /\ finalized_tip = Genesis
    /\ stored_trees = {<<0, NoteTree[Genesis]>>} /\ prev_trees = NONE
    /\ chain_set = {} /\ invalidated_blocks = [h \in {} |-> NONE]
    /\ parent_error_map = <<>>
    /\ published = {} /\ latest_tip = Genesis
    /\ crosslink = NONE /\ remaining = 0
    /\ received = {} /\ acked = {} /\ requests = 0 /\ restarts = 0

-----------------------------------------------------------------------------
\* The thread stops, and the node with it.
Panic(why) ==
    /\ phase' = "panicked" /\ panic' = why
    /\ UNCHANGED <<db, prev_trees, nfs, parent_error_map, channels, loop>>

\* The tree of the database tip: the one stored at the greatest height.
TreeForTip ==
    (CHOOSE p \in stored_trees : \A q \in stored_trees : q[1] <= p[1])[2]

\* What commit_finalized_direct asserts of the block it writes.
IsChildOfTip(b) ==
    /\ Height[b] = Height[finalized_tip] + 1
    /\ Parent[b] = finalized_tip

\* Mutant: a block finalized without previous trees is taken to change none.
WriteBlockNoTreeForTip(b, prev) ==
    /\ finalized' = finalized \cup {b}
    /\ finalized_tip' = b
    /\ stored_trees' = IF NoteTree[b] = prev \/ prev = NONE
                       THEN stored_trees
                       ELSE stored_trees \cup {<<Height[b], NoteTree[b]>>}

\* write_block, with prepare_trees_batch: the block is stored, and its tree if
\* it differs from the caller's previous tree, or from the tree of the tip when
\* the caller has none.
WriteBlock(b, prev) ==
    /\ finalized' = finalized \cup {b}
    /\ finalized_tip' = b
    /\ stored_trees' = IF NoteTree[b] = (IF prev = NONE THEN TreeForTip ELSE prev)
                       THEN stored_trees
                       ELSE stored_trees \cup {<<Height[b], NoteTree[b]>>}

\* update_latest_chain_channels, on a chain set whose best chain has a block.
CanPublish(cs) == \E best \in cs : IsBest(best, cs) /\ best # {}

Publish(cs) ==
    \E best \in cs :
        /\ IsBest(best, cs) /\ best # {}
        /\ published' = cs
        /\ latest_tip' = NonFinalizedTip(best)

-----------------------------------------------------------------------------
\* The first loop: a block of the next height, sent in chain order, is written.
CommitCheckpointVerified(b) ==
    /\ phase = "checkpoint"
    /\ b \in CheckpointChain /\ IsChildOfTip(b)
    /\ WriteBlock(b, prev_trees)
    /\ prev_trees' = NoteTree[b]
    /\ latest_tip' = b
    /\ UNCHANGED <<phase, panic, nfs, parent_error_map, published, loop,
                   received, acked, counters>>

\* A checkpoint block whose authorizing data does not match its commitment is
\* not written, and the previous trees have been taken.
RejectCheckpointVerified ==
    /\ phase = "checkpoint"
    /\ ~(CheckpointChain \subseteq finalized)
    /\ prev_trees' = NONE
    /\ UNCHANGED <<phase, panic, db, nfs, parent_error_map, channels, loop,
                   received, acked, counters>>

\* The state has sent the last checkpoint block and closes the channel.
FinishCheckpoints ==
    /\ phase = "checkpoint"
    /\ CheckpointChain \subseteq finalized
    /\ phase' = "recv"
    /\ UNCHANGED <<panic, db, prev_trees, nfs, parent_error_map, channels, loop,
                   received, acked, counters>>

-----------------------------------------------------------------------------
Rejected == {parent_error_map[i] : i \in DOMAIN parent_error_map}

\* parent_error_map.insert, then drop the oldest entry over the limit.
RecordError(b) ==
    LET inserted == Append(parent_error_map, b)
    IN  parent_error_map' = IF Len(inserted) > PARENT_ERROR_MAP_LIMIT
                            THEN Tail(inserted) ELSE inserted

\* check::initial_contextual_validity: above the finalized tip, with a parent
\* in some chain or in the database.
InitialContextualValidity(b) ==
    /\ Height[b] > Height[finalized_tip]
    /\ Parent[b] \in finalized \cup UNION chain_set

\* validate_and_commit: an invalidated block bars every block of its height.
ValidateContext(b) ==
    /\ Height[b] \notin DOMAIN invalidated_blocks
    /\ b \notin ContextuallyInvalid

\* The chain a block is pushed onto: a new one on the finalized tip, or the
\* parent chain.
IsBaseChain(c, parent) ==
    IF parent = finalized_tip THEN c = {} ELSE IsParentChain(c, chain_set, parent)

\* Looking for the parent chain asks every chain that is not found first for
\* its tip, and an empty chain, the last in the order, has none.
ParentChainPanics(parent) ==
    /\ parent # finalized_tip
    /\ {} \in chain_set
    /\ ChainsWithTip(chain_set, parent) = {}

\* The filter that drops the extended chain asks every chain for its tip.
CommitPanics(b) ==
    \/ ParentChainPanics(Parent[b])
    \/ Parent[b] # finalized_tip /\ {} \in chain_set /\ ValidateContext(b)

\* The state sends a block once, and only after its parent.
Receive(b) ==
    /\ phase = "recv"
    /\ b \notin received \cup finalized
    /\ Parent[b] \in received \cup finalized
    /\ received' = received \cup {b}
    /\ UNCHANGED <<acked, counters>>

Candidate(b) == Parent[b] \notin Rejected /\ InitialContextualValidity(b)

\* Commit: the parent was rejected, or the block is not valid in its context.
RejectBlock(b) ==
    /\ Receive(b)
    /\ Candidate(b) => ~ValidateContext(b) /\ ~CommitPanics(b)
    /\ RecordError(b)
    /\ UNCHANGED <<phase, panic, db, prev_trees, nfs, channels, loop>>

\* The loop that finalizes blocks past the reorg limit runs while this holds.
PastReorgLimit(cs) ==
    \E best \in cs : IsBest(best, cs) /\ Cardinality(best) > MAX_BLOCK_REORG_HEIGHT

\* The chains that validate_and_commit may build for the block.
NewChains(b) ==
    {Push(c, b) : c \in {d \in {{}} \cup {Fork(e, Parent[b]) : e \in chain_set} :
                            IsBaseChain(d, Parent[b])}}

\* Commit: the block extends or forks a chain, and the channels are updated
\* before blocks past the reorg limit are finalized.
CommitBlock(b) ==
    /\ Receive(b)
    /\ Candidate(b) /\ ValidateContext(b) /\ ~CommitPanics(b)
    /\ \E c \in NewChains(b) :
        /\ ~InsertPanics(chain_set, c)
        /\ chain_set' = InsertAbove(chain_set, c, Parent[b])
    /\ Publish(chain_set')
    /\ phase' = IF PastReorgLimit(chain_set') THEN "reorg" ELSE "recv"
    /\ UNCHANGED <<panic, db, prev_trees, invalidated_blocks, parent_error_map, loop>>

\* Commit while there is a chain without blocks, or of a chain that is there.
CommitBlockPanics(b) ==
    /\ Receive(b)
    /\ Candidate(b)
    /\ IF CommitPanics(b)
       THEN Panic("at least one block")
       ELSE /\ ValidateContext(b)
            /\ \E c \in NewChains(b) : InsertPanics(chain_set, c)
            /\ Panic("unique tips")

-----------------------------------------------------------------------------
\* Mutant: the channels are updated before the other chains are dropped.
CrosslinkFinalizedPublishFirst(h) ==
    /\ phase = "recv"
    /\ \E c \in chain_set :
        /\ IsBest(c, ChainsContaining(chain_set, h))
        /\ remaining' = Cardinality(Fork(c, h))
    /\ chain_set' = CrosslinkFinalizeChains(chain_set, h)
    /\ Publish(chain_set)
    /\ crosslink' = h
    /\ phase' = "crosslink"
    /\ UNCHANGED <<panic, db, prev_trees, invalidated_blocks, parent_error_map,
                   received, acked, counters>>

\* CrosslinkFinalized for a block of some chain: the other chains are dropped
\* and the channels updated before any block is finalized.
CrosslinkFinalized(h) ==
    /\ phase = "recv"
    /\ \E c \in chain_set :
        /\ IsBest(c, ChainsContaining(chain_set, h))
        /\ remaining' = Cardinality(Fork(c, h))
    /\ chain_set' = CrosslinkFinalizeChains(chain_set, h)
    /\ Publish(chain_set')
    /\ crosslink' = h
    /\ phase' = "crosslink"
    /\ UNCHANGED <<panic, db, prev_trees, invalidated_blocks, parent_error_map,
                   received, acked, counters>>

\* CrosslinkFinalized for a block that is already in the database.  A block the
\* task does not know is answered with Err and changes nothing.
CrosslinkAlreadyFinalized(h) ==
    /\ phase = "recv"
    /\ ChainsContaining(chain_set, h) = {} /\ h \in finalized
    /\ acked' = acked \cup {h}
    /\ UNCHANGED <<phase, panic, db, prev_trees, nfs, parent_error_map, channels,
                   loop, received, counters>>

\* NonFinalizedState::finalize: the best chain gives up its root.  Invalidated
\* blocks below the root are forgotten.
Finalize(best) ==
    LET root == NonFinalizedRoot(best)
    IN  /\ chain_set' = FinalizeChains(chain_set, best)
        /\ invalidated_blocks' =
            [h \in {g \in DOMAIN invalidated_blocks : g >= Height[root]}
                |-> invalidated_blocks[h]]

\* One iteration of the loop over blocks past the reorg limit.
ReorgFinalize ==
    /\ phase = "reorg"
    /\ {} \notin chain_set
    /\ \E best \in chain_set :
        LET root == NonFinalizedRoot(best)
        IN  /\ IsBest(best, chain_set)
            /\ IsChildOfTip(root)
            /\ Finalize(best)
            /\ WriteBlock(root, prev_trees)
            /\ prev_trees' = NoteTree[root]
    /\ phase' = IF PastReorgLimit(chain_set') THEN "reorg" ELSE "recv"
    /\ UNCHANGED <<panic, parent_error_map, channels, loop, received, acked, counters>>

\* One iteration of the Crosslink finalization loop.  It passes no previous
\* trees, and leaves the ones of the other loop as they are.
CrosslinkFinalize ==
    /\ phase = "crosslink" /\ remaining > 0
    /\ {} \notin chain_set
    /\ \E best \in chain_set :
        LET root == NonFinalizedRoot(best)
        IN  /\ IsBest(best, chain_set)
            /\ IsChildOfTip(root)
            /\ Finalize(best)
            /\ WriteBlock(root, NONE)
    /\ remaining' = remaining - 1
    /\ UNCHANGED <<phase, panic, prev_trees, parent_error_map, channels, crosslink,
                   received, acked, counters>>

\* An iteration of either loop fails: pop_root and non_finalized_root_hash need
\* a block in every chain, and the root must be a child of the finalized tip.
FinalizePanics ==
    /\ phase = "reorg" \/ (phase = "crosslink" /\ remaining > 0)
    /\ IF {} \in chain_set \/ chain_set = {}
       THEN Panic("at least one block")
       ELSE /\ \E best \in chain_set : /\ IsBest(best, chain_set)
                                       /\ ~IsChildOfTip(NonFinalizedRoot(best))
            /\ Panic("child of the tip")
    /\ UNCHANGED <<received, acked, counters>>

\* Mutant: the answer is sent before all blocks are written.
CrosslinkAnswerEarly ==
    /\ phase = "crosslink"
    /\ phase' = "recv"
    /\ crosslink' = NONE
    /\ acked' = acked \cup {crosslink}
    /\ UNCHANGED <<panic, db, prev_trees, nfs, parent_error_map, channels,
                   remaining, received, counters>>

\* Mutant: the loop ends without an answer.
CrosslinkAnswerDropped ==
    /\ phase = "crosslink" /\ remaining = 0
    /\ phase' = "recv"
    /\ crosslink' = NONE
    /\ UNCHANGED <<panic, db, prev_trees, nfs, parent_error_map, channels,
                   remaining, received, acked, counters>>

\* The loop is over: answer Ok(hash).
CrosslinkAnswer ==
    /\ phase = "crosslink" /\ remaining = 0
    /\ phase' = "recv"
    /\ crosslink' = NONE
    /\ acked' = acked \cup {crosslink}
    /\ UNCHANGED <<panic, db, prev_trees, nfs, parent_error_map, channels,
                   remaining, received, counters>>

-----------------------------------------------------------------------------
\* An operator's Invalidate or Reconsider message.
Request ==
    /\ phase = "recv"
    /\ requests < MaxRequests
    /\ requests' = requests + 1
    /\ UNCHANGED <<received, acked, restarts>>

\* A request that fails still updates the channels.
RequestFails ==
    IF CanPublish(chain_set)
    THEN /\ Publish(chain_set)
         /\ UNCHANGED <<phase, panic, db, prev_trees, nfs, parent_error_map, loop>>
    ELSE Panic("empty state")

\* The IndexMap after an insertion: an entry of the same height is replaced in
\* its place, and the oldest entry over the limit is dropped.
InsertInvalidated(blocks) ==
    LET h == Height[NonFinalizedRoot(blocks)]
        old == DOMAIN invalidated_blocks
        entry == [blocks |-> blocks,
                  index |-> IF h \in old THEN invalidated_blocks[h].index ELSE requests]
        new == [g \in old \cup {h} |-> IF g = h THEN entry ELSE invalidated_blocks[g]]
        oldest == {g \in DOMAIN new : \A k \in DOMAIN new : new[g].index <= new[k].index}
    IN  IF Cardinality(DOMAIN new) > MAX_INVALIDATED_BLOCKS
        THEN [g \in DOMAIN new \ oldest |-> new[g]]
        ELSE new

\* Invalidate, for a block above the root of its best chain.
InvalidateBlock(h) ==
    /\ Request
    /\ \E c \in chain_set :
        /\ IsBest(c, ChainsContaining(chain_set, h))
        /\ NonFinalizedRoot(c) # h
        /\ ~InsertPanics(chain_set, InvalidateInChain(c, h))
        /\ chain_set' = InsertWithout(chain_set, InvalidateInChain(c, h), h)
        /\ invalidated_blocks' = InsertInvalidated(ChildBlocks(c, h))
    /\ Publish(chain_set')
    /\ UNCHANGED <<phase, panic, db, prev_trees, parent_error_map, loop>>

\* Invalidate, for the root of a chain, which BTreeSet::remove compares with
\* itself, or when the shortened chain is in the set already.
InvalidateBlockPanics(h) ==
    /\ Request
    /\ \E c \in chain_set :
        /\ IsBest(c, ChainsContaining(chain_set, h))
        /\ NonFinalizedRoot(c) # h => InsertPanics(chain_set, InvalidateInChain(c, h))
    /\ Panic("unique tips")

\* Invalidate, for a block in no chain.
InvalidateUnknown ==
    /\ Request
    /\ {h \in Block : ChainsContaining(chain_set, h) = {}} # {}
    /\ RequestFails

\* The entries that an invalidation of h made.
InvalidatedBy(h) ==
    {e \in {invalidated_blocks[g] : g \in DOMAIN invalidated_blocks} :
        NonFinalizedRoot(e.blocks) = h}

\* The chains that reconsider_block may build.
ReconsideredChains(h) ==
    UNION {{c \cup e.blocks : c \in {d \in {{}} \cup {Fork(x, Parent[h]) : x \in chain_set} :
                                        IsBaseChain(d, Parent[h])}} : e \in InvalidatedBy(h)}

ReconsiderPanics(h) ==
    \/ ParentChainPanics(Parent[h])
    \/ ReconsideredChains(h) # {} /\ {} \in chain_set

\* Reconsider: put the invalidated blocks back on their parent.  The entry
\* itself is removed from a clone of the map, so it stays.
ReconsiderBlock(h) ==
    /\ Request
    /\ InvalidatedBy(h) # {} /\ ~ReconsiderPanics(h)
    /\ \E c \in ReconsideredChains(h) :
        /\ ~InsertPanics(chain_set, c)
        /\ chain_set' = InsertAbove(chain_set, c, Parent[h])
    /\ invalidated_blocks' =
        [g \in {k \in DOMAIN invalidated_blocks : k >= Height[finalized_tip]}
            |-> invalidated_blocks[g]]
    /\ Publish(chain_set')
    /\ UNCHANGED <<phase, panic, db, prev_trees, parent_error_map, loop>>

\* Reconsider when the chain is there already, or with an empty chain around.
ReconsiderBlockPanics(h) ==
    /\ Request
    /\ InvalidatedBy(h) # {}
    /\ IF /\ ~ParentChainPanics(Parent[h])
          /\ \E c \in ReconsideredChains(h) : InsertPanics(chain_set, c)
       THEN Panic("unique tips")
       ELSE ReconsiderPanics(h) /\ Panic("at least one block")

\* Reconsider of a block that was not invalidated, or has lost its parent.
ReconsiderUnknown ==
    /\ Request
    /\ {h \in Block : \/ InvalidatedBy(h) = {}
                      \/ ReconsideredChains(h) = {} /\ ~ReconsiderPanics(h)} # {}
    /\ RequestFails

-----------------------------------------------------------------------------
\* The node crashes, or stops on a panic, and starts again on its database.
Restart ==
    /\ restarts < MaxRestarts
    /\ restarts' = restarts + 1
    /\ phase' = "checkpoint" /\ panic' = "none"
    /\ prev_trees' = NONE
    /\ chain_set' = {} /\ invalidated_blocks' = [h \in {} |-> NONE]
    /\ parent_error_map' = <<>>
    /\ published' = {} /\ latest_tip' = finalized_tip
    /\ crosslink' = NONE /\ remaining' = 0
    /\ received' = {}
    /\ UNCHANGED <<db, acked, requests>>

Next ==
    \/ \E b \in Block :
        \/ CommitCheckpointVerified(b)
        \/ RejectBlock(b) \/ CommitBlock(b) \/ CommitBlockPanics(b)
        \/ CrosslinkFinalized(b) \/ CrosslinkAlreadyFinalized(b)
        \/ InvalidateBlock(b) \/ InvalidateBlockPanics(b)
        \/ ReconsiderBlock(b) \/ ReconsiderBlockPanics(b)
    \/ InvalidateUnknown \/ ReconsiderUnknown
    \/ RejectCheckpointVerified \/ FinishCheckpoints
    \/ ReorgFinalize \/ CrosslinkFinalize \/ FinalizePanics \/ CrosslinkAnswer
    \/ Restart

Spec == Init /\ [][Next]_vars

\* The task is a thread of its own: inside its loops it never waits.
FairSpec == Spec /\ WF_vars(ReorgFinalize \/ CrosslinkFinalize \/ FinalizePanics
                            \/ CrosslinkAnswer)

-----------------------------------------------------------------------------
(***************************************************************************)
(* Properties.                                                             *)
(***************************************************************************)
\* Every chain in memory sits on the finalized tip, whatever forks, Crosslink
\* finalizations, reorg-limit finalizations, invalidations and restarts came
\* before: finalize() drops or pops every side chain.
ChainsExtendFinalizedTip == \A c \in chain_set : ExtendsBlock(c, finalized_tip)

\* The database holds one chain, from genesis to its tip.
FinalizedIsAChain ==
    /\ Genesis \in finalized /\ finalized_tip \in finalized
    /\ ExtendsBlock(finalized \ {Genesis}, Genesis)
    /\ \A b \in finalized : Height[b] <= Height[finalized_tip]

\* The assertions of commit_finalized_direct hold for every block that either
\* finalization loop takes from the non-finalized state.
OnlyChildrenAreFinalized == panic # "child of the tip"

\* A block whose Crosslink finalization was answered with Ok is in the database,
\* and a crash does not take it out.
AckedIsFinalized == acked \subseteq finalized

\* The Crosslink loop counts its iterations before it starts; the count still
\* ends it exactly at the requested block, which every kept chain contains.
CrosslinkStopsAtRequest ==
    phase = "crosslink" =>
        /\ remaining = Height[crosslink] - Height[finalized_tip]
        /\ remaining > 0 => \A c \in chain_set : crosslink \in c

\* Readers join the published best chain to the database.  The loops update the
\* database after the channel, and still never leave the two disagreeing: below
\* the finalized tip the published best chain is the finalized chain, and above
\* it the chain goes on from the tip.
PublishedBestChainConnects ==
    \A best \in published :
        IsBest(best, published) =>
            /\ NonFinalizedTip(best) = latest_tip
            /\ \A b \in best : /\ Height[b] <= Height[finalized_tip] => b \in finalized
                               /\ Parent[b] \in best \cup finalized
            /\ Height[latest_tip] >= Height[finalized_tip]

\* Trees are stored only when they change, and the previous tree a loop compares
\* with may be stale; the tree found at or below a height is still the right one.
TreesAreRetrievable ==
    \A b \in finalized : \E p \in stored_trees :
        /\ p[1] <= Height[b] /\ p[2] = NoteTree[b]
        /\ \A q \in stored_trees : q[1] <= Height[b] => q[1] <= p[1]

\* Until an operator invalidates or reconsiders a block, no unwrap, expect, assert
\* or unreachable of the task fails.
NeverPanics == requests = 0 => panic = "none"

\* The database is a finality log with one replica: it grows along one chain, a
\* finalization is never undone, and a CrosslinkFinalized message is answered with
\* Ok only for a stored block, through every fork, invalidation and crash.
Log == INSTANCE FinalityLog WITH
    Replica <- {"db"},
    store <- [r \in {"db"} |-> finalized],
    confirmed <- [r \in {"db"} |-> acked]

ImplementsFinalityLog == Log!Spec

\* No chain has a block of an entry that is new in the map, or a block on top of it.
ForksDropNewEntries ==
    \A g \in DOMAIN invalidated_blocks' :
        (g \notin DOMAIN invalidated_blocks
            \/ invalidated_blocks'[g] # invalidated_blocks[g])
        => \A c \in chain_set' : \A b \in c :
            /\ b \notin invalidated_blocks'[g].blocks
            /\ Parent[b] \notin invalidated_blocks'[g].blocks

\* An invalidation reaches every fork: no chain keeps the invalidated block or a
\* block that descends from it.
InvalidationReachesEveryFork == [][ForksDropNewEntries]_vars

\* A CrosslinkFinalized message for a block of some chain is answered with Ok,
\* unless the node stops first: the loop ends, and ends with the answer.
CrosslinkIsAnswered ==
    /\ phase = "crosslink" ~> phase # "crosslink"
    /\ [][ crosslink # NONE /\ crosslink' # crosslink =>
              crosslink \in acked' \/ phase' = "panicked" \/ restarts' # restarts ]_vars

\* The statements below are made by the repository, and do not hold.

\* chain.rs:2354: "Chain tip block hashes are always unique".
ChainTipsAreUnique == panic # "unique tips"

\* chain.rs:1245: "Non-finalized chains must have at least one block to be valid".
ChainsHaveABlock == {} \notin chain_set

\* write.rs:96: "unexpected empty non-finalized state: must commit at least one
\* block before updating channels".
ChannelsUpdatedAfterCommit == panic # "empty state"

\* non_finalized_state.rs:232: finalize() is to "Remove all invalidated_blocks at
\* or below the finalized height".
FinalizeForgetsInvalidated ==
    [][ (phase \in {"reorg", "crosslink"} /\ finalized_tip' # finalized_tip) =>
            \A g \in DOMAIN invalidated_blocks' : g > Height[finalized_tip'] ]_vars

\* shielded.rs:578: trees are stored "only if they have changed".
TreesStoredOnlyIfChanged ==
    \A p, q \in stored_trees : p[2] = q[2] => p = q

\* constants.rs:17: MAX_BLOCK_REORG_HEIGHT is "the maximum length of the best
\* non-finalized chain", here while the task waits for a message.
BestChainWithinReorgLimit == phase = "recv" => ~PastReorgLimit(chain_set)

\* error.rs:71: a block is refused with "block hash {block_hash} was previously
\* invalidated" only if it was.
OnlyInvalidatedAreBarred ==
    [][ \A b \in received' \ received :
            Candidate(b) /\ Height[b] \in DOMAIN invalidated_blocks /\ phase' = "recv" =>
                \E g \in DOMAIN invalidated_blocks : b \in invalidated_blocks[g].blocks ]_vars
=============================================================================
