CONSTANTS
    Block <- MCBlock
    Genesis = "g"
    Parent <- MCParent
    Height <- MCHeight
    Work <- MCWork
    HashRank <- MCHashRank
    NoteTree <- MCNoteTree
    NONE = NONE
    CheckpointChain = {"g", "k1"}
    ContextuallyInvalid = {"x3"}
    MAX_NON_FINALIZED_CHAIN_FORKS = 3
    MAX_BLOCK_REORG_HEIGHT = 1
    PARENT_ERROR_MAP_LIMIT = 1
    MAX_INVALIDATED_BLOCKS = 1
    MaxRequests = 2
    MaxRestarts = 1
SPECIFICATION FairSpec
INVARIANTS
    ChainsExtendFinalizedTip
    CrosslinkStopsAtRequest
    PublishedBestChainConnects
    TreesAreRetrievable
    NeverPanics
PROPERTIES
    ImplementsFinalityLog
    InvalidationReachesEveryFork
    CrosslinkIsAnswered
CHECK_DEADLOCK FALSE
