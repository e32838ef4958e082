CONSTANTS
    Genesis = 0
    Block <- MCBlock
    Parent <- MCParent
    Height <- MCHeight
    PeerChain <- MCPeerChain
    BestPeer <- MCBestPeer
    Checkpoint = {0, 3}
    FANOUT = 2
    MAX_TIPS_RESPONSE_HASH_COUNT = 4
    checkpoint_verify_concurrency_limit = 3
    full_verify_concurrency_limit = 2
    VERIFICATION_PIPELINE_SCALING_MULTIPLIER = 0
    VERIFICATION_PIPELINE_DROP_LIMIT = 5
    MAX_BLOCK_REORG_HEIGHT = 3
    MIN_DIST_FROM_TIP = 2
    MAX_RECENT_LENGTHS = 1
    MaxSurprises = 2
SPECIFICATION FairSpec
INVARIANTS HandlesMatchTasks DownloadsNonempty
PROPERTY SyncCatchesUp
