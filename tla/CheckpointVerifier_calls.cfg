CONSTANTS
    NONE = NONE
    Block <- MCBlock
    Parent <- MCParent
    Height <- MCHeight
    Checkpoint <- MCCheckpoint
    Request = {"g", "a1", "a1x", "b1", "c1", "a2", "a2r"}
    Of <- MCOf
    Corrupt = {"a1x"}
    Impatient = {"a1", "a2", "a2r"}
    Syncer = {"g", "a1", "a2", "a2r"}
    InitialTip = NONE
    MAX_QUEUED_BLOCKS_PER_HEIGHT = 2
SPECIFICATION FairSpec
INVARIANTS VerifiedIsOnCheckpointChain NoDanglingReceivers RangesAreWhole
CHECK_DEADLOCK FALSE
PROPERTY SyncCompletes
