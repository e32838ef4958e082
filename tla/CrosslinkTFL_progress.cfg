CONSTANTS
    NONE = NONE
    g = g
    a1 = a1
    a2 = a2
    a3 = a3
    b1 = b1
    n1 = n1
    n2 = n2
    Genesis = g
    Block <- MCBlock
    Parent <- MCParent
    Height <- MCHeight
    Work <- MCWork
    HashRank <- MCHashRank
    NoteTree <- MCNoteTree
    Node = {n1, n2}
    Quorum <- MCQuorum
    Proposer = {n1}
    MAX_NON_FINALIZED_CHAIN_FORKS = 3
    bc_confirmation_depth_sigma = 1
    MAX_BLOCK_REORG_HEIGHT = 5
    TFL_ACTIVATION_HEIGHT = 9
    is_regtest = FALSE
    MaxRequests = 0
SPECIFICATION FairSpec
CHECK_DEADLOCK FALSE
PROPERTIES FinalityProgress DecisionsAreApplied
