CONSTANTS
    ka = ka
    kb = kb
    kc = kc
    p1 = p1
    p2 = p2
    NoKey = NoKey
    Key <- MCKey
    KeyRank <- MCKeyRank
    Replica <- MCReplica
    Peers <- MCPeers
    CommandValues <- MCValues
    POS_TOTAL_REWARD = 5
    U64 = 65536
    MaxBlocks = 3
    MaxCommands = 2
SPECIFICATION Spec
CHECK_DEADLOCK FALSE
INVARIANTS StakeIsAccounted RewardNeverPanics
