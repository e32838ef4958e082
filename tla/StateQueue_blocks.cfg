CONSTANTS
    Block = {"g", "k1", "k2", "a3", "a4", "b3", "b4", "b5"}
    Genesis = "g"
    Parent <- MCParent
    Height <- MCHeight
    Checkpoints = {"k1", "k2"}
    Invalid = {"a4"}
    full_verifier_utxo_lookahead = 2
    Awaited = {"k2", "a3"}
    MaxRequests <- MCMaxRequests
SPECIFICATION Spec
INVARIANTS
    QueueIndexesAgree
    RequestsAreAccounted
    SentWhenReady
    CheckpointsDoNotStall
    UtxoWaitersAreNotMissed
CHECK_DEADLOCK FALSE
