SPECIFICATION FairSpec
CONSTANTS
    NONE = NONE
    Tx = {"P", "C", "X"}
    Slow = {"C"}
    Coin = {"u1", "u2"}
    Block = {"g", "a1", "e1", "e2"}
    Genesis = "g"
    Spends <- MCSpends
    Expiry <- MCExpiry
    Cost <- MCCost
    Parent <- MCParent
    BlockSpends <- MCBlockSpends
    Mined <- MCMined
    NextTip <- MCNextTip
    Activation = {}
    TX_COST_LIMIT = 2
    MAX_INBOUND_CONCURRENCY = 2
INVARIANTS CachesAgree TemplateIsValid
PROPERTY RequestsAreAnswered
CHECK_DEADLOCK FALSE
