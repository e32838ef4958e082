SPECIFICATION FairSpec
CONSTANTS
    NONE = NONE
    Request = {"b", "t", "a"}
    Hash = {"h1", "h2"}
    Impatient = {"t"}
    Kind <- MCKindOf
    Inventory <- MCInventory
    PEER_ADDR_RESPONSE_LIMIT = 1
    MAX_ADDRS_IN_MESSAGE = 1
INVARIANTS NoRequestIsLost AnswersMatchRequests
PROPERTY RequestsAreAnswered
CHECK_DEADLOCK FALSE
